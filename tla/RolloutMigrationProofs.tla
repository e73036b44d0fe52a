----------------------- MODULE RolloutMigrationProofs -----------------------
(***************************************************************************)
(* For any number of instances and groups, if every instance has a share:   *)
(* rollout() never sleeps over groups it was given, and leaves only when it *)
(* is told to; no group is lost or in two places, however the migrations    *)
(* interleave with the ends of tasks; the assertions of the code hold.      *)
(*                                                                          *)
(* The first two are about one event that means two things, "there are      *)
(* groups" and "you may go", with nothing but the running groups to tell    *)
(* them apart.  Whether they can be mistaken for each other depends on the  *)
(* order of messages that are sent for other reasons: InstInv says what may *)
(* be in the queues of an instance at each point of the manager's loop.     *)
(*                                                                          *)
(* The others are about the groups that these messages bring.  GroupInv     *)
(* says where a group is and how far it is; it needs InstInv, because what  *)
(* a step may do to a group depends on what is behind it in the queue.  Two *)
(* steps of the manager regroup what it has: GatherOut makes one list of    *)
(* all answers (Flatten), MigrateIn cuts it again (AssignGives).            *)
(***************************************************************************)
EXTENDS RolloutMigration, FiniteSetTheorems, SequenceTheorems, WellFoundedInduction, TLAPS

\* An instance without a group would not wait for its notification.
EverybodyHasWork == \A i \in Instances : Share[i] # {}

-----------------------------------------------------------------------------
(* The queues of an instance *)

InstOK ==
  /\ mpc \in {"idle", "report", "reported", "out", "in", "finish", "over"}
  /\ offset \in 0 .. N /\ leaving \in 0 .. N - offset
  /\ mpc = "over" => offset = N
  /\ DOMAIN req = Instances /\ DOMAIN resp = Instances
  /\ DOMAIN rpc = Instances /\ DOMAIN lpc = Instances
  /\ DOMAIN running = Instances /\ DOMAIN awaited = Instances
  /\ DOMAIN returned = Instances /\ DOMAIN event = Instances

\* Migrated groups head the queue of an instance that has started.
Given(i) ==
  req[i][1].act = "migrate_in" /\ ToSet(req[i][1].groups) # {} /\ rpc[i] # "new"

Listens(i) == lpc[i] = "get" /\ resp[i] = <<>>

\* Nothing is asked; groups may be on their way.
Rest(i) ==
  Listens(i) /\ (req[i] = <<>> \/ (req[i] = <<req[i][1]>> /\ Given(i)))

\* A request is to be handled, migrated groups perhaps before it.
Asked(i, act) ==
  /\ Listens(i)
  /\ \/ req[i] = <<req[i][1]>> /\ req[i][1].act = act
     \/ req[i] = <<req[i][1], req[i][2]>> /\ Given(i) /\ req[i][2].act = act

Empty(i) == Listens(i) /\ req[i] = <<>>

Working(i, where) == lpc[i] \in where /\ req[i] = <<>> /\ resp[i] = <<>>

Answered(i) == lpc[i] = "get" /\ req[i] = <<>> /\ resp[i] = <<resp[i][1]>>

\* What an instance and the manager have to say to each other.
Talk(i) ==
  /\ mpc = "idle" => Rest(i)
  /\ mpc = "report" => Asked(i, "report") \/ Answered(i)
  /\ mpc = "reported" => Empty(i)
  /\ mpc = "out" =>
       /\ rpc[i] # "new"
       /\ IF i \in Leaving
          THEN Asked(i, "migrate_out") \/ Working(i, {"abort", "drain"}) \/ Answered(i)
          ELSE Empty(i)
  /\ mpc = "in" => rpc[i] # "new" /\ Empty(i)
  /\ mpc = "finish" => IF i \in Leaving THEN Asked(i, "finish") \/ Working(i, {"finish"})
                                        ELSE Rest(i)

-----------------------------------------------------------------------------
(* rollout() and its event *)

InRollout(i) == rpc[i] \in {"new", "wait", "work", "put", "notification"}

\* rollout() has a group to wait for, or waits for a notification, which has
\* come if groups have.
Loop(i) ==
  /\ rpc[i] = "wait" => awaited[i] # {} /\ awaited[i] \subseteq running[i]
  /\ rpc[i] = "work" => returned[i] # {} /\ returned[i] \subseteq running[i]
  /\ rpc[i] = "put" =>
       \E g \in running[i] : awaited[i] = {g} /\ returned[i] \subseteq running[i] \ {g}
  /\ rpc[i] = "notification" /\ running[i] # {} => event[i]

\* Until NotifyFinish the event means groups.
MeansGroups(i) == event[i] => rpc[i] = "notification" /\ running[i] # {}

Told(i) == mpc = "finish" /\ i \in Leaving

Gone(i) == rpc[i] = "over" /\ ~event[i]

Stage(i) ==
  \/ i < offset /\ Empty(i) /\ Gone(i)
  \/ i >= offset /\ InRollout(i) /\ MeansGroups(i) /\ Talk(i)
  \/ Told(i) /\ Empty(i) /\ InRollout(i)
  \/ Told(i) /\ Empty(i) /\ rpc[i] = "offload" /\ ~event[i]
  \/ Told(i) /\ Answered(i) /\ Gone(i)

InstInv == InstOK /\ \A i \in Instances : Loop(i) /\ Stage(i)

-----------------------------------------------------------------------------
(* Helpers *)

\* A queue of one message, and of two.
LEMMA One ==
  ASSUME NEW m
  PROVE  /\ Head(<<m>>) = m /\ Tail(<<m>>) = <<>> /\ Append(<<>>, m) = <<m>>
         /\ <<m>> # <<>> /\ <<m>>[1] = m
<1>1. <<m>> \in Seq({m}) /\ Len(<<m>>) = 1 /\ <<m>> # <<>>
  OBVIOUS
<1>2. Tail(<<m>>) \in Seq({m}) /\ Len(Tail(<<m>>)) = 0
  BY <1>1, HeadTailProperties
<1>3. Tail(<<m>>) = <<>>
  BY <1>2, EmptySeq
<1> QED BY <1>3

LEMMA Two ==
  ASSUME NEW m, NEW n
  PROVE  /\ Head(<<m, n>>) = m /\ Tail(<<m, n>>) = <<n>> /\ Append(<<m>>, n) = <<m, n>>
         /\ <<m, n>> # <<>> /\ <<m, n>>[1] = m /\ <<m, n>>[2] = n
<1> DEFINE S == {m, n}
<1>1. /\ <<m, n>> \in Seq(S) /\ <<m>> \in Seq(S) /\ <<n>> \in Seq(S) /\ n \in S
      /\ Len(<<m, n>>) = 2 /\ Len(<<m>>) = 1 /\ Len(<<n>>) = 1
      /\ <<m, n>>[1] = m /\ <<m, n>>[2] = n /\ <<n>>[1] = n /\ <<m>>[1] = m
  OBVIOUS
<1>2. <<m, n>> # <<>> /\ Head(<<m, n>>) = m
  OBVIOUS
<1> HIDE DEF S
<1>3. /\ Tail(<<m, n>>) \in Seq(S) /\ Len(Tail(<<m, n>>)) = 1
      /\ \A i \in 1 .. Len(Tail(<<m, n>>)) : Tail(<<m, n>>)[i] = <<m, n>>[i + 1]
  BY <1>1, <1>2, HeadTailProperties
<1>4. Tail(<<m, n>>) = <<n>>
  BY <1>1, <1>3, SeqEqual
<1> DEFINE s == Append(<<m>>, n)
           t == <<m, n>>
<1>5. s \in Seq(S) /\ Len(s) = 2 /\ s[1] = m /\ s[2] = n
  BY <1>1, AppendProperties DEF S
<1>6. t \in Seq(S) /\ Len(t) = 2 /\ t[1] = m /\ t[2] = n
  BY <1>1
<1> HIDE DEF s, t
<1>7. s = t
  BY <1>5, <1>6, SeqEqual
<1> QED BY <1>1, <1>2, <1>4, <1>7 DEF s, t

\* Where a step of instance i leaves everything as it is.
Elsewhere(i) ==
  /\ UNCHANGED manager
  /\ DOMAIN req' = Instances /\ DOMAIN resp' = Instances
  /\ DOMAIN rpc' = Instances /\ DOMAIN lpc' = Instances
  /\ DOMAIN running' = Instances /\ DOMAIN awaited' = Instances
  /\ DOMAIN returned' = Instances /\ DOMAIN event' = Instances
  /\ \A j \in Instances \ {i} :
       /\ req'[j] = req[j] /\ resp'[j] = resp[j] /\ rpc'[j] = rpc[j] /\ lpc'[j] = lpc[j]
       /\ running'[j] = running[j] /\ awaited'[j] = awaited[j]
       /\ returned'[j] = returned[j] /\ event'[j] = event[j]

\* A step of one instance has to be looked at in that instance only.
LEMMA OneInstance ==
  ASSUME InstInv, NEW i \in Instances, Elsewhere(i), Loop(i)', Stage(i)'
  PROVE  InstInv'
<1>1. InstOK'
  BY DEF InstInv, InstOK, Elsewhere, manager
<1>2. ASSUME NEW j \in Instances \ {i} PROVE Loop(j)' /\ Stage(j)'
  <2>1. Loop(j) /\ Stage(j)
    BY DEF InstInv
  <2>2. /\ UNCHANGED <<mpc, offset, leaving>>
        /\ req'[j] = req[j] /\ resp'[j] = resp[j] /\ rpc'[j] = rpc[j] /\ lpc'[j] = lpc[j]
        /\ running'[j] = running[j] /\ awaited'[j] = awaited[j]
        /\ returned'[j] = returned[j] /\ event'[j] = event[j]
    BY DEF Elsewhere, manager
  <2>3. Loop(j)'
    BY <2>1, <2>2 DEF Loop
  <2>4. Stage(j)'
    <3>1. /\ Listens(j)' = Listens(j) /\ Given(j)' = Given(j) /\ Rest(j)' = Rest(j)
          /\ Empty(j)' = Empty(j) /\ Answered(j)' = Answered(j)
      BY <2>2 DEF Listens, Given, Rest, Empty, Answered
    <3>2. \A act : Asked(j, act)' = Asked(j, act)
      BY <2>2, <3>1 DEF Asked
    <3>3. \A where : Working(j, where)' = Working(j, where)
      BY <2>2 DEF Working
    <3>4. Talk(j)' = Talk(j)
      BY <2>2, <3>1, <3>2, <3>3 DEF Talk, Leaving
    <3> QED BY <2>1, <2>2, <3>1, <3>4 DEF Stage, InRollout, MeansGroups, Told, Gone, Leaving
  <2> QED BY <2>3, <2>4
<1> QED BY <1>1, <1>2 DEF InstInv

-----------------------------------------------------------------------------
(* Steps of rollout() *)

\* What rollout() does with its tasks is of no concern to the queues.
LEMMA StaysInRollout ==
  ASSUME InstInv, NEW i \in Instances, Elsewhere(i), InRollout(i),
         req'[i] = req[i], resp'[i] = resp[i], lpc'[i] = lpc[i],
         rpc'[i] \in {"wait", "work", "put", "notification"},
         MeansGroups(i) => MeansGroups(i)'
  PROVE  Stage(i)'
<1>1. mpc' = mpc /\ offset' = offset /\ leaving' = leaving /\ Leaving' = Leaving
  BY DEF Elsewhere, manager, Leaving
<1>2. Stage(i) /\ InRollout(i)' /\ rpc'[i] # "new"
  BY DEF InstInv, InRollout
<1>3. Rest(i) => Rest(i)'
  BY <1>2 DEF Rest, Given, Listens
<1>4. (Empty(i) => Empty(i)') /\ (Answered(i) => Answered(i)')
  BY DEF Listens, Empty, Answered
<1>5. ASSUME NEW act, Asked(i, act) PROVE Asked(i, act)'
  BY <1>2, <1>5 DEF Asked, Given, Listens
<1>6. ASSUME NEW where, Working(i, where) PROVE Working(i, where)'
  BY <1>6 DEF Working
<1>7. ASSUME Talk(i) PROVE Talk(i)'
  <2> USE <1>1, <1>2, <1>7 DEF Talk
  <2>1. mpc = "idle" => Rest(i)'
    BY <1>3
  <2>2. mpc = "report" => Asked(i, "report")' \/ Answered(i)'
    BY <1>4, <1>5
  <2>3. mpc \in {"reported", "in"} => Empty(i)'
    BY <1>4
  <2>4. mpc = "out" =>
          IF i \in Leaving
          THEN Asked(i, "migrate_out")' \/ Working(i, {"abort", "drain"})' \/ Answered(i)'
          ELSE Empty(i)'
    BY <1>4, <1>5, <1>6
  <2>5. mpc = "finish" => IF i \in Leaving THEN Asked(i, "finish")' \/ Working(i, {"finish"})'
                                          ELSE Rest(i)'
    BY <1>3, <1>5, <1>6
  <2> QED BY <2>1, <2>2, <2>3, <2>4, <2>5
<1>8. CASE i >= offset /\ InRollout(i) /\ MeansGroups(i) /\ Talk(i)
  BY <1>1, <1>2, <1>7, <1>8 DEF Stage
<1>9. CASE Told(i) /\ Empty(i)
  BY <1>1, <1>2, <1>4, <1>9 DEF Stage, Told
<1> QED BY <1>2, <1>8, <1>9 DEF Stage, Gone, InRollout

\* An instance starts with its share of the groups.
LEMMA StartStep ==
  ASSUME EverybodyHasWork, InstInv, NEW i \in Instances, Start(i) PROVE InstInv'
<1>1. /\ rpc[i] = "new" /\ running' = [running EXCEPT ![i] = @ \cup Share[i]]
      /\ rpc' = [rpc EXCEPT ![i] = "wait"] /\ awaited' = [awaited EXCEPT ![i] = Share[i]]
      /\ UNCHANGED <<manager, req, resp, lpc, returned, event>>
  BY DEF Start, EverybodyHasWork, LoopAgain
<1>2. Elsewhere(i)
  BY <1>1 DEF InstInv, InstOK, Elsewhere
<1>3. Loop(i)'
  BY <1>1 DEF InstInv, InstOK, Loop, EverybodyHasWork
<1>4. Stage(i)'
  <2>1. rpc'[i] = "wait"
    BY <1>1 DEF InstInv, InstOK
  <2> QED BY <1>1, <1>2, <2>1, StaysInRollout DEF InRollout, MeansGroups
<1> QED BY <1>2, <1>3, <1>4, OneInstance

\* Some of the tasks it waits for are done.
LEMMA WaitReturnsStep ==
  ASSUME InstInv, NEW i \in Instances, WaitReturns(i) PROVE InstInv'
<1> DEFINE done == {g \in awaited[i] : TaskDone(g)}
<1>1. /\ rpc[i] = "wait" /\ done # {} /\ rpc' = [rpc EXCEPT ![i] = "work"]
      /\ returned' = [returned EXCEPT ![i] = done] /\ awaited' = [awaited EXCEPT ![i] = {}]
      /\ UNCHANGED <<manager, req, resp, lpc, running, event>>
  BY DEF WaitReturns
<1>2. done \subseteq running[i]
  BY <1>1 DEF InstInv, Loop
<1> HIDE DEF done
<1>3. Elsewhere(i)
  BY <1>1 DEF InstInv, InstOK, Elsewhere
<1>4. Loop(i)'
  BY <1>1, <1>2 DEF InstInv, InstOK, Loop
<1>5. Stage(i)'
  <2>1. rpc'[i] = "work"
    BY <1>1 DEF InstInv, InstOK
  <2> QED BY <1>1, <1>3, <2>1, StaysInRollout DEF InRollout, MeansGroups
<1> QED BY <1>3, <1>4, <1>5, OneInstance

\* A group leaves rollout() while the others are still there to wait for.
LEMMA UnmarkStep ==
  ASSUME InstInv, NEW i \in Instances, rpc[i] \in {"work", "put"}, NEW g \in running[i],
         returned[i] \subseteq running[i], Unmark(i, g),
         UNCHANGED <<manager, req, resp, lpc, event>>
  PROVE  InstInv'
<1> DEFINE rest == returned[i] \ {g}
           still == running[i] \ {g}
<1>1. /\ running' = [running EXCEPT ![i] = still] /\ returned' = [returned EXCEPT ![i] = rest]
      /\ IF rest = {} THEN LoopAgain(i, still)
         ELSE /\ rpc' = [rpc EXCEPT ![i] = "work"]
              /\ awaited' = [awaited EXCEPT ![i] = {}]
  BY DEF Unmark
<1>2. rest \subseteq still
  OBVIOUS
<1> HIDE DEF rest, still
<1>3. Elsewhere(i)
  BY <1>1 DEF InstInv, InstOK, Elsewhere, LoopAgain
<1>4. Loop(i)'
  BY <1>1, <1>2 DEF InstInv, InstOK, Loop, LoopAgain
<1>5. Stage(i)'
  <2>1. rpc'[i] \in {"wait", "work", "notification"}
    BY <1>1 DEF InstInv, InstOK, LoopAgain
  <2> QED BY <1>3, <2>1, StaysInRollout DEF InRollout, MeansGroups
<1> QED BY <1>3, <1>4, <1>5, OneInstance

\* A result is put while its group still counts as running.
LEMMA PutResultStep ==
  ASSUME InstInv, NEW i \in Instances, NEW g, PutResult(i, g) PROVE InstInv'
<1>1. /\ rpc[i] = "work" /\ g \in returned[i] /\ rpc' = [rpc EXCEPT ![i] = "put"]
      /\ returned' = [returned EXCEPT ![i] = @ \ {g}]
      /\ awaited' = [awaited EXCEPT ![i] = {g}]
      /\ UNCHANGED <<manager, req, resp, lpc, running, event>>
  BY DEF PutResult
<1>2. Elsewhere(i)
  BY <1>1 DEF InstInv, InstOK, Elsewhere
<1>3. Loop(i)'
  BY <1>1 DEF InstInv, InstOK, Loop
<1>4. Stage(i)'
  <2>1. rpc'[i] = "put"
    BY <1>1 DEF InstInv, InstOK
  <2> QED BY <1>1, <1>2, <2>1, StaysInRollout DEF InRollout, MeansGroups
<1> QED BY <1>2, <1>3, <1>4, OneInstance

\* The put has returned, or a group was aborted.
LEMMA MarkStep ==
  ASSUME InstInv, NEW i \in Instances, MarkDone(i) \/ \E g : MarkAborted(i, g)
  PROVE  InstInv'
<1>1. CASE MarkDone(i)
  <2>1. PICK g \in awaited[i] : Unmark(i, g)
    BY <1>1 DEF MarkDone
  <2>2. rpc[i] = "put" /\ g \in running[i] /\ returned[i] \subseteq running[i]
    BY <1>1, <2>1 DEF MarkDone, InstInv, Loop
  <2> QED BY <1>1, <2>1, <2>2, UnmarkStep DEF MarkDone
<1>2. CASE \E g : MarkAborted(i, g)
  <2>1. PICK g : MarkAborted(i, g)
    BY <1>2
  <2>2. rpc[i] = "work" /\ g \in running[i] /\ returned[i] \subseteq running[i]
    BY <2>1 DEF MarkAborted, InstInv, Loop
  <2> QED BY <2>1, <2>2, UnmarkStep DEF MarkAborted
<1> QED BY <1>1, <1>2

\* rollout() leaves when it was told to: an event without running groups means
\* that.
LEMMA LeavesTold ==
  ASSUME InstInv, NEW i \in Instances, rpc[i] = "notification", event[i], running[i] = {}
  PROVE  Told(i) /\ Empty(i)
BY DEF InstInv, Stage, Gone, MeansGroups, InRollout

\* wait_notification returns.
LEMMA NotifiedStep ==
  ASSUME InstInv, NEW i \in Instances, Notified(i) PROVE InstInv'
<1>1. CASE running[i] = {}
  <2>1. /\ rpc[i] = "notification" /\ event[i] /\ rpc' = [rpc EXCEPT ![i] = "offload"]
        /\ running' = [running EXCEPT ![i] = {}] /\ event' = [event EXCEPT ![i] = FALSE]
        /\ awaited' = [awaited EXCEPT ![i] = {}]
        /\ UNCHANGED <<manager, req, resp, lpc, returned>>
    BY <1>1 DEF Notified, Leave
  <2>2. Elsewhere(i)
    BY <2>1 DEF InstInv, InstOK, Elsewhere
  <2>3. Loop(i)'
    BY <2>1 DEF InstInv, InstOK, Loop
  <2>4. Told(i) /\ Empty(i)
    BY <1>1, <2>1, LeavesTold
  <2>5. Stage(i)'
    BY <2>1, <2>4 DEF Stage, Told, Empty, Listens, Leaving, manager, InstInv, InstOK
  <2> QED BY <2>2, <2>3, <2>5, OneInstance
<1>2. CASE running[i] # {}
  <2>1. /\ rpc[i] = "notification" /\ event' = [event EXCEPT ![i] = FALSE]
        /\ rpc' = [rpc EXCEPT ![i] = "wait"]
        /\ awaited' = [awaited EXCEPT ![i] = running[i]]
        /\ UNCHANGED <<manager, req, resp, lpc, running, returned>>
    BY <1>2 DEF Notified, LoopAgain
  <2>2. Elsewhere(i)
    BY <2>1 DEF InstInv, InstOK, Elsewhere
  <2>3. Loop(i)'
    BY <1>2, <2>1 DEF InstInv, InstOK, Loop
  <2>4. Stage(i)'
    <3>1. rpc'[i] = "wait" /\ ~event'[i]
      BY <2>1 DEF InstInv, InstOK
    <3> QED BY <2>1, <2>2, <3>1, StaysInRollout DEF InRollout, MeansGroups
  <2> QED BY <2>2, <2>3, <2>4, OneInstance
<1> QED BY <1>1, <1>2

\* The engine is offloaded, and the manager is told.
LEMMA OffloadStep ==
  ASSUME InstInv, NEW i \in Instances, Offload(i) PROVE InstInv'
<1> DEFINE m == [act |-> "offloaded"]
<1>1. /\ rpc[i] = "offload" /\ rpc' = [rpc EXCEPT ![i] = "over"]
      /\ resp' = [resp EXCEPT ![i] = Append(resp[i], m)]
      /\ UNCHANGED <<manager, req, lpc, running, awaited, returned, event>>
  BY DEF Offload, status
<1> HIDE DEF m
<1>2. Told(i) /\ Empty(i) /\ ~event[i]
  BY <1>1 DEF InstInv, Stage, Gone, InRollout
<1>3. Elsewhere(i)
  BY <1>1 DEF InstInv, InstOK, Elsewhere
<1>4. Loop(i)'
  BY <1>1 DEF InstInv, InstOK, Loop
<1>5. resp'[i] = <<m>>
  BY <1>1, <1>2, One DEF InstInv, InstOK, Empty, Listens
<1>6. Stage(i)'
  <2>1. Answered(i)'
    BY <1>1, <1>2, <1>5, One DEF Answered, Empty, Listens
  <2>2. Told(i)' /\ Gone(i)'
    BY <1>1, <1>2 DEF Told, Gone, Leaving, manager, InstInv, InstOK
  <2> QED BY <2>1, <2>2 DEF Stage
<1> QED BY <1>3, <1>4, <1>6, OneInstance

-----------------------------------------------------------------------------
(* Steps of main_loop() *)

Kind == {"report", "migrate_out", "finish"}

\* The manager waits for the answer to a request.
Awaits(i, act) ==
  \/ act = "report" /\ mpc = "report"
  \/ act = "migrate_out" /\ mpc = "out" /\ i \in Leaving
  \/ act = "finish" /\ mpc = "finish" /\ i \in Leaving

\* What the queue of an instance can begin with.
LEMMA FirstRequest ==
  ASSUME InstInv, NEW i \in Instances, lpc[i] = "get", req[i] # <<>>
  PROVE  /\ i >= offset /\ InRollout(i) /\ MeansGroups(i) /\ Talk(i) /\ resp[i] = <<>>
         /\ \/ /\ req[i] = <<req[i][1]>> /\ Given(i)
               /\ mpc = "idle" \/ (mpc = "finish" /\ i \notin Leaving)
            \/ \E act \in Kind : Asked(i, act) /\ Awaits(i, act)
<1>1. Stage(i) /\ i \in Int /\ offset \in Int
  BY DEF InstInv, InstOK, Instances
<1>2. i >= offset /\ InRollout(i) /\ MeansGroups(i) /\ Talk(i)
  BY <1>1 DEF Stage, Empty, Answered
<1>3. mpc \in {"idle", "report", "reported", "out", "in", "finish"}
  BY <1>2, MigrationAssumption DEF InstInv, InstOK, Instances
<1>4. Rest(i) => req[i] = <<req[i][1]>> /\ Given(i) /\ resp[i] = <<>>
  BY DEF Rest, Listens
<1>5. ~Empty(i) /\ ~Answered(i) /\ ~Working(i, {"abort", "drain"}) /\ ~Working(i, {"finish"})
  BY DEF Empty, Answered, Working
<1>6. \A act : Asked(i, act) => resp[i] = <<>>
  BY DEF Asked, Listens
<1>7. \/ Rest(i) /\ (mpc = "idle" \/ (mpc = "finish" /\ i \notin Leaving))
      \/ \E act \in Kind : Asked(i, act) /\ Awaits(i, act)
  BY <1>2, <1>3, <1>5 DEF Talk, Kind, Awaits
<1> QED BY <1>2, <1>4, <1>6, <1>7

\* A request that is not for migrated groups is the only one.
LEMMA OneRequest ==
  ASSUME InstInv, NEW i \in Instances, NEW act \in Kind, NEW next, Handle(i, act, next)
  PROVE  /\ i >= offset /\ InRollout(i) /\ MeansGroups(i) /\ Talk(i) /\ Awaits(i, act)
         /\ resp[i] = <<>> /\ lpc[i] = "get"
         /\ req' = [req EXCEPT ![i] = <<>>] /\ lpc' = [lpc EXCEPT ![i] = next]
<1>1. /\ lpc[i] = "get" /\ req[i] # <<>> /\ Head(req[i]).act = act
      /\ req' = [req EXCEPT ![i] = Tail(req[i])] /\ lpc' = [lpc EXCEPT ![i] = next]
  BY DEF Handle
<1>2. act # "migrate_in"
  BY DEF Kind
<1>3. ~(req[i] = <<req[i][1]>> /\ Given(i))
  BY <1>1, <1>2, One DEF Given
<1>4. PICK a \in Kind : Asked(i, a) /\ Awaits(i, a)
  BY <1>1, <1>3, FirstRequest
<1>5. ~(req[i] = <<req[i][1], req[i][2]>> /\ Given(i))
  BY <1>1, <1>2, Two DEF Given
<1>6. req[i] = <<req[i][1]>> /\ req[i][1].act = a
  BY <1>4, <1>5 DEF Asked
<1>7. Tail(req[i]) = <<>> /\ act = a
  BY <1>1, <1>6, One
<1> QED BY <1>1, <1>4, <1>7, FirstRequest

\* What main_loop does after the await within a handler.
LEMMA InHandler ==
  ASSUME InstInv, NEW i \in Instances, lpc[i] # "get"
  PROVE  /\ i >= offset /\ InRollout(i) /\ MeansGroups(i) /\ Talk(i) /\ i \in Leaving
         /\ req[i] = <<>> /\ resp[i] = <<>>
         /\ \/ mpc = "out" /\ lpc[i] \in {"abort", "drain"}
            \/ mpc = "finish" /\ lpc[i] = "finish"
<1>1. Stage(i) /\ i \in Int /\ offset \in Int
  BY DEF InstInv, InstOK, Instances
<1>2. i >= offset /\ InRollout(i) /\ MeansGroups(i) /\ Talk(i)
  BY <1>1 DEF Stage, Empty, Answered, Listens
<1>3. mpc \in {"idle", "report", "reported", "out", "in", "finish"}
  BY <1>2, MigrationAssumption DEF InstInv, InstOK, Instances
<1>4. ~Empty(i) /\ ~Answered(i) /\ ~Rest(i) /\ \A act : ~Asked(i, act)
  BY DEF Empty, Answered, Rest, Asked, Listens
<1> QED BY <1>2, <1>3, <1>4 DEF Talk, Working

\* The next step of the conversation, while rollout() goes on.
LEMMA NextTalk ==
  ASSUME InstInv, NEW i \in Instances, Elsewhere(i), i >= offset, InRollout(i),
         rpc' = rpc, MeansGroups(i)', Talk(i)'
  PROVE  Stage(i)'
BY DEF Stage, InRollout, Elsewhere, manager

\* Nothing of rollout() has changed.
LEMMA SameLoop ==
  ASSUME InstInv, NEW i \in Instances,
         UNCHANGED <<rpc, running, awaited, returned, event>>
  PROVE  Loop(i)' /\ (MeansGroups(i) => MeansGroups(i)')
BY DEF InstInv, Loop, MeansGroups

\* A report is the answer the manager waits for.
LEMMA ReportStep == ASSUME InstInv, NEW i \in Instances, Report(i) PROVE InstInv'
<1> DEFINE m == [act |-> "report", running |-> NumSeqRunning(i)]
<1>1. /\ Handle(i, "report", "get") /\ resp' = [resp EXCEPT ![i] = Append(resp[i], m)]
      /\ UNCHANGED <<manager, rpc, running, awaited, returned, event>>
  BY DEF Report, status
<1> HIDE DEF m
<1>2. /\ i >= offset /\ InRollout(i) /\ MeansGroups(i) /\ Awaits(i, "report")
      /\ resp[i] = <<>> /\ lpc[i] = "get"
      /\ req' = [req EXCEPT ![i] = <<>>] /\ lpc' = [lpc EXCEPT ![i] = "get"]
  BY <1>1, OneRequest DEF Kind
<1>3. Elsewhere(i)
  BY <1>1, <1>2 DEF InstInv, InstOK, Elsewhere
<1>4. resp'[i] = <<m>>
  BY <1>1, <1>2, One DEF InstInv, InstOK
<1>5. Answered(i)'
  BY <1>2, <1>4, One DEF InstInv, InstOK, Answered
<1>6. Talk(i)'
  BY <1>1, <1>2, <1>5 DEF Talk, Awaits, manager
<1> QED BY <1>1, <1>2, <1>3, <1>6, SameLoop, NextTalk, OneInstance

\* A request whose handler awaits something.
LEMMA HandlerStep ==
  ASSUME InstInv, NEW i \in Instances, HandleMigrateOut(i) \/ HandleFinish(i)
  PROVE  InstInv'
<1>1. UNCHANGED <<manager, resp, rpc, running, awaited, returned, event>>
  BY DEF HandleMigrateOut, HandleFinish, status
<1>2. PICK act \in Kind, next \in {"abort", "finish"} :
        /\ Handle(i, act, next)
        /\ (act = "migrate_out" /\ next = "abort") \/ (act = "finish" /\ next = "finish")
  BY DEF HandleMigrateOut, HandleFinish, Kind
<1>3. /\ i >= offset /\ InRollout(i) /\ MeansGroups(i) /\ Talk(i) /\ Awaits(i, act)
      /\ resp[i] = <<>> /\ lpc[i] = "get"
      /\ req' = [req EXCEPT ![i] = <<>>] /\ lpc' = [lpc EXCEPT ![i] = next]
  BY <1>2, OneRequest
<1>4. Elsewhere(i)
  BY <1>1, <1>3 DEF InstInv, InstOK, Elsewhere
<1>5. Working(i, {"abort", "drain"})' \/ (act = "finish" /\ Working(i, {"finish"})')
  BY <1>1, <1>2, <1>3 DEF InstInv, InstOK, Working
<1>6. Talk(i)'
  BY <1>1, <1>2, <1>3, <1>5 DEF Talk, Awaits, manager, Leaving, Working, InstInv, InstOK
<1> QED BY <1>1, <1>3, <1>4, <1>6, SameLoop, NextTalk, OneInstance

\* The sequences are told to return; then their groups have.
LEMMA AbortStep ==
  ASSUME InstInv, NEW i \in Instances, Abort(i) PROVE InstInv'
<1>1. /\ lpc[i] = "abort" /\ lpc' = [lpc EXCEPT ![i] = "drain"]
      /\ UNCHANGED <<manager, req, resp, rpc, running, awaited, returned, event>>
  BY DEF Abort, status
<1>2. /\ i >= offset /\ InRollout(i) /\ MeansGroups(i) /\ Talk(i) /\ i \in Leaving
      /\ req[i] = <<>> /\ resp[i] = <<>> /\ mpc = "out"
  BY <1>1, InHandler
<1>3. Elsewhere(i)
  BY <1>1 DEF InstInv, InstOK, Elsewhere
<1>4. Working(i, {"abort", "drain"})'
  BY <1>1, <1>2 DEF InstInv, InstOK, Working
<1>5. Talk(i)'
  BY <1>1, <1>2, <1>4 DEF Talk, Leaving, manager
<1> QED BY <1>1, <1>2, <1>3, <1>5, SameLoop, NextTalk, OneInstance

\* The answer to Migrate_Out.
LEMMA SendAbortedStep ==
  ASSUME InstInv, NEW i \in Instances, SendAborted(i) PROVE InstInv'
<1> DEFINE m == [act |-> "aborted", groups |-> aborted[i]]
<1>1. /\ lpc[i] = "drain" /\ lpc' = [lpc EXCEPT ![i] = "get"]
      /\ resp' = [resp EXCEPT ![i] = Append(resp[i], m)]
      /\ UNCHANGED <<manager, req, rpc, running, awaited, returned, event>>
  BY DEF SendAborted, status
<1> HIDE DEF m
<1>2. /\ i >= offset /\ InRollout(i) /\ MeansGroups(i) /\ Talk(i) /\ i \in Leaving
      /\ req[i] = <<>> /\ resp[i] = <<>> /\ mpc = "out"
  BY <1>1, InHandler
<1>3. Elsewhere(i)
  BY <1>1 DEF InstInv, InstOK, Elsewhere
<1>4. resp'[i] = <<m>>
  BY <1>1, <1>2, One DEF InstInv, InstOK
<1>5. Answered(i)'
  BY <1>1, <1>2, <1>4, One DEF InstInv, InstOK, Answered
<1>6. Talk(i)'
  BY <1>1, <1>2, <1>5 DEF Talk, Leaving, manager
<1> QED BY <1>1, <1>2, <1>3, <1>6, SameLoop, NextTalk, OneInstance

\* From here on the event means that rollout() may go.
LEMMA NotifyFinishStep ==
  ASSUME InstInv, NEW i \in Instances, NotifyFinish(i) PROVE InstInv'
<1>1. /\ lpc[i] = "finish" /\ lpc' = [lpc EXCEPT ![i] = "get"]
      /\ event' = [event EXCEPT ![i] = TRUE]
      /\ UNCHANGED <<manager, req, resp, rpc, running, awaited, returned>>
  BY DEF NotifyFinish
<1>2. /\ InRollout(i) /\ i \in Leaving /\ req[i] = <<>> /\ resp[i] = <<>> /\ mpc = "finish"
  BY <1>1, InHandler
<1>3. Elsewhere(i)
  BY <1>1 DEF InstInv, InstOK, Elsewhere
<1>4. Loop(i)'
  BY <1>1 DEF InstInv, InstOK, Loop
<1>5. Told(i)' /\ Empty(i)' /\ InRollout(i)'
  BY <1>1, <1>2 DEF InstInv, InstOK, Told, Leaving, Empty, Listens, InRollout, manager
<1> QED BY <1>3, <1>4, <1>5, OneInstance DEF Stage

\* Migrated groups come to an instance that works, or waits to be notified.
LEMMA MigrateInStep ==
  ASSUME InstInv, NEW i \in Instances, HandleMigrateIn(i) PROVE InstInv'
<1> DEFINE gs == ToSet(Head(req[i]).groups)
<1>1. /\ lpc[i] = "get" /\ req[i] # <<>> /\ Head(req[i]).act = "migrate_in"
      /\ req' = [req EXCEPT ![i] = Tail(req[i])] /\ lpc' = [lpc EXCEPT ![i] = "get"]
      /\ event' = [event EXCEPT ![i] = event[i] \/ running[i] = {}]
      /\ running' = [running EXCEPT ![i] = running[i] \cup gs]
      /\ UNCHANGED <<manager, resp, rpc, awaited, returned>>
  BY DEF HandleMigrateIn, Handle, NotifiesIn
<1>2. /\ i >= offset /\ InRollout(i) /\ MeansGroups(i) /\ Talk(i) /\ resp[i] = <<>>
  BY <1>1, FirstRequest
<1>3. ASSUME /\ req[i] = <<req[i][1]>> /\ Given(i)
             /\ mpc = "idle" \/ (mpc = "finish" /\ i \notin Leaving)
      PROVE  gs # {} /\ rpc[i] # "new" /\ Talk(i)'
  <2>1. Head(req[i]) = req[i][1] /\ Tail(req[i]) = <<>>
    BY <1>3, One
  <2>2. gs # {} /\ rpc[i] # "new"
    BY <1>3, <2>1 DEF Given
  <2>3. Empty(i)'
    BY <1>1, <1>2, <2>1 DEF InstInv, InstOK, Empty, Listens
  <2>4. Talk(i)'
    BY <1>1, <1>3, <2>3 DEF Talk, Rest, Empty, Leaving, manager
  <2> QED BY <2>2, <2>4
<1>4. ASSUME NEW act \in Kind, Asked(i, act), Awaits(i, act)
      PROVE  gs # {} /\ rpc[i] # "new" /\ Talk(i)'
  <2>1. Awaits(i, act)
    BY <1>4
  <2>2. req[i] = <<req[i][1], req[i][2]>> /\ Given(i) /\ req[i][2].act = act
    BY <1>1, <1>4, One DEF Asked, Kind
  <2> DEFINE first == req[i][1]
             m == req[i][2]
  <2> HIDE DEF first, m
  <2>3. Head(req[i]) = first /\ Tail(req[i]) = <<m>>
    <3>1. req[i] = <<first, m>>
      BY <2>2 DEF first, m
    <3> QED BY <3>1, Two
  <2>4. gs # {} /\ rpc[i] # "new"
    BY <2>2, <2>3 DEF Given, first
  <2>5. req'[i] = <<m>>
    BY <1>1, <2>3 DEF InstInv, InstOK
  <2>6. req'[i] = <<req'[i][1]>> /\ req'[i][1].act = act
    BY <2>2, <2>5, One DEF m
  <2>7. Asked(i, act)'
    BY <1>1, <1>2, <2>6 DEF InstInv, InstOK, Asked, Listens
  <2>8. Talk(i)'
    BY <1>1, <1>2, <2>1, <2>4, <2>7 DEF Talk, Awaits, Leaving, manager
  <2> QED BY <2>4, <2>8
<1>5. gs # {} /\ rpc[i] # "new" /\ Talk(i)'
  BY <1>1, <1>3, <1>4, FirstRequest
<1> HIDE DEF gs
<1>6. Elsewhere(i)
  BY <1>1 DEF InstInv, InstOK, Elsewhere
<1>7. running[i] = {} => rpc[i] = "notification"
  BY <1>2, <1>5 DEF InstInv, Loop, InRollout
<1>8. Loop(i)'
  BY <1>1, <1>5 DEF InstInv, InstOK, Loop
<1>9. MeansGroups(i)'
  BY <1>1, <1>2, <1>5, <1>7 DEF InstInv, InstOK, MeansGroups
<1> QED BY <1>1, <1>2, <1>5, <1>6, <1>8, <1>9, NextTalk, OneInstance

\* Tasks of groups touch neither loop.
LEMMA TaskStep ==
  ASSUME InstInv, NEW g, Task(g) \/ UNCHANGED vars PROVE InstInv'
<1>1. UNCHANGED <<mpc, offset, leaving, req, resp, rpc, lpc, running, awaited, returned, event>>
  BY DEF Task, SequenceDone, BeginTask, vars, manager, loops, status
<1>2. \A i \in Instances : Elsewhere(i)
  BY DEF Elsewhere, InstInv, InstOK, Task, SequenceDone, BeginTask, vars, manager, loops, status
<1> QED BY <1>1 DEF InstInv, InstOK, Loop, Stage, Talk, Rest, Asked, Given, Listens, Empty,
                    Working, Answered, InRollout, MeansGroups, Told, Gone, Leaving

-----------------------------------------------------------------------------
(* Steps of the manager *)

\* What no step of the manager but NextGlobalStep touches.
Untouched == UNCHANGED <<rpc, lpc, running, awaited, returned, event>>

\* Then only the conversations have to be looked at.
LEMMA ManagerOnly ==
  ASSUME InstInv, Untouched, InstOK', \A i \in Instances : Stage(i)' PROVE InstInv'
BY DEF InstInv, Untouched, Loop

\* An instance that has left stays out of it.
LEMMA StaysGone ==
  ASSUME InstInv, Untouched, NEW i \in Instances, i < offset, i < offset',
         req'[i] = req[i], resp'[i] = resp[i]
  PROVE  Stage(i)'
<1>1. i < offset /\ ~(i >= offset)
  BY DEF InstInv, InstOK, Instances
<1>2. Empty(i) /\ Gone(i)
  BY <1>1 DEF InstInv, Stage, Told, Leaving, InstOK, Instances
<1> QED BY <1>2 DEF Stage, Empty, Listens, Gone, Untouched

\* The stage of an instance before the manager tells it to finish.
LEMMA BeforeFinish ==
  ASSUME InstInv, NEW i \in Instances, i >= offset, ~Told(i)
  PROVE  InRollout(i) /\ MeansGroups(i) /\ Talk(i)
BY DEF InstInv, InstOK, Instances, Stage

\* A request is put behind migrated groups that may be there.
LEMMA AskedNext ==
  ASSUME NEW i, Rest(i), NEW m, NEW act, m.act = act, req'[i] = Append(req[i], m),
         resp'[i] = resp[i], lpc'[i] = lpc[i], rpc'[i] = rpc[i]
  PROVE  Asked(i, act)'
<1>1. Listens(i)'
  BY DEF Rest, Listens
<1>2. CASE req[i] = <<>>
  <2>1. req'[i] = <<m>> /\ <<m>>[1] = m
    BY <1>2, One
  <2> QED BY <1>1, <2>1 DEF Asked
<1>3. CASE req[i] = <<req[i][1]>> /\ Given(i)
  <2> DEFINE first == req[i][1]
  <2>1. req[i] = <<first>> /\ Given(i) /\ first = req[i][1]
    BY <1>3
  <2> HIDE DEF first
  <2>2. req'[i] = <<first, m>>
    <3>1. req'[i] = Append(<<first>>, m)
      BY <2>1, Zenon
    <3>2. Append(<<first>>, m) = <<first, m>>
      BY Two, Zenon
    <3> QED BY <3>1, <3>2, Zenon
  <2>3. req'[i][1] = first /\ req'[i][2] = m
    BY <2>2, Two
  <2>4. Given(i)'
    BY <2>1, <2>3 DEF Given
  <2>5. req'[i] = <<req'[i][1], req'[i][2]>>
    BY <2>2, <2>3
  <2> QED BY <1>1, <2>3, <2>4, <2>5 DEF Asked
<1> QED BY <1>2, <1>3 DEF Rest

\* A report is asked for behind the groups that may be on their way.
LEMMA AskReportsStep == ASSUME InstInv, AskReports PROVE InstInv'
<1>1. /\ mpc \in {"idle", "reported"} /\ mpc' = "report" /\ Untouched
      /\ UNCHANGED <<offset, leaving, resp>>
      /\ req' = [i \in Instances |-> IF i \in Alive THEN Append(req[i], ReportRequest[i])
                                                  ELSE req[i]]
  BY DEF AskReports, Scatter, Untouched, loops, status
<1>2. InstOK'
  BY <1>1 DEF InstInv, InstOK, Untouched
<1>3. ASSUME NEW i \in Instances, i < offset PROVE Stage(i)'
  BY <1>1, <1>3, StaysGone DEF Alive, InstInv, InstOK, Instances
<1>4. ASSUME NEW i \in Instances, i >= offset PROVE Stage(i)'
  <2>1. InRollout(i) /\ MeansGroups(i) /\ Rest(i)
    BY <1>1, <1>4, BeforeFinish DEF Told, Talk, Empty, Rest
  <2>2. i \in Alive
    BY <1>4 DEF Alive, Instances, InstInv, InstOK
  <2>3. ReportRequest[i].act = "report"
    BY DEF ReportRequest
  <2> DEFINE m == ReportRequest[i]
  <2>4. req'[i] = Append(req[i], m) /\ m.act = "report"
    BY <1>1, <2>2, <2>3
  <2> HIDE DEF m
  <2>5. Asked(i, "report")'
    BY <1>1, <2>1, <2>4, AskedNext DEF Untouched
  <2>6. Talk(i)'
    BY <1>1, <2>5 DEF Talk
  <2> QED BY <1>1, <1>4, <2>1, <2>6 DEF Stage, InRollout, MeansGroups, Untouched
<1> QED BY <1>1, <1>2, <1>3, <1>4, ManagerOnly DEF Instances, InstInv, InstOK

\* Every report has come.
LEMMA GatherReportsStep == ASSUME InstInv, GatherReports PROVE InstInv'
<1>1. /\ mpc = "report" /\ mpc' = "reported" /\ Untouched
      /\ UNCHANGED <<offset, leaving, req>> /\ \A i \in Alive : resp[i] # <<>>
      /\ resp' = [i \in Instances |-> IF i \in Alive THEN Tail(resp[i]) ELSE resp[i]]
  BY DEF GatherReports, CanGather, Gather, Untouched, loops, status
<1>2. InstOK'
  BY <1>1 DEF InstInv, InstOK, Untouched
<1>3. ASSUME NEW i \in Instances, i < offset PROVE Stage(i)'
  BY <1>1, <1>3, StaysGone DEF Alive, InstInv, InstOK, Instances
<1>4. ASSUME NEW i \in Instances, i >= offset PROVE Stage(i)'
  <2>1. i \in Alive
    BY <1>4 DEF Alive, Instances, InstInv, InstOK
  <2>2. InRollout(i) /\ MeansGroups(i) /\ Answered(i)
    BY <1>1, <1>4, <2>1, BeforeFinish DEF Told, Talk, Asked, Listens
  <2>3. Empty(i)'
    BY <1>1, <2>1, <2>2, One DEF Answered, Empty, Listens, Untouched
  <2> QED BY <1>1, <1>4, <2>2, <2>3 DEF Stage, Talk, InRollout, MeansGroups, Untouched
<1> QED BY <1>1, <1>2, <1>3, <1>4, ManagerOnly DEF Instances, InstInv, InstOK

\* How many instances are alive.
LEMMA AliveCount == ASSUME InstInv PROVE Cardinality(Alive) = N - offset
<1>1. N \in Int /\ offset \in Int /\ offset <= N
  BY MigrationAssumption DEF InstInv, InstOK
<1>2. Cardinality(offset .. N - 1) = IF offset > N - 1 THEN 0 ELSE (N - 1) - offset + 1
  BY <1>1, FS_Interval
<1> QED BY <1>1, <1>2 DEF Alive

\* Some of the instances, which have all begun, are told to migrate out.
LEMMA MigrateStep == ASSUME InstInv, NEW n \in 1 .. N, Migrate(n) PROVE InstInv'
<1>1. /\ mpc = "reported" /\ mpc' = "out" /\ leaving' = n /\ Untouched
      /\ UNCHANGED <<offset, resp>> /\ \A i \in Alive : rpc[i] # "new"
      /\ req' = [i \in Instances |-> IF i \in offset .. offset + n - 1
                                    THEN Append(req[i], OutRequest[i]) ELSE req[i]]
  BY DEF Migrate, Scatter, Untouched, loops, status
<1>2. n < N - offset
  BY AliveCount DEF Migrate
<1>3. InstOK'
  BY <1>1, <1>2, MigrationAssumption DEF InstInv, InstOK, Untouched
<1>4. ASSUME NEW i \in Instances, i < offset PROVE Stage(i)'
  BY <1>1, <1>4, StaysGone DEF InstInv, InstOK, Instances
<1>5. ASSUME NEW i \in Instances, i >= offset PROVE Stage(i)'
  <2>1. InRollout(i) /\ MeansGroups(i) /\ Empty(i) /\ Rest(i)
    BY <1>1, <1>5, BeforeFinish DEF Told, Talk, Empty, Rest
  <2>2. rpc'[i] # "new"
    BY <1>1, <1>5 DEF Alive, Instances, InstInv, InstOK, Untouched
  <2>3. Leaving' = offset .. offset + n - 1
    BY <1>1 DEF Leaving
  <2>4. CASE i \in Leaving'
    <3> DEFINE m == OutRequest[i]
    <3>1. req'[i] = Append(req[i], m) /\ m.act = "migrate_out"
      BY <1>1, <2>3, <2>4 DEF OutRequest
    <3> HIDE DEF m
    <3>2. Asked(i, "migrate_out")'
      BY <1>1, <2>1, <3>1, AskedNext DEF Untouched
    <3>3. Talk(i)'
      BY <1>1, <2>2, <2>4, <3>2 DEF Talk
    <3> QED BY <1>1, <1>5, <2>1, <3>3 DEF Stage, InRollout, MeansGroups, Untouched
  <2>5. CASE i \notin Leaving'
    <3>1. Empty(i)'
      BY <1>1, <2>1, <2>3, <2>5 DEF Empty, Listens, Untouched
    <3>2. Talk(i)'
      BY <1>1, <2>2, <2>5, <3>1 DEF Talk
    <3> QED BY <1>1, <1>5, <2>1, <3>2 DEF Stage, InRollout, MeansGroups, Untouched
  <2> QED BY <2>4, <2>5
<1> QED BY <1>1, <1>3, <1>4, <1>5, ManagerOnly DEF Instances, InstInv, InstOK

\* Every answer to Migrate_Out has come.
LEMMA GatherOutStep == ASSUME InstInv, GatherOut PROVE InstInv'
<1>1. /\ mpc = "out" /\ mpc' = "in" /\ Untouched
      /\ UNCHANGED <<offset, leaving, req>> /\ \A i \in Leaving : resp[i] # <<>>
      /\ resp' = [i \in Instances |-> IF i \in Leaving THEN Tail(resp[i]) ELSE resp[i]]
  BY DEF GatherOut, CanGather, Gather, Untouched, loops, status
<1>2. InstOK'
  BY <1>1 DEF InstInv, InstOK, Untouched
<1>3. ASSUME NEW i \in Instances, i < offset PROVE Stage(i)'
  BY <1>1, <1>3, StaysGone DEF Leaving, InstInv, InstOK, Instances
<1>4. ASSUME NEW i \in Instances, i >= offset PROVE Stage(i)'
  <2>1. InRollout(i) /\ MeansGroups(i) /\ Talk(i) /\ rpc[i] # "new"
    BY <1>1, <1>4, BeforeFinish DEF Told, Talk
  <2>2. Empty(i)'
    <3>1. CASE i \in Leaving
      <4>1. Answered(i)
        BY <1>1, <2>1, <3>1 DEF Talk, Asked, Working, Listens
      <4> QED BY <1>1, <3>1, <4>1, One DEF Answered, Empty, Listens, Untouched
    <3>2. CASE i \notin Leaving
      BY <1>1, <2>1, <3>2 DEF Talk, Empty, Listens, Untouched
    <3> QED BY <3>1, <3>2
  <2> QED BY <1>1, <1>4, <2>1, <2>2 DEF Stage, Talk, InRollout, MeansGroups, Untouched
<1> QED BY <1>1, <1>2, <1>3, <1>4, ManagerOnly DEF Instances, InstInv, InstOK

\* Groups to some instances that stay, and Finish to those that go.
LEMMA MigrateInStepOfManager == ASSUME InstInv, MigrateIn PROVE InstInv'
<1>1. /\ mpc = "in" /\ mpc' = "finish" /\ Untouched /\ UNCHANGED <<offset, leaving, resp>>
      /\ \E sent \in SUBSET Staying : \E m :
           /\ \A i \in sent : m[i].act = "migrate_in" /\ ToSet(m[i].groups) # {}
           /\ \A i \in Leaving : m[i].act = "finish"
           /\ req' = [i \in Instances |-> IF i \in sent \cup Leaving
                                         THEN Append(req[i], m[i]) ELSE req[i]]
  <2> DEFINE lists == Assign(moving)
             for(i) == i - offset - leaving + 1
             sent == {i \in Staying : for(i) <= Len(lists) /\ ToSet(lists[for(i)]) # {}}
             m == [i \in sent \cup Leaving |->
                    IF i \in Leaving THEN FinishRequest[i]
                    ELSE [act |-> "migrate_in", groups |-> lists[for(i)]]]
  <2> HIDE DEF lists, for
  <2>1. \A i \in sent : i \notin Leaving
    BY DEF Staying, Leaving, InstInv, InstOK
  <2>2. \A i \in sent : m[i].act = "migrate_in" /\ ToSet(m[i].groups) # {}
    BY <2>1
  <2>3. \A i \in Leaving : m[i].act = "finish"
    BY MigrationAssumption DEF FinishRequest, Leaving, InstInv, InstOK, Instances
  <2>4. /\ mpc = "in" /\ mpc' = "finish" /\ Untouched /\ UNCHANGED <<offset, leaving, resp>>
        /\ req' = [i \in Instances |-> IF i \in sent \cup Leaving
                                      THEN Append(req[i], m[i]) ELSE req[i]]
    BY DEF MigrateIn, Scatter, Untouched, loops, status, lists, for
  <2> HIDE DEF m
  <2> QED BY <2>2, <2>3, <2>4
<1>2. PICK sent \in SUBSET Staying : \E m :
           /\ \A i \in sent : m[i].act = "migrate_in" /\ ToSet(m[i].groups) # {}
           /\ \A i \in Leaving : m[i].act = "finish"
           /\ req' = [i \in Instances |-> IF i \in sent \cup Leaving
                                         THEN Append(req[i], m[i]) ELSE req[i]]
  BY <1>1
<1>3. PICK m :
           /\ \A i \in sent : m[i].act = "migrate_in" /\ ToSet(m[i].groups) # {}
           /\ \A i \in Leaving : m[i].act = "finish"
           /\ req' = [i \in Instances |-> IF i \in sent \cup Leaving
                                         THEN Append(req[i], m[i]) ELSE req[i]]
  BY <1>2
<1>4. InstOK'
  BY <1>1, <1>3 DEF InstInv, InstOK, Untouched
<1>5. ASSUME NEW i \in Instances, i < offset PROVE Stage(i)'
  BY <1>1, <1>3, <1>5, StaysGone DEF Leaving, Staying, InstInv, InstOK, Instances
<1>6. ASSUME NEW i \in Instances, i >= offset PROVE Stage(i)'
  <2>1. InRollout(i) /\ MeansGroups(i) /\ Empty(i) /\ Rest(i) /\ rpc[i] # "new"
    BY <1>1, <1>6, BeforeFinish DEF Told, Talk, Empty, Rest
  <2>2. Leaving' = Leaving
    BY <1>1 DEF Leaving
  <2> DEFINE mi == m[i]
  <2> HIDE DEF mi
  <2>3. CASE i \in Leaving
    <3>1. req'[i] = Append(req[i], mi) /\ mi.act = "finish"
      BY <1>3, <2>3 DEF mi
    <3>2. Asked(i, "finish")'
      BY <1>1, <2>1, <3>1, AskedNext DEF Untouched
    <3> QED BY <1>1, <1>6, <2>1, <2>2, <2>3, <3>2
            DEF Stage, Talk, InRollout, MeansGroups, Untouched
  <2>4. CASE i \in sent /\ i \notin Leaving
    <3>1. req'[i] = Append(<<>>, mi) /\ mi.act = "migrate_in" /\ ToSet(mi.groups) # {}
      BY <1>3, <2>1, <2>4 DEF mi, Empty
    <3>2. req'[i] = <<mi>>
      BY <3>1, One
    <3>3. req'[i][1] = mi
      BY <3>2
    <3>4. Given(i)'
      BY <1>1, <2>1, <3>1, <3>3 DEF Given, Untouched
    <3>5. Listens(i)'
      BY <1>1, <2>1 DEF Empty, Listens, Untouched
    <3>6. Rest(i)'
      BY <3>2, <3>3, <3>4, <3>5 DEF Rest
    <3> QED BY <1>1, <1>6, <2>1, <2>2, <2>4, <3>6
            DEF Stage, Talk, InRollout, MeansGroups, Untouched
  <2>5. CASE i \notin sent \cup Leaving
    <3>1. Rest(i)'
      BY <1>1, <1>3, <2>1, <2>5 DEF Rest, Empty, Listens, Untouched
    <3> QED BY <1>1, <1>6, <2>1, <2>2, <2>5, <3>1
            DEF Stage, Talk, InRollout, MeansGroups, Untouched
  <2> QED BY <2>3, <2>4, <2>5
<1> QED BY <1>1, <1>4, <1>5, <1>6, ManagerOnly DEF Instances, InstInv, InstOK

\* Everybody who is alive is told to finish.
LEMMA FinishAllStep == ASSUME InstInv, FinishAll PROVE InstInv'
<1>1. /\ mpc \in {"idle", "reported"} /\ mpc' = "finish" /\ leaving' = N - offset /\ Untouched
      /\ UNCHANGED <<offset, resp>>
      /\ req' = [i \in Instances |-> IF i \in Alive THEN Append(req[i], FinishRequest[i])
                                                  ELSE req[i]]
  BY AliveCount DEF FinishAll, Scatter, Untouched, loops, status
<1>2. InstOK'
  BY <1>1, MigrationAssumption DEF InstInv, InstOK, Untouched
<1>3. ASSUME NEW i \in Instances, i < offset PROVE Stage(i)'
  BY <1>1, <1>3, StaysGone DEF Alive, InstInv, InstOK, Instances
<1>4. ASSUME NEW i \in Instances, i >= offset PROVE Stage(i)'
  <2>1. InRollout(i) /\ MeansGroups(i) /\ Rest(i)
    BY <1>1, <1>4, BeforeFinish DEF Told, Talk, Empty, Rest
  <2>2. i \in Alive /\ i \in Leaving'
    BY <1>1, <1>4, MigrationAssumption DEF Alive, Leaving, Instances, InstInv, InstOK
  <2> DEFINE m == FinishRequest[i]
  <2>3. req'[i] = Append(req[i], m) /\ m.act = "finish"
    BY <1>1, <2>2 DEF FinishRequest
  <2> HIDE DEF m
  <2>4. Asked(i, "finish")'
    BY <1>1, <2>1, <2>3, AskedNext DEF Untouched
  <2>5. Talk(i)'
    BY <1>1, <2>2, <2>4 DEF Talk
  <2> QED BY <1>1, <1>4, <2>1, <2>5 DEF Stage, InRollout, MeansGroups, Untouched
<1> QED BY <1>1, <1>2, <1>3, <1>4, ManagerOnly DEF Instances, InstInv, InstOK

\* Whoever was told to finish has left and offloaded its engine.
LEMMA GatherOffloadedStep == ASSUME InstInv, GatherOffloaded PROVE InstInv'
<1>1. /\ mpc = "finish" /\ mpc' = (IF offset + leaving = N THEN "over" ELSE "idle")
      /\ offset' = offset + leaving /\ leaving' = 0 /\ Untouched /\ UNCHANGED req
      /\ \A i \in Leaving : resp[i] # <<>>
      /\ resp' = [i \in Instances |-> IF i \in Leaving THEN Tail(resp[i]) ELSE resp[i]]
  BY DEF GatherOffloaded, CanGather, Gather, Untouched, loops, status
<1>2. InstOK'
  BY <1>1, MigrationAssumption DEF InstInv, InstOK, Untouched
<1>3. ASSUME NEW i \in Instances, i < offset PROVE Stage(i)'
  BY <1>1, <1>3, StaysGone DEF Leaving, InstInv, InstOK, Instances
<1>4. ASSUME NEW i \in Instances, i \in Leaving PROVE Stage(i)'
  <2>1. i >= offset /\ ~(i < offset) /\ i < offset'
    BY <1>1, <1>4 DEF Leaving, InstInv, InstOK, Instances
  <2>2. Answered(i) /\ Gone(i)
    BY <1>1, <1>4, <2>1 DEF InstInv, Stage, Talk, Asked, Working, Empty, Listens
  <2> QED BY <1>1, <1>4, <2>1, <2>2, One
          DEF Stage, Answered, Empty, Listens, Gone, Untouched
<1>5. ASSUME NEW i \in Instances, i >= offset, i \notin Leaving PROVE Stage(i)'
  <2>1. i >= offset' /\ mpc' = "idle"
    BY <1>1, <1>5, MigrationAssumption DEF Leaving, InstInv, InstOK, Instances
  <2>2. InRollout(i) /\ MeansGroups(i) /\ Rest(i)
    BY <1>1, <1>5, BeforeFinish DEF Told, Talk
  <2>3. Rest(i)'
    BY <1>1, <1>5, <2>2 DEF Rest, Given, Listens, Untouched
  <2> QED BY <1>1, <2>1, <2>2, <2>3 DEF Stage, Talk, InRollout, MeansGroups, Untouched
<1> QED BY <1>1, <1>2, <1>3, <1>4, <1>5, ManagerOnly DEF Instances, InstInv, InstOK

\* Everybody has left, and begins anew.
LEMMA NextGlobalStepStep == ASSUME InstInv, NextGlobalStep PROVE InstInv'
<1>1. /\ mpc = "over" /\ mpc' = "idle" /\ offset' = 0 /\ offset = N
      /\ rpc' = [i \in Instances |-> "new"]
      /\ UNCHANGED <<leaving, req, resp, lpc, running, awaited, returned, event>>
  BY DEF NextGlobalStep, status, InstInv, InstOK
<1>2. leaving = 0 /\ N \in Nat
  BY <1>1, MigrationAssumption DEF InstInv, InstOK
<1>3. InstOK'
  BY <1>1, <1>2 DEF InstInv, InstOK
<1>4. ASSUME NEW i \in Instances PROVE Loop(i)' /\ Stage(i)'
  <2>1. i < offset /\ ~(i >= offset) /\ i >= offset'
    BY <1>1, <1>2 DEF Instances
  <2>2. Empty(i) /\ Gone(i)
    BY <1>1, <2>1 DEF InstInv, Stage, Told
  <2>3. Rest(i)' /\ InRollout(i)' /\ MeansGroups(i)'
    BY <1>1, <2>2 DEF Rest, Empty, Listens, InRollout, MeansGroups, Gone
  <2> QED BY <1>1, <2>1, <2>3 DEF Loop, Stage, Talk
<1> QED BY <1>3, <1>4 DEF InstInv

-----------------------------------------------------------------------------
(* Theorems *)

\* Every queue is empty, nobody has been notified.
LEMMA InitInstInv == ASSUME Init PROVE InstInv
<1>1. InstOK
  BY MigrationAssumption DEF Init, InstOK
<1>2. ASSUME NEW i \in Instances PROVE Loop(i) /\ Stage(i)
  <2>1. i >= offset
    BY DEF Init, Instances
  <2>2. Rest(i) /\ InRollout(i) /\ MeansGroups(i)
    BY DEF Init, Rest, Listens, InRollout, MeansGroups
  <2> QED BY <2>1, <2>2 DEF Init, Loop, Stage, Talk
<1> QED BY <1>1, <1>2 DEF InstInv

\* Every step of anybody keeps the invariant.
LEMMA NextInstInv == ASSUME EverybodyHasWork, InstInv, [Next]_vars PROVE InstInv'
<1>1. CASE ManagerStep \/ ManagerChoice
  BY <1>1, AskReportsStep, GatherReportsStep, MigrateStep, GatherOutStep,
     MigrateInStepOfManager, FinishAllStep, GatherOffloadedStep, NextGlobalStepStep
     DEF ManagerStep, ManagerChoice
<1>2. ASSUME NEW i \in Instances, RolloutLoop(i) PROVE InstInv'
  BY <1>2, StartStep, WaitReturnsStep, MarkStep, NotifiedStep, OffloadStep, PutResultStep
     DEF RolloutLoop
<1>3. ASSUME NEW i \in Instances, SchedulerLoop(i) PROVE InstInv'
  BY <1>3, ReportStep, MigrateInStep, HandlerStep, AbortStep, SendAbortedStep, NotifyFinishStep
     DEF SchedulerLoop
<1>4. ASSUME NEW g, Task(g) \/ UNCHANGED vars PROVE InstInv'
  BY <1>4, TaskStep
<1> QED BY <1>1, <1>2, <1>3, <1>4 DEF Next

\* At each point of the manager's loop, what is in the queues of each instance,
\* and what its event means, if every instance has a share of the groups.
THEOREM InstInvariance == ASSUME EverybodyHasWork PROVE Spec => []InstInv
<1>1. Init => InstInv
  BY InitInstInv
<1>2. InstInv /\ [Next]_vars => InstInv'
  BY NextInstInv
<1> QED BY <1>1, <1>2, PTL DEF Spec

\* rollout() does not sleep in wait_notification while groups that were
\* migrated in are running.
THEOREM NeverSleepsOverGroups == ASSUME EverybodyHasWork PROVE Spec => []NoLostWakeup
<1>1. InstInv => NoLostWakeup
  BY DEF InstInv, Loop, NoLostWakeup
<1> QED BY <1>1, InstInvariance, PTL

\* No instance leaves rollout() but one that the manager is finishing, whatever
\* notifications it got before, in this global step or an earlier one.
THEOREM LeavesOnlyWhenTold == ASSUME EverybodyHasWork PROVE Spec => LeavesWhenTold
<1>1. InstInv /\ [Next]_vars =>
        [\A i \in Instances : rpc'[i] = "offload" /\ rpc[i] # "offload"
                                => mpc = "finish" /\ i \in Leaving]_vars
  <2> SUFFICES ASSUME InstInv, Next, NEW i \in Instances, rpc'[i] = "offload", rpc[i] # "offload"
               PROVE  mpc = "finish" /\ i \in Leaving
    BY DEF vars
  <2>1. Notified(i) /\ running[i] = {}
    <3>1. UNCHANGED rpc \/ rpc' = [j \in Instances |-> "new"]
          \/ \E j \in Instances : RolloutLoop(j)
      BY DEF Next, ManagerStep, ManagerChoice, SchedulerLoop, Task, AskReports, GatherReports,
             Migrate, GatherOut, MigrateIn, FinishAll, GatherOffloaded, NextGlobalStep, Report,
             HandleMigrateIn, HandleMigrateOut, Abort, SendAborted, HandleFinish, NotifyFinish,
             BeginTask, SequenceDone, loops
    <3>2. PICK j \in Instances : RolloutLoop(j)
      BY <3>1
    <3>3. CASE Start(j)
      BY <3>3 DEF Start, LoopAgain, EverybodyHasWork, InstInv, InstOK
    <3>4. CASE WaitReturns(j) \/ Offload(j) \/ \E g \in Groups : PutResult(j, g)
      BY <3>4 DEF WaitReturns, Offload, PutResult, InstInv, InstOK
    <3>5. CASE MarkDone(j) \/ \E g \in Groups : MarkAborted(j, g)
      BY <3>5 DEF MarkDone, MarkAborted, Unmark, LoopAgain, InstInv, InstOK
    <3>6. CASE Notified(j)
      BY <3>6 DEF Notified, LoopAgain, Leave, InstInv, InstOK
    <3> QED BY <3>2, <3>3, <3>4, <3>5, <3>6 DEF RolloutLoop
  <2> QED BY <2>1, LeavesTold DEF Notified, Told
<1> QED BY <1>1, InstInvariance, PTL DEF Spec, LeavesWhenTold

-----------------------------------------------------------------------------
(* Induction, in a form that needs no predicate *)

\* A set of natural numbers has a least element.
LEMMA LeastNumber ==
  ASSUME NEW T, T \subseteq Nat, T # {}
  PROVE  \E x \in T : \A y \in T : x <= y
<1> DEFINE R == {ss \in Nat \X Nat : ss[1] < ss[2]}
<1>1. IsWellFoundedOn(R, Nat)
  BY NatLessThanWellFounded DEF OpToRel
<1>2. PICK x \in T : \A y \in T : ~(<<y, x>> \in R)
  <2> HIDE DEF R
  <2> QED BY <1>1, WFMin
<1>3. \A y \in T : x <= y
  <2> SUFFICES ASSUME NEW y \in T, y < x PROVE FALSE
    OBVIOUS
  <2>1. <<y, x>> \in Nat \X Nat
    OBVIOUS
  <2> QED BY <1>2, <2>1
<1> QED BY <1>3

\* A set that has 0, and the next of each of its numbers, has all.
LEMMA Induction ==
  ASSUME NEW T, 0 \in T, \A n \in T \cap Nat : n + 1 \in T
  PROVE  Nat \subseteq T
<1> DEFINE S == Nat \ T
<1> SUFFICES ASSUME S # {} PROVE FALSE
  OBVIOUS
<1>1. PICK x \in S : \A y \in S : x <= y
  <2>1. S \subseteq Nat
    OBVIOUS
  <2> HIDE DEF S
  <2> QED BY <2>1, LeastNumber
<1>2. x - 1 \in Nat \cap T
  BY <1>1
<1>3. (x - 1) + 1 = x
  OBVIOUS
<1> QED BY <1>2, <1>3

\* f[i] is what base has become after i steps.
Iterated(f, m, B, base, step) ==
  /\ f \in [0 .. m -> B]
  /\ f[0] = base
  /\ \A i \in 1 .. m : f[i] = step[<<i, f[i - 1]>>]

LEMMA Recursion ==
  ASSUME NEW B, NEW base \in B, NEW step \in [Nat \X B -> B], NEW m \in Nat
  PROVE  \E f : Iterated(f, m, B, base, step)
<1> DEFINE Steps(f, k) == f[0] = base /\ \A i \in 1 .. k : f[i] = step[<<i, f[i - 1]>>]
           T == {k \in Nat : \E f \in [0 .. k -> B] : Steps(f, k)}
<1>1. 0 \in T
  <2>1. [i \in 0 .. 0 |-> base] \in [0 .. 0 -> B] /\ Steps([i \in 0 .. 0 |-> base], 0)
    OBVIOUS
  <2> QED BY <2>1
<1>2. ASSUME NEW k \in T PROVE k + 1 \in T
  <2>1. PICK f \in [0 .. k -> B] : Steps(f, k)
    OBVIOUS
  <2> DEFINE g == [i \in 0 .. k + 1 |-> IF i <= k THEN f[i] ELSE step[<<k + 1, f[k]>>]]
  <2>2. g \in [0 .. k + 1 -> B]
    OBVIOUS
  <2>3. Steps(g, k + 1)
    <3>1. g[0] = base
      BY <2>1
    <3>2. ASSUME NEW i \in 1 .. k + 1 PROVE g[i] = step[<<i, g[i - 1]>>]
      <4>1. CASE i <= k
        <5>1. g[i] = f[i] /\ g[i - 1] = f[i - 1] /\ i \in 1 .. k
          BY <3>2, <4>1
        <5> QED BY <2>1, <5>1
      <4>2. CASE i = k + 1
        <5>1. g[k + 1] = step[<<k + 1, f[k]>>] /\ g[k] = f[k] /\ (k + 1) - 1 = k
          OBVIOUS
        <5> QED BY <4>2, <5>1
      <4> QED BY <3>2, <4>1, <4>2
    <3> QED BY <3>1, <3>2
  <2> HIDE DEF g
  <2> QED BY <2>2, <2>3
<1>3. Nat \subseteq T
  <2> HIDE DEF T
  <2> QED BY <1>1, <1>2, Induction
<1>4. PICK f \in [0 .. m -> B] : Steps(f, m)
  BY <1>3
<1> QED BY <1>4 DEF Iterated

-----------------------------------------------------------------------------
(* Sequences and their elements *)

LEMMA LeastIs ==
  ASSUME NEW T, T \subseteq Nat, T # {}
  PROVE  Min(T) \in T /\ \A y \in T : Min(T) <= y
BY LeastNumber DEF Min

LEMMA Element ==
  ASSUME NEW S, NEW s \in Seq(S)
  PROVE  /\ \A i : i \in ToSet(s) <=> \E n \in 1 .. Len(s) : s[n] = i
         /\ IsInjective(s) <=> \A m, n \in 1 .. Len(s) : s[m] = s[n] => m = n
         /\ ToSet(s) \subseteq S /\ Len(s) \in Nat
BY DEF ToSet, IsInjective

LEMMA EmptyOne == ToSet(<<>>) = {} /\ IsInjective(<<>>) /\ \A S : <<>> \in Seq(S)
BY DEF ToSet, IsInjective

LEMMA Joined ==
  ASSUME NEW S, NEW s \in Seq(S), NEW t \in Seq(S)
  PROVE  /\ s \o t \in Seq(S) /\ Len(s \o t) = Len(s) + Len(t)
         /\ ToSet(s \o t) = ToSet(s) \cup ToSet(t)
         /\ IsInjective(s) /\ IsInjective(t) /\ ToSet(s) \cap ToSet(t) = {} => IsInjective(s \o t)
<1> DEFINE z == s \o t
<1>0. Len(s) \in Nat /\ Len(t) \in Nat
  OBVIOUS
<1>1. /\ z \in Seq(S) /\ Len(z) = Len(s) + Len(t)
      /\ \A i \in 1 .. Len(s) : z[i] = s[i]
      /\ \A i \in Len(s) + 1 .. Len(s) + Len(t) : z[i] = t[i - Len(s)]
  OBVIOUS
<1> HIDE DEF z
<1>2. ASSUME NEW i \in ToSet(s) \cup ToSet(t) PROVE i \in ToSet(z)
  <2>1. CASE i \in ToSet(s)
    <3>1. PICK m \in 1 .. Len(s) : s[m] = i
      BY <2>1, Element
    <3>2. m \in 1 .. Len(z) /\ z[m] = i
      BY <1>0, <1>1, <3>1
    <3> QED BY <1>1, <3>2, Element
  <2>2. CASE i \in ToSet(t)
    <3>1. PICK m \in 1 .. Len(t) : t[m] = i
      BY <2>2, Element
    <3>2. Len(s) + m \in Len(s) + 1 .. Len(s) + Len(t) /\ (Len(s) + m) - Len(s) = m
      BY <1>0
    <3>3. z[Len(s) + m] = t[(Len(s) + m) - Len(s)]
      BY <1>1, <3>2
    <3>4. Len(s) + m \in 1 .. Len(z) /\ z[Len(s) + m] = i
      BY <1>0, <1>1, <3>1, <3>2, <3>3
    <3> QED BY <1>1, <3>4, Element
  <2> QED BY <2>1, <2>2
<1>3. ASSUME NEW m \in 1 .. Len(z)
      PROVE  \/ m \in 1 .. Len(s) /\ z[m] = s[m]
             \/ m - Len(s) \in 1 .. Len(t) /\ z[m] = t[m - Len(s)]
  <2>1. CASE m <= Len(s)
    BY <1>0, <1>1, <2>1
  <2>2. CASE m > Len(s)
    <3>1. m \in Len(s) + 1 .. Len(s) + Len(t) /\ m - Len(s) \in 1 .. Len(t)
      BY <1>0, <1>1, <2>2
    <3> QED BY <1>1, <3>1
  <2> QED BY <1>0, <2>1, <2>2
<1>4. ToSet(z) = ToSet(s) \cup ToSet(t)
  <2>1. ASSUME NEW i \in ToSet(z) PROVE i \in ToSet(s) \cup ToSet(t)
    <3>1. PICK m \in 1 .. Len(z) : z[m] = i
      BY <1>1, Element
    <3> QED BY <1>3, <3>1, Element
  <2> QED BY <1>2, <2>1
<1>5. ASSUME IsInjective(s), IsInjective(t), ToSet(s) \cap ToSet(t) = {} PROVE IsInjective(z)
  <2> SUFFICES ASSUME NEW m \in 1 .. Len(z), NEW n \in 1 .. Len(z), z[m] = z[n] PROVE m = n
    BY <1>1, Element
  <2>1. CASE m \in 1 .. Len(s) /\ n \in 1 .. Len(s)
    <3>1. s[m] = s[n]
      BY <1>1, <2>1
    <3> QED BY <1>5, <2>1, <3>1, Element
  <2>2. ASSUME NEW a \in 1 .. Len(s), NEW b \in 1 .. Len(t) PROVE s[a] # t[b]
    <3>1. s[a] \in ToSet(s) /\ t[b] \in ToSet(t)
      BY Element
    <3> QED BY <1>5, <3>1
  <2>3. CASE /\ m - Len(s) \in 1 .. Len(t) /\ z[m] = t[m - Len(s)]
             /\ n - Len(s) \in 1 .. Len(t) /\ z[n] = t[n - Len(s)]
    <3>0. \A a, b \in 1 .. Len(t) : t[a] = t[b] => a = b
      BY <1>5, Element
    <3>1. m - Len(s) = n - Len(s)
      BY <2>3, <3>0
    <3> QED BY <1>0, <3>1
  <2> QED BY <1>3, <2>1, <2>2, <2>3
<1> QED BY <1>1, <1>4, <1>5 DEF z

LEMMA Appended ==
  ASSUME NEW S, NEW s \in Seq(S), NEW e \in S
  PROVE  /\ Append(s, e) \in Seq(S) /\ Len(Append(s, e)) = Len(s) + 1
         /\ ToSet(Append(s, e)) = ToSet(s) \cup {e}
         /\ IsInjective(s) /\ e \notin ToSet(s) => IsInjective(Append(s, e))
<1>1. <<e>> \in Seq(S) /\ ToSet(<<e>>) = {e} /\ IsInjective(<<e>>) /\ Len(<<e>>) = 1
  BY DEF ToSet, IsInjective
<1>3. e \notin ToSet(s) => ToSet(s) \cap ToSet(<<e>>) = {}
  BY <1>1
<1>4. /\ s \o <<e>> \in Seq(S) /\ Len(s \o <<e>>) = Len(s) + Len(<<e>>)
      /\ ToSet(s \o <<e>>) = ToSet(s) \cup ToSet(<<e>>)
      /\ IsInjective(s) /\ IsInjective(<<e>>) /\ ToSet(s) \cap ToSet(<<e>>) = {}
         => IsInjective(s \o <<e>>)
  BY <1>1, Joined
<1>2. Append(s, e) = s \o <<e>>
  BY AppendIsConcat
<1> QED BY <1>1, <1>2, <1>3, <1>4

-----------------------------------------------------------------------------
(* Where the groups are *)

\* The groups that the messages of kind act in a queue bring.
GroupsOf(act, queue) == UNION {ToSet(m.groups) : m \in {n \in ToSet(queue) : n.act = act}}

\* The groups of instance i that its rollout() has not begun, that are in its
\* list, in its answer, or in the migrate_in requests for it.
New(i) == IF rpc[i] = "new" THEN Share[i] ELSE {}
Cut(i) == IF lpc[i] \in {"abort", "drain"} THEN ToSet(aborted[i]) ELSE {}
Out(i) == GroupsOf("aborted", resp[i])
In(i) == GroupsOf("migrate_in", req[i])
Hold(i) == New(i) \cup running[i] \cup Cut(i) \cup Out(i) \cup In(i)

\* The groups that are with the manager, and those that rollout() is done with.
Moving == ToSet(moving)
Done == {g \in Groups : delivered[g] = 1 /\ \A i \in Instances : rpc[i] = "put" => g \notin awaited[i]}

\* Everything is somewhere.
Whole == Groups = (UNION {Hold(i) : i \in Instances}) \cup Moving \cup Done

\* Nothing is in two places.
Apart ==
  /\ \A i, j \in Instances : i # j => Hold(i) \cap Hold(j) = {}
  /\ \A i \in Instances : Hold(i) \cap Moving = {} /\ Hold(i) \cap Done = {}
  /\ Moving \cap Done = {}

Disjoint(A, B, C, D, E) ==
  /\ A \cap B = {} /\ A \cap C = {} /\ A \cap D = {} /\ A \cap E = {}
  /\ B \cap C = {} /\ B \cap D = {} /\ B \cap E = {}
  /\ C \cap D = {} /\ C \cap E = {} /\ D \cap E = {}

\* An instance has a group in one place, and nothing before it has started and
\* after it has left.
Kept(i) ==
  /\ Disjoint(New(i), running[i], Cut(i), Out(i), In(i))
  /\ rpc[i] \notin {"wait", "work", "put", "notification"} => running[i] = {} /\ aborted[i] = <<>>
  /\ returned[i] \subseteq running[i]

\* A list is kept until the instance leaves, the manager has it before.
Listed(i) ==
  /\ aborted[i] \in Seq(Groups) /\ IsInjective(aborted[i])
  /\ aborted[i] # <<>> =>
       /\ i \in Leaving
       /\ \/ mpc = "out" /\ (lpc[i] = "drain" \/ (lpc[i] = "get" /\ req[i] = <<>>))
          \/ mpc \in {"in", "finish"}

\* The answer is the one the manager waits for.
Answer(i) ==
  resp[i] # <<>> =>
    \/ mpc = "report" /\ resp[i][1].act = "report"
    \/ /\ mpc = "out" /\ resp[i][1].act = "aborted"
       /\ resp[i][1].groups \in Seq(Groups) /\ IsInjective(resp[i][1].groups)
    \/ mpc = "finish" /\ resp[i][1].act = "offloaded"

\* The manager keeps somebody, and has a list of groups while it migrates.
Manages ==
  /\ mpc \in {"out", "in"} => leaving \in 1 .. N - offset - 1
  /\ moving \in Seq(Groups) /\ IsInjective(moving)
  /\ moving # <<>> => mpc = "in"

Counts ==
  /\ begun \in [Groups -> BOOLEAN] /\ delivered \in [Groups -> {0, 1}]
  /\ completed \in [Groups -> Nat] /\ cut \in [Groups -> Nat]
  /\ \A g \in Groups : completed[g] + cut[g] <= Size[g]

\* How far a group is, by where it is.
Progress(i) ==
  /\ \A g \in New(i) : ~begun[g] /\ completed[g] = 0 /\ cut[g] = 0
  /\ \A g \in running[i] : /\ begun[g] /\ cut[g] > 0 => lpc[i] = "drain"
                           /\ ~begun[g] /\ cut[g] = 0 => completed[g] = 0
  /\ \A g \in returned[i] : begun[g] /\ AllReturned(g)
  /\ \A g \in Cut(i) \cup Out(i) \cup In(i) : cut[g] > 0
  /\ rpc[i] = "put" => \A g \in awaited[i] : delivered[g] = 1

GroupInv ==
  /\ DOMAIN aborted = Instances
  /\ Whole /\ Apart /\ Manages /\ Counts
  /\ \A i \in Instances : Kept(i) /\ Listed(i) /\ Answer(i) /\ Progress(i)
  /\ \A g \in Moving : cut[g] > 0

-----------------------------------------------------------------------------
(* Messages and their groups *)

\* One message, and one behind that brings nothing.
LEMMA Brings ==
  ASSUME NEW act
  PROVE  /\ GroupsOf(act, <<>>) = {}
         /\ \A m : GroupsOf(act, <<m>>) = IF m.act = act THEN ToSet(m.groups) ELSE {}
         /\ \A m, n : n.act # act => GroupsOf(act, <<m, n>>) = GroupsOf(act, <<m>>)
<1>1. ToSet(<<>>) = {} /\ (\A m : ToSet(<<m>>) = {m}) /\ \A m, n : ToSet(<<m, n>>) = {m, n}
  BY DEF ToSet
<1>2. GroupsOf(act, <<>>) = {}
  BY <1>1 DEF GroupsOf
<1>3. ASSUME NEW m PROVE GroupsOf(act, <<m>>) = IF m.act = act THEN ToSet(m.groups) ELSE {}
  BY <1>1 DEF GroupsOf
<1>4. ASSUME NEW m, NEW n, n.act # act PROVE GroupsOf(act, <<m, n>>) = GroupsOf(act, <<m>>)
  BY <1>1, <1>4 DEF GroupsOf
<1> QED BY <1>2, <1>3, <1>4

\* A request that brings nothing is put behind at most one other.
LEMMA BringsNoMore ==
  ASSUME NEW act, NEW q, q = <<>> \/ q = <<q[1]>>, NEW m, m.act # act
  PROVE  GroupsOf(act, Append(q, m)) = GroupsOf(act, q)
<1>1. CASE q = <<>>
  <2>1. Append(q, m) = <<m>>
    BY <1>1, One
  <2> QED BY <1>1, <2>1, Brings
<1>2. CASE q = <<q[1]>>
  <2> DEFINE n == q[1]
  <2>1. q = <<n>>
    BY <1>2
  <2> HIDE DEF n
  <2>2. Append(q, m) = <<n, m>>
    BY <2>1, Two
  <2>3. GroupsOf(act, <<n, m>>) = GroupsOf(act, <<n>>)
    BY Brings
  <2> QED BY <2>1, <2>2, <2>3
<1> QED BY <1>1, <1>2

-----------------------------------------------------------------------------
(* A step of one instance *)

\* The groups that are counted as done follow delivered and the puts.
LEMMA SameDone ==
  ASSUME NEW i \in Instances, Elsewhere(i), delivered' = delivered,
         \/ rpc[i] # "put" /\ rpc'[i] # "put"
         \/ rpc'[i] = rpc[i] /\ awaited'[i] = awaited[i]
  PROVE  Done' = Done
<1>1. \A g \in Groups :
        (\A j \in Instances : rpc'[j] = "put" => g \notin awaited'[j]) <=>
        (\A j \in Instances : rpc[j] = "put" => g \notin awaited[j])
  BY DEF Elsewhere
<1> QED BY <1>1 DEF Done

\* The counts of what the other instances and the manager have are the same.
SameCounts(H) ==
  \A g \in Groups \ H : /\ begun'[g] = begun[g] /\ delivered'[g] = delivered[g]
                        /\ completed'[g] = completed[g] /\ cut'[g] = cut[g]

\* Then only the groups of the instance have to be looked at; those of D are
\* done.
LEMMA OneInstanceGroups ==
  ASSUME InstInv, GroupInv, NEW i \in Instances, Elsewhere(i),
         DOMAIN aborted' = Instances, \A j \in Instances \ {i} : aborted'[j] = aborted[j],
         Counts', SameCounts(Hold(i)),
         NEW D, D \subseteq Hold(i), Hold(i)' = Hold(i) \ D, Done' = Done \cup D,
         Kept(i)', Listed(i)', Answer(i)', Progress(i)'
  PROVE  GroupInv'
<1>1. UNCHANGED <<mpc, offset, leaving, moving>> /\ Moving' = Moving /\ Leaving' = Leaving
  BY DEF Elsewhere, manager, Moving, Leaving
<1>2. /\ Whole /\ Apart /\ Manages /\ Counts /\ \A g \in Moving : cut[g] > 0
      /\ \A j \in Instances : Kept(j) /\ Listed(j) /\ Answer(j) /\ Progress(j) /\ Loop(j)
  BY DEF GroupInv, InstInv
<1>3. ASSUME NEW j \in Instances \ {i}
      PROVE  /\ Hold(j)' = Hold(j) /\ New(j)' = New(j) /\ Cut(j)' = Cut(j)
             /\ Out(j)' = Out(j) /\ In(j)' = In(j) /\ running'[j] = running[j]
  BY DEF Elsewhere, Hold, New, Cut, Out, In
<1>4. Whole'
  <2>1. Hold(i) = Hold(i)' \cup D
    OBVIOUS
  <2>2. (UNION {Hold(j) : j \in Instances}) \cup Done = (UNION {Hold(j)' : j \in Instances}) \cup Done'
    BY <1>3, <2>1
  <2> QED BY <1>1, <1>2, <2>2 DEF Whole
<1>5. Apart'
  <2> USE <1>1, <1>2, <1>3 DEF Apart
  <2>1. \A j, k \in Instances : j # k => Hold(j)' \cap Hold(k)' = {}
    OBVIOUS
  <2>2. \A j \in Instances : Hold(j)' \cap Moving' = {} /\ Hold(j)' \cap Done' = {}
    OBVIOUS
  <2>3. Moving' \cap Done' = {}
    OBVIOUS
  <2> QED BY <2>1, <2>2, <2>3
<1>6. Manages'
  BY <1>1, <1>2 DEF Manages
<1>7. \A g \in Moving' : cut'[g] > 0
  <2>1. Moving \subseteq Groups \ Hold(i)
    BY <1>2 DEF Whole, Apart
  <2> QED BY <1>1, <1>2, <2>1 DEF SameCounts
<1>8. ASSUME NEW j \in Instances \ {i} PROVE Kept(j)' /\ Listed(j)' /\ Answer(j)' /\ Progress(j)'
  <2>1. /\ req'[j] = req[j] /\ resp'[j] = resp[j] /\ rpc'[j] = rpc[j] /\ lpc'[j] = lpc[j]
        /\ running'[j] = running[j] /\ awaited'[j] = awaited[j]
        /\ returned'[j] = returned[j] /\ aborted'[j] = aborted[j]
    BY DEF Elsewhere
  <2>2. Kept(j)'
    BY <1>2, <1>3, <2>1 DEF Kept
  <2>3. Listed(j)'
    BY <1>1, <1>2, <2>1 DEF Listed
  <2>4. Answer(j)'
    BY <1>1, <1>2, <2>1 DEF Answer
  <2>5. Hold(j) \subseteq Groups \ Hold(i)
    BY <1>2 DEF Whole, Apart
  <2>6. /\ New(j) \subseteq Hold(j) /\ running[j] \subseteq Hold(j) /\ returned[j] \subseteq Hold(j)
        /\ Cut(j) \cup Out(j) \cup In(j) \subseteq Hold(j)
        /\ rpc[j] = "put" => awaited[j] \subseteq Hold(j)
    BY <1>2 DEF Hold, Kept, Loop
  <2>7. \A g \in Hold(j) : /\ begun'[g] = begun[g] /\ delivered'[g] = delivered[g]
                           /\ completed'[g] = completed[g] /\ cut'[g] = cut[g]
    BY <2>5 DEF SameCounts
  <2>8. Progress(j)'
    BY <1>2, <1>3, <2>1, <2>6, <2>7 DEF Progress, AllReturned, NumRunning
  <2> QED BY <2>2, <2>3, <2>4, <2>8
<1> QED BY <1>4, <1>5, <1>6, <1>7, <1>8 DEF GroupInv

\* A step of one instance in which none of its groups gets done.
LEMMA NothingDone ==
  ASSUME InstInv, GroupInv, NEW i \in Instances, Elsewhere(i),
         DOMAIN aborted' = Instances, \A j \in Instances \ {i} : aborted'[j] = aborted[j],
         Counts', SameCounts(Hold(i)), Hold(i)' = Hold(i), Done' = Done,
         Kept(i)', Listed(i)', Answer(i)', Progress(i)'
  PROVE  GroupInv'
<1> DEFINE D == {}
<1>1. D \subseteq Hold(i) /\ Hold(i)' = Hold(i) \ D /\ Done' = Done \cup D
  OBVIOUS
<1> HIDE DEF D
<1> QED BY <1>1, OneInstanceGroups

\* The messages of instance i, and its list, are the same.
LEMMA SameMessages ==
  ASSUME InstInv, GroupInv, NEW i \in Instances, Elsewhere(i),
         req'[i] = req[i], resp'[i] = resp[i], lpc'[i] = lpc[i]
  PROVE  /\ In(i)' = In(i) /\ Out(i)' = Out(i) /\ Answer(i)'
         /\ aborted' = aborted => Cut(i)' = Cut(i) /\ Listed(i)'
<1>1. mpc' = mpc /\ Leaving' = Leaving /\ Answer(i) /\ Listed(i)
  BY DEF Elsewhere, manager, Leaving, GroupInv
<1>2. In(i)' = In(i) /\ Out(i)' = Out(i)
  BY DEF In, Out
<1>3. Answer(i)'
  BY <1>1 DEF Answer
<1>4. ASSUME aborted' = aborted PROVE Cut(i)' = Cut(i) /\ Listed(i)'
  BY <1>1, <1>4 DEF Cut, Listed
<1> QED BY <1>2, <1>3, <1>4

\* The counts are the same.
LEMMA UnchangedCounts ==
  ASSUME GroupInv, UNCHANGED groups PROVE Counts' /\ \A H : SameCounts(H)
BY DEF GroupInv, Counts, SameCounts, groups

\* What is at an instance is in one place.
LEMMA HeldBy ==
  ASSUME GroupInv, NEW i \in Instances
  PROVE  /\ Kept(i) /\ Listed(i) /\ Answer(i) /\ Progress(i) /\ Counts
         /\ Hold(i) \subseteq Groups /\ Hold(i) \cap Moving = {} /\ Hold(i) \cap Done = {}
         /\ running[i] \subseteq Groups /\ DOMAIN aborted = Instances
BY DEF GroupInv, Whole, Apart, Hold

\* The groups of its share run.
LEMMA StartGroups ==
  ASSUME EverybodyHasWork, InstInv, GroupInv, NEW i \in Instances, Start(i) PROVE GroupInv'
<1>1. /\ rpc[i] = "new" /\ running' = [running EXCEPT ![i] = @ \cup Share[i]]
      /\ rpc' = [rpc EXCEPT ![i] = "wait"] /\ awaited' = [awaited EXCEPT ![i] = Share[i]]
      /\ UNCHANGED <<manager, req, resp, lpc, returned, event, aborted, groups>>
  BY DEF Start, EverybodyHasWork, LoopAgain
<1>2. Elsewhere(i)
  BY <1>1 DEF InstInv, InstOK, Elsewhere
<1>3. Kept(i) /\ Progress(i) /\ running[i] = {}
  BY <1>1, HeldBy DEF Kept
<1>4. rpc'[i] = "wait" /\ running'[i] = Share[i] /\ New(i) = Share[i] /\ New(i)' = {}
  BY <1>1, <1>3 DEF InstInv, InstOK, New
<1>5. In(i)' = In(i) /\ Out(i)' = Out(i) /\ Cut(i)' = Cut(i) /\ Answer(i)' /\ Listed(i)'
  BY <1>1, <1>2, SameMessages
<1>6. Hold(i)' = Hold(i)
  BY <1>3, <1>4, <1>5 DEF Hold
<1>7. Kept(i)'
  BY <1>1, <1>3, <1>4, <1>5 DEF Kept, Disjoint
<1>8. Progress(i)'
  BY <1>1, <1>3, <1>4, <1>5 DEF Progress, Kept, groups, AllReturned, NumRunning
<1>9. Done' = Done
  BY <1>1, <1>2, <1>4, SameDone DEF groups
<1> QED BY <1>1, <1>2, <1>5, <1>6, <1>7, <1>8, <1>9, UnchangedCounts, HeldBy, NothingDone

\* A group that has returned stays where it is.
LEMMA WaitReturnsGroups ==
  ASSUME InstInv, GroupInv, NEW i \in Instances, WaitReturns(i) PROVE GroupInv'
<1> DEFINE done == {g \in awaited[i] : TaskDone(g)}
<1>1. /\ rpc[i] = "wait" /\ rpc' = [rpc EXCEPT ![i] = "work"]
      /\ returned' = [returned EXCEPT ![i] = done] /\ awaited' = [awaited EXCEPT ![i] = {}]
      /\ UNCHANGED <<manager, req, resp, lpc, running, event, aborted, groups>>
  BY DEF WaitReturns
<1>2. Elsewhere(i)
  BY <1>1 DEF InstInv, InstOK, Elsewhere
<1>3. Kept(i) /\ Progress(i)
  BY HeldBy
<1>4. rpc'[i] = "work" /\ returned'[i] = done /\ New(i) = {} /\ New(i)' = {}
  BY <1>1 DEF InstInv, InstOK, New
<1>5. In(i)' = In(i) /\ Out(i)' = Out(i) /\ Cut(i)' = Cut(i) /\ Answer(i)' /\ Listed(i)'
  BY <1>1, <1>2, SameMessages
<1>6. Hold(i)' = Hold(i)
  BY <1>1, <1>4, <1>5 DEF Hold
<1>7. done \subseteq running[i] /\ \A g \in done : begun[g] /\ AllReturned(g)
  BY <1>1 DEF InstInv, Loop, TaskDone
<1> HIDE DEF done
<1>8. Kept(i)'
  BY <1>1, <1>3, <1>4, <1>5, <1>7 DEF Kept, Disjoint
<1>9. Progress(i)'
  BY <1>1, <1>3, <1>4, <1>5, <1>7 DEF Progress, groups, AllReturned, NumRunning
<1>10. Done' = Done
  BY <1>1, <1>2, <1>4, SameDone DEF groups
<1> QED BY <1>1, <1>2, <1>5, <1>6, <1>8, <1>9, <1>10, UnchangedCounts, HeldBy, NothingDone

\* A result is put: nobody has put it before.
LEMMA PutResultGroups ==
  ASSUME InstInv, GroupInv, NEW i \in Instances, NEW g, PutResult(i, g) PROVE GroupInv'
<1>1. /\ rpc[i] = "work" /\ g \in returned[i] /\ rpc' = [rpc EXCEPT ![i] = "put"]
      /\ returned' = [returned EXCEPT ![i] = @ \ {g}]
      /\ awaited' = [awaited EXCEPT ![i] = {g}]
      /\ delivered' = [delivered EXCEPT ![g] = @ + 1]
      /\ UNCHANGED <<manager, req, resp, lpc, running, event, aborted, begun, completed, cut>>
  BY DEF PutResult
<1>2. Elsewhere(i)
  BY <1>1 DEF InstInv, InstOK, Elsewhere
<1>3. Kept(i) /\ Progress(i) /\ Counts /\ g \in running[i] /\ g \in Groups /\ g \in Hold(i)
  BY <1>1, HeldBy DEF Kept, Hold
<1>4. /\ rpc'[i] = "put" /\ returned'[i] = returned[i] \ {g} /\ awaited'[i] = {g}
      /\ New(i) = {} /\ New(i)' = {}
  BY <1>1 DEF InstInv, InstOK, New
<1>5. In(i)' = In(i) /\ Out(i)' = Out(i) /\ Cut(i)' = Cut(i) /\ Answer(i)' /\ Listed(i)'
  BY <1>1, <1>2, SameMessages
<1>6. Hold(i)' = Hold(i)
  BY <1>1, <1>4, <1>5 DEF Hold
<1>7. delivered[g] = 0
  <2>1. \A j \in Instances \ {i} : rpc[j] = "put" => g \notin awaited[j]
    <3> SUFFICES ASSUME NEW j \in Instances \ {i}, rpc[j] = "put", g \in awaited[j] PROVE FALSE
      OBVIOUS
    <3>1. g \in Hold(j)
      BY DEF InstInv, Loop, Hold
    <3> QED BY <1>3, <3>1 DEF GroupInv, Apart
  <2>2. delivered[g] # 1
    BY <1>1, <1>3, <2>1, HeldBy DEF Done
  <2> QED BY <1>3, <2>2 DEF Counts
<1>8. delivered'[g] = 1 /\ Counts' /\ SameCounts(Hold(i))
  BY <1>1, <1>3, <1>7 DEF Counts, SameCounts
<1>9. Done' = Done
  <2>1. \A h \in Groups \ {g} : delivered'[h] = delivered[h]
    BY <1>1, <1>3 DEF Counts
  <2>2. g \notin Done /\ g \notin Done'
    BY <1>4, <1>7 DEF Done
  <2>3. \A h \in Groups \ {g} :
          (\A j \in Instances : rpc'[j] = "put" => h \notin awaited'[j]) <=>
          (\A j \in Instances : rpc[j] = "put" => h \notin awaited[j])
    BY <1>1, <1>2, <1>4 DEF Elsewhere
  <2> QED BY <2>1, <2>2, <2>3 DEF Done
<1>10. Kept(i)'
  BY <1>1, <1>3, <1>4, <1>5 DEF Kept, Disjoint
<1>11. Progress(i)'
  BY <1>1, <1>3, <1>4, <1>5, <1>8 DEF Progress, AllReturned, NumRunning
<1> QED BY <1>1, <1>2, <1>5, <1>6, <1>8, <1>9, <1>10, <1>11, HeldBy, NothingDone

\* mark_done or mark_aborted takes g from the running groups.
LEMMA UnmarkGroups ==
  ASSUME InstInv, GroupInv, NEW i \in Instances, rpc[i] \in {"work", "put"}, NEW g \in running[i],
         rpc[i] = "put" => g \in awaited[i],
         Unmark(i, g), UNCHANGED <<manager, req, resp, lpc, event, groups>>
  PROVE  /\ Elsewhere(i) /\ rpc'[i] \in {"wait", "work", "notification"}
         /\ running'[i] = running[i] \ {g} /\ returned'[i] = returned[i] \ {g}
         /\ New(i) = {} /\ New(i)' = {}
         /\ In(i)' = In(i) /\ Out(i)' = Out(i) /\ Answer(i)'
<1>1. /\ running' = [running EXCEPT ![i] = @ \ {g}] /\ returned' = [returned EXCEPT ![i] = @ \ {g}]
      /\ \/ LoopAgain(i, running[i] \ {g})
         \/ /\ rpc' = [rpc EXCEPT ![i] = "work"]
            /\ awaited' = [awaited EXCEPT ![i] = {}]
  BY DEF Unmark
<1>2. Elsewhere(i) /\ rpc'[i] \in {"wait", "work", "notification"}
  BY <1>1 DEF InstInv, InstOK, Elsewhere, LoopAgain
<1>3. New(i) = {} /\ New(i)' = {}
  BY <1>2 DEF New
<1> QED BY <1>1, <1>2, <1>3, SameMessages DEF InstInv, InstOK

\* The put has returned: g is done.
LEMMA MarkDoneGroups ==
  ASSUME InstInv, GroupInv, NEW i \in Instances, MarkDone(i) PROVE GroupInv'
<1>1. PICK g \in awaited[i] : Unmark(i, g)
  BY DEF MarkDone
<1>2. rpc[i] = "put" /\ UNCHANGED <<manager, req, resp, lpc, aborted, event, groups>>
  BY DEF MarkDone
<1>3. g \in running[i] /\ awaited[i] = {g}
  BY <1>1, <1>2 DEF InstInv, Loop
<1>4. Kept(i) /\ Progress(i) /\ g \in Groups /\ g \in Hold(i) /\ delivered[g] = 1
  BY <1>2, <1>3, HeldBy DEF Hold, Progress
<1>5. /\ Elsewhere(i) /\ rpc'[i] \in {"wait", "work", "notification"}
      /\ running'[i] = running[i] \ {g} /\ returned'[i] = returned[i] \ {g}
      /\ New(i) = {} /\ New(i)' = {}
      /\ In(i)' = In(i) /\ Out(i)' = Out(i) /\ Answer(i)'
  BY <1>1, <1>2, <1>3, UnmarkGroups
<1>6. Cut(i)' = Cut(i) /\ Listed(i)'
  BY <1>2, <1>5, SameMessages
<1>7. Hold(i)' = Hold(i) \ {g}
  BY <1>3, <1>4, <1>5, <1>6 DEF Hold, Kept, Disjoint
<1>8. Done' = Done \cup {g}
  <2>1. \A j \in Instances \ {i} : rpc[j] = "put" => g \notin awaited[j]
    <3> SUFFICES ASSUME NEW j \in Instances \ {i}, rpc[j] = "put", g \in awaited[j] PROVE FALSE
      OBVIOUS
    <3>1. g \in Hold(j)
      BY DEF InstInv, Loop, Hold
    <3> QED BY <1>4, <3>1 DEF GroupInv, Apart
  <2>2. g \in Done'
    BY <1>2, <1>4, <1>5, <2>1 DEF Done, Elsewhere, groups
  <2>3. \A h \in Groups \ {g} :
          (\A j \in Instances : rpc'[j] = "put" => h \notin awaited'[j]) <=>
          (\A j \in Instances : rpc[j] = "put" => h \notin awaited[j])
    BY <1>3, <1>5 DEF Elsewhere
  <2> QED BY <1>2, <2>2, <2>3 DEF Done, groups
<1>9. Kept(i)'
  BY <1>4, <1>5, <1>6 DEF Kept, Disjoint
<1>10. Progress(i)'
  BY <1>2, <1>4, <1>5, <1>6 DEF Progress, AllReturned, NumRunning, groups
<1> DEFINE D == {g}
<1>11. D \subseteq Hold(i) /\ Hold(i)' = Hold(i) \ D /\ Done' = Done \cup D
  BY <1>4, <1>7, <1>8
<1>12. Counts' /\ SameCounts(Hold(i)) /\ DOMAIN aborted' = Instances
  BY <1>2, UnchangedCounts, HeldBy
<1> HIDE DEF D
<1> QED BY <1>2, <1>5, <1>6, <1>9, <1>10, <1>11, <1>12, OneInstanceGroups

\* A group with a sequence that was cut joins the list that will be sent:
\* nothing is cut but between Migrate_Out and its answer.
LEMMA MarkAbortedGroups ==
  ASSUME InstInv, GroupInv, NEW i \in Instances, NEW g, MarkAborted(i, g) PROVE GroupInv'
<1>1. /\ rpc[i] = "work" /\ g \in returned[i] /\ ~AllCompleted(g) /\ Unmark(i, g)
      /\ aborted' = [aborted EXCEPT ![i] = Append(@, g)]
      /\ UNCHANGED <<manager, req, resp, lpc, event, groups>>
  BY DEF MarkAborted
<1>2. /\ Kept(i) /\ Progress(i) /\ Listed(i) /\ Counts /\ DOMAIN aborted = Instances
      /\ g \in running[i] /\ g \in Groups
  BY <1>1, HeldBy DEF Kept
<1>3. begun[g] /\ cut[g] > 0 /\ lpc[i] = "drain"
  <2>1. begun[g] /\ Size[g] - completed[g] - cut[g] = 0 /\ completed[g] # Size[g]
    BY <1>1, <1>2 DEF Progress, AllReturned, AllCompleted, NumRunning
  <2>2. cut[g] > 0
    BY <1>2, <2>1, MigrationAssumption DEF Counts
  <2> QED BY <1>2, <2>1, <2>2 DEF Progress
<1>4. mpc = "out" /\ i \in Leaving
  BY <1>3, InHandler
<1>5. /\ Elsewhere(i) /\ rpc'[i] \in {"wait", "work", "notification"}
      /\ running'[i] = running[i] \ {g} /\ returned'[i] = returned[i] \ {g}
      /\ New(i) = {} /\ New(i)' = {}
      /\ In(i)' = In(i) /\ Out(i)' = Out(i) /\ Answer(i)'
  BY <1>1, <1>2, UnmarkGroups
<1> DEFINE a == aborted[i]
<1>6. a \in Seq(Groups) /\ IsInjective(a) /\ Cut(i) = ToSet(a) /\ g \notin ToSet(a)
  BY <1>2, <1>3 DEF Listed, Cut, Kept, Disjoint
<1> HIDE DEF a
<1>7. /\ Append(a, g) \in Seq(Groups) /\ IsInjective(Append(a, g))
      /\ ToSet(Append(a, g)) = ToSet(a) \cup {g}
  BY <1>2, <1>6, Appended
<1>8. aborted'[i] = Append(a, g) /\ Cut(i)' = Cut(i) \cup {g}
  <2>1. aborted'[i] = Append(a, g)
    BY <1>1, <1>2 DEF a
  <2> QED BY <1>1, <1>3, <1>6, <1>7, <2>1 DEF Cut
<1>9. Listed(i)'
  BY <1>1, <1>3, <1>4, <1>7, <1>8 DEF Listed, Leaving, manager
<1>10. Hold(i)' = Hold(i)
  BY <1>2, <1>5, <1>8 DEF Hold
<1>11. Kept(i)'
  BY <1>2, <1>5, <1>8 DEF Kept, Disjoint
<1>12. Progress(i)'
  BY <1>1, <1>2, <1>3, <1>5, <1>8 DEF Progress, AllReturned, NumRunning, groups
<1>13. Done' = Done
  BY <1>1, <1>5, SameDone DEF groups
<1>14. Counts' /\ SameCounts(Hold(i)) /\ DOMAIN aborted' = Instances
       /\ \A j \in Instances \ {i} : aborted'[j] = aborted[j]
  BY <1>1, <1>2, UnchangedCounts
<1> QED BY <1>5, <1>9, <1>10, <1>11, <1>12, <1>13, <1>14, NothingDone

\* wait_notification returns; an instance that leaves has sent its list.
LEMMA NotifiedGroups ==
  ASSUME InstInv, GroupInv, NEW i \in Instances, Notified(i) PROVE GroupInv'
<1>1. Kept(i) /\ Progress(i) /\ Listed(i) /\ DOMAIN aborted = Instances
  BY HeldBy
<1>2. CASE running[i] = {}
  <2>1. /\ rpc[i] = "notification" /\ event[i] /\ rpc' = [rpc EXCEPT ![i] = "offload"]
        /\ running' = [running EXCEPT ![i] = {}] /\ event' = [event EXCEPT ![i] = FALSE]
        /\ awaited' = [awaited EXCEPT ![i] = {}] /\ aborted' = [aborted EXCEPT ![i] = <<>>]
        /\ UNCHANGED <<manager, req, resp, lpc, returned, groups>>
    BY <1>2 DEF Notified, Leave
  <2>2. Elsewhere(i)
    BY <2>1 DEF InstInv, InstOK, Elsewhere
  <2>3. Told(i) /\ Empty(i)
    BY <1>2, <2>1, LeavesTold
  <2>4. /\ rpc'[i] = "offload" /\ running'[i] = {} /\ aborted'[i] = <<>>
        /\ New(i) = {} /\ New(i)' = {} /\ Cut(i) = {} /\ Cut(i)' = {}
    BY <1>1, <2>1, <2>3 DEF InstInv, InstOK, New, Cut, Empty, Listens
  <2>5. In(i)' = In(i) /\ Out(i)' = Out(i) /\ Answer(i)'
    BY <2>1, <2>2, SameMessages
  <2>6. Hold(i)' = Hold(i)
    BY <1>2, <2>4, <2>5 DEF Hold
  <2>7. Kept(i)'
    BY <1>1, <1>2, <2>1, <2>4, <2>5 DEF Kept, Disjoint
  <2>8. Listed(i)'
    BY <2>4, EmptyOne DEF Listed
  <2>9. Progress(i)'
    BY <1>1, <2>1, <2>4, <2>5 DEF Progress, AllReturned, NumRunning, groups
  <2>10. Done' = Done
    BY <2>1, <2>2, <2>4, SameDone DEF groups
  <2>11. Counts' /\ SameCounts(Hold(i)) /\ DOMAIN aborted' = Instances
         /\ \A j \in Instances \ {i} : aborted'[j] = aborted[j]
    BY <1>1, <2>1, UnchangedCounts
  <2> QED BY <2>2, <2>5, <2>6, <2>7, <2>8, <2>9, <2>10, <2>11, NothingDone
<1>3. CASE running[i] # {}
  <2>1. /\ rpc[i] = "notification" /\ rpc' = [rpc EXCEPT ![i] = "wait"]
        /\ event' = [event EXCEPT ![i] = FALSE] /\ awaited' = [awaited EXCEPT ![i] = running[i]]
        /\ UNCHANGED <<manager, req, resp, lpc, running, returned, aborted, groups>>
    BY <1>3 DEF Notified, LoopAgain
  <2>2. Elsewhere(i)
    BY <2>1 DEF InstInv, InstOK, Elsewhere
  <2>3. rpc'[i] = "wait" /\ New(i) = {} /\ New(i)' = {}
    BY <2>1 DEF InstInv, InstOK, New
  <2>4. In(i)' = In(i) /\ Out(i)' = Out(i) /\ Cut(i)' = Cut(i) /\ Answer(i)' /\ Listed(i)'
    BY <2>1, <2>2, SameMessages
  <2>5. Hold(i)' = Hold(i)
    BY <2>1, <2>3, <2>4 DEF Hold
  <2>6. Kept(i)'
    BY <1>1, <2>1, <2>3, <2>4 DEF Kept, Disjoint
  <2>7. Progress(i)'
    BY <1>1, <2>1, <2>3, <2>4 DEF Progress, AllReturned, NumRunning, groups
  <2>8. Done' = Done
    BY <2>1, <2>2, <2>3, SameDone DEF groups
  <2> QED BY <1>1, <2>1, <2>2, <2>4, <2>5, <2>6, <2>7, <2>8, UnchangedCounts, NothingDone
<1> QED BY <1>2, <1>3

\* The engine is offloaded.
LEMMA OffloadGroups ==
  ASSUME InstInv, GroupInv, NEW i \in Instances, Offload(i) PROVE GroupInv'
<1> DEFINE m == [act |-> "offloaded"]
<1>1. /\ rpc[i] = "offload" /\ rpc' = [rpc EXCEPT ![i] = "over"]
      /\ resp' = [resp EXCEPT ![i] = Append(resp[i], m)] /\ m.act = "offloaded"
      /\ UNCHANGED <<manager, req, lpc, running, awaited, returned, event, aborted, groups>>
  BY DEF Offload, status
<1> HIDE DEF m
<1>2. mpc = "finish" /\ i \in Leaving /\ Empty(i)
  BY <1>1 DEF InstInv, Stage, Gone, InRollout, Told
<1>3. Elsewhere(i)
  BY <1>1 DEF InstInv, InstOK, Elsewhere
<1>4. Kept(i) /\ Progress(i) /\ Listed(i) /\ DOMAIN aborted = Instances
  BY HeldBy
<1>5. resp[i] = <<>> /\ resp'[i] = <<m>> /\ rpc'[i] = "over"
  BY <1>1, <1>2, One DEF InstInv, InstOK, Empty, Listens
<1>6. Out(i) = {} /\ Out(i)' = {}
  BY <1>1, <1>5, Brings DEF Out
<1>7. In(i)' = In(i) /\ Cut(i)' = Cut(i) /\ New(i) = {} /\ New(i)' = {}
  BY <1>1, <1>5 DEF In, Cut, New
<1>8. Answer(i)'
  <2>1. resp'[i][1] = m
    BY <1>5
  <2> QED BY <1>1, <1>2, <2>1 DEF Answer, manager
<1>9. Listed(i)'
  BY <1>1, <1>4 DEF Listed, Leaving, manager
<1>10. Hold(i)' = Hold(i)
  BY <1>1, <1>6, <1>7 DEF Hold
<1>11. Kept(i)'
  BY <1>1, <1>4, <1>5, <1>6, <1>7 DEF Kept, Disjoint
<1>12. Progress(i)'
  BY <1>1, <1>4, <1>5, <1>6, <1>7 DEF Progress, AllReturned, NumRunning, groups
<1>13. Done' = Done
  BY <1>1, <1>3, <1>5, SameDone DEF groups
<1> QED BY <1>1, <1>3, <1>4, <1>8, <1>9, <1>10, <1>11, <1>12, <1>13, UnchangedCounts, NothingDone

-----------------------------------------------------------------------------
(* Steps of main_loop(), and what they do to the groups *)

\* A request that main_loop answers or works on is the only one, and brings no
\* groups.
LEMMA NothingBrought ==
  ASSUME InstInv, NEW i \in Instances, NEW act \in Kind, NEW next, Handle(i, act, next)
  PROVE  /\ Awaits(i, act) /\ resp[i] = <<>> /\ lpc[i] = "get" /\ req[i] # <<>>
         /\ lpc' = [lpc EXCEPT ![i] = next] /\ req' = [req EXCEPT ![i] = <<>>]
         /\ lpc'[i] = next /\ In(i) = {} /\ In(i)' = {}
<1>1. /\ lpc[i] = "get" /\ req[i] # <<>> /\ Head(req[i]).act = act /\ act # "migrate_in"
  BY DEF Handle, Kind
<1>2. ~(req[i] = <<req[i][1]>> /\ Given(i)) /\ ~(req[i] = <<req[i][1], req[i][2]>> /\ Given(i))
  BY <1>1, One, Two DEF Given
<1>3. PICK a \in Kind : Asked(i, a) /\ Awaits(i, a)
  BY <1>1, <1>2, FirstRequest
<1> DEFINE m == req[i][1]
<1>4. req[i] = <<m>> /\ m.act # "migrate_in"
  BY <1>2, <1>3 DEF Asked, Kind
<1> HIDE DEF m
<1>5. In(i) = {}
  BY <1>4, Brings DEF In
<1>6. /\ Awaits(i, act) /\ resp[i] = <<>>
      /\ lpc' = [lpc EXCEPT ![i] = next] /\ req' = [req EXCEPT ![i] = <<>>]
  BY OneRequest
<1>7. lpc'[i] = next /\ req'[i] = <<>>
  BY <1>6 DEF InstInv, InstOK
<1>8. In(i)' = {}
  BY <1>7, Brings DEF In
<1> QED BY <1>1, <1>5, <1>6, <1>7, <1>8

\* A report says nothing of the groups.
LEMMA ReportGroups ==
  ASSUME InstInv, GroupInv, NEW i \in Instances, Report(i) PROVE GroupInv'
<1> DEFINE m == [act |-> "report", running |-> NumSeqRunning(i)]
<1>1. /\ Handle(i, "report", "get") /\ resp' = [resp EXCEPT ![i] = Append(resp[i], m)]
      /\ m.act = "report"
      /\ UNCHANGED <<manager, rpc, running, awaited, returned, event, aborted, groups>>
  BY DEF Report, status
<1> HIDE DEF m
<1>2. /\ mpc = "report" /\ resp[i] = <<>> /\ lpc[i] = "get" /\ In(i) = {} /\ In(i)' = {}
      /\ lpc'[i] = "get"
      /\ req' = [req EXCEPT ![i] = <<>>] /\ lpc' = [lpc EXCEPT ![i] = "get"]
  BY <1>1, NothingBrought DEF Kind, Awaits
<1>3. Elsewhere(i)
  BY <1>1, <1>2 DEF InstInv, InstOK, Elsewhere
<1>4. Kept(i) /\ Progress(i) /\ Listed(i) /\ DOMAIN aborted = Instances
  BY HeldBy
<1>5. resp'[i] = <<m>>
  BY <1>1, <1>2, One DEF InstInv, InstOK
<1>6. Out(i) = {} /\ Out(i)' = {} /\ Cut(i) = {} /\ Cut(i)' = {} /\ New(i)' = New(i)
  BY <1>1, <1>2, <1>5, Brings DEF Out, Cut, New
<1>7. Answer(i)'
  <2>1. resp'[i][1] = m
    BY <1>5
  <2> QED BY <1>1, <1>2, <2>1 DEF Answer, manager
<1>8. Listed(i)'
  BY <1>1, <1>2, <1>4 DEF Listed, manager
<1>9. Hold(i)' = Hold(i)
  BY <1>1, <1>2, <1>6 DEF Hold
<1>10. Kept(i)'
  BY <1>1, <1>2, <1>4, <1>6 DEF Kept, Disjoint
<1>11. Progress(i)'
  BY <1>1, <1>2, <1>4, <1>6 DEF Progress, AllReturned, NumRunning, groups
<1>12. Done' = Done
  BY <1>1, <1>3, SameDone DEF groups
<1> QED BY <1>1, <1>3, <1>4, <1>7, <1>8, <1>9, <1>10, <1>11, <1>12, UnchangedCounts, NothingDone

\* Migrate_Out finds no list of an earlier one.
LEMMA HandlerGroups ==
  ASSUME InstInv, GroupInv, NEW i \in Instances, HandleMigrateOut(i) \/ HandleFinish(i)
  PROVE  GroupInv'
<1>1. UNCHANGED <<manager, resp, rpc, running, awaited, returned, event, aborted, groups>>
  BY DEF HandleMigrateOut, HandleFinish, status
<1>2. PICK act \in Kind, next \in {"abort", "finish"} :
        /\ Handle(i, act, next)
        /\ (act = "migrate_out" /\ next = "abort") \/ (act = "finish" /\ next = "finish")
  BY DEF HandleMigrateOut, HandleFinish, Kind
<1>3. /\ Awaits(i, act) /\ resp[i] = <<>> /\ lpc[i] = "get" /\ In(i) = {} /\ In(i)' = {}
      /\ lpc'[i] = next /\ req[i] # <<>>
      /\ req' = [req EXCEPT ![i] = <<>>] /\ lpc' = [lpc EXCEPT ![i] = next]
  BY <1>2, NothingBrought
<1>4. Elsewhere(i)
  BY <1>1, <1>3 DEF InstInv, InstOK, Elsewhere
<1>5. Kept(i) /\ Progress(i) /\ Listed(i) /\ DOMAIN aborted = Instances
  BY HeldBy
<1>6. act = "migrate_out" => aborted[i] = <<>>
  BY <1>3, <1>5 DEF Listed, Awaits
<1>7. Cut(i) = {} /\ Cut(i)' = {} /\ New(i)' = New(i) /\ Out(i)' = Out(i)
  BY <1>1, <1>2, <1>3, <1>6, EmptyOne DEF Cut, New, Out
<1>8. Listed(i)' /\ Answer(i)'
  BY <1>1, <1>2, <1>3, <1>5, <1>6 DEF Listed, Answer, Awaits, manager, Leaving
<1>9. Hold(i)' = Hold(i)
  BY <1>1, <1>3, <1>7 DEF Hold
<1>10. Kept(i)'
  BY <1>1, <1>3, <1>5, <1>7 DEF Kept, Disjoint
<1>11. Progress(i)'
  BY <1>1, <1>3, <1>5, <1>7 DEF Progress, AllReturned, NumRunning, groups
<1>12. Done' = Done
  BY <1>1, <1>4, SameDone DEF groups
<1> QED BY <1>1, <1>4, <1>5, <1>8, <1>9, <1>10, <1>11, <1>12, UnchangedCounts, NothingDone

\* From the abort on, sequences of running groups may be cut.
LEMMA AbortGroups ==
  ASSUME InstInv, GroupInv, NEW i \in Instances, Abort(i) PROVE GroupInv'
<1> DEFINE here == {g \in running[i] : begun[g]}
           most == Max({Size[g] : g \in Groups})
<1>1. /\ lpc[i] = "abort" /\ lpc' = [lpc EXCEPT ![i] = "drain"]
      /\ UNCHANGED <<manager, req, resp, rpc, running, awaited, returned, event, aborted>>
      /\ UNCHANGED <<begun, completed, delivered>>
  BY DEF Abort, status
<1>2. PICK hit \in [here -> 0 .. most] :
        /\ \A g \in here : hit[g] <= NumRunning(g)
        /\ cut' = [g \in Groups |-> IF g \in here THEN cut[g] + hit[g] ELSE cut[g]]
  BY DEF Abort
<1>3. /\ Kept(i) /\ Progress(i) /\ Listed(i) /\ Answer(i) /\ Counts
      /\ DOMAIN aborted = Instances /\ running[i] \subseteq Groups /\ running[i] \subseteq Hold(i)
  BY HeldBy DEF Hold
<1> HIDE DEF most
<1>4. \A g \in here : hit[g] \in Nat
  OBVIOUS
<1>5. mpc = "out" /\ i \in Leaving
  BY <1>1, InHandler
<1>6. Elsewhere(i)
  BY <1>1 DEF InstInv, InstOK, Elsewhere
<1>7. /\ lpc'[i] = "drain" /\ In(i)' = In(i) /\ Out(i)' = Out(i) /\ Cut(i)' = Cut(i)
      /\ New(i)' = New(i)
  BY <1>1 DEF InstInv, InstOK, In, Out, Cut, New
<1>8. Hold(i)' = Hold(i) /\ Kept(i)'
  BY <1>1, <1>3, <1>7 DEF Hold, Kept, Disjoint
<1>9. Listed(i)' /\ Answer(i)'
  BY <1>1, <1>3, <1>5, <1>7 DEF Listed, Answer, manager, Leaving
<1>10. ASSUME NEW g \in Groups
       PROVE  /\ cut'[g] \in Nat /\ completed[g] + cut'[g] <= Size[g] /\ cut'[g] >= cut[g]
              /\ g \notin here \/ AllReturned(g) => cut'[g] = cut[g]
  <2>1. completed[g] \in Nat /\ cut[g] \in Nat /\ completed[g] + cut[g] <= Size[g] /\ Size[g] \in Nat
    BY <1>3, MigrationAssumption DEF Counts
  <2>2. CASE g \notin here
    BY <1>2, <2>1, <2>2
  <2>3. CASE g \in here
    <3>1. cut'[g] = cut[g] + hit[g] /\ hit[g] <= Size[g] - completed[g] - cut[g]
      BY <1>2, <2>3 DEF NumRunning
    <3>2. AllReturned(g) => Size[g] - completed[g] - cut[g] = 0
      BY DEF AllReturned, NumRunning
    <3>3. hit[g] \in Nat
      BY <1>4, <2>3
    <3> HIDE DEF here
    <3> QED BY <2>1, <2>3, <3>1, <3>2, <3>3
  <2> QED BY <2>2, <2>3
<1>11. Counts'
  BY <1>1, <1>2, <1>3, <1>10 DEF Counts
<1>12. SameCounts(Hold(i))
  BY <1>1, <1>3, <1>10 DEF SameCounts
<1>13. Progress(i)'
  <2>1. \A g \in New(i)' : ~begun'[g] /\ completed'[g] = 0 /\ cut'[g] = 0
    <3>1. \A g \in New(i) : g \in Groups /\ g \notin here
      BY <1>3, HeldBy DEF Hold, Kept, Disjoint
    <3> QED BY <1>1, <1>3, <1>7, <1>10, <3>1 DEF Progress
  <2>2. \A g \in running'[i] : /\ begun'[g] /\ cut'[g] > 0 => lpc'[i] = "drain"
                               /\ ~begun'[g] /\ cut'[g] = 0 => completed'[g] = 0
    BY <1>1, <1>3, <1>7, <1>10 DEF Progress
  <2>3. \A g \in returned'[i] : begun'[g] /\ AllReturned(g)'
    BY <1>1, <1>3, <1>10 DEF Progress, Kept, AllReturned, NumRunning
  <2>4. \A g \in (Cut(i) \cup Out(i) \cup In(i))' : cut'[g] > 0
    <3>1. Cut(i) \cup Out(i) \cup In(i) \subseteq Groups
      BY HeldBy DEF Hold
    <3> QED BY <1>3, <1>7, <1>10, <3>1 DEF Progress, Counts
  <2>5. rpc'[i] = "put" => \A g \in awaited'[i] : delivered'[g] = 1
    BY <1>1, <1>3 DEF Progress
  <2> QED BY <2>1, <2>2, <2>3, <2>4, <2>5 DEF Progress
<1>14. Done' = Done
  BY <1>1, <1>6, SameDone
<1> HIDE DEF here
<1> QED BY <1>1, <1>3, <1>6, <1>8, <1>9, <1>11, <1>12, <1>13, <1>14, NothingDone

\* The list becomes the answer to Migrate_Out.
LEMMA SendAbortedGroups ==
  ASSUME InstInv, GroupInv, NEW i \in Instances, SendAborted(i) PROVE GroupInv'
<1> DEFINE a == aborted[i]
           m == [act |-> "aborted", groups |-> a]
<1>1. /\ lpc[i] = "drain" /\ lpc' = [lpc EXCEPT ![i] = "get"] /\ running[i] = {}
      /\ resp' = [resp EXCEPT ![i] = Append(resp[i], m)]
      /\ m.act = "aborted" /\ m.groups = a
      /\ UNCHANGED <<manager, req, rpc, running, awaited, returned, event, aborted, groups>>
  BY DEF SendAborted, status, Drained
<1>2. /\ Kept(i) /\ Progress(i) /\ Listed(i) /\ DOMAIN aborted = Instances
      /\ a \in Seq(Groups) /\ IsInjective(a)
  BY HeldBy DEF Listed
<1> HIDE DEF m, a
<1>3. mpc = "out" /\ i \in Leaving /\ req[i] = <<>> /\ resp[i] = <<>>
  BY <1>1, InHandler
<1>4. Elsewhere(i)
  BY <1>1 DEF InstInv, InstOK, Elsewhere
<1>5. resp'[i] = <<m>> /\ lpc'[i] = "get"
  BY <1>1, <1>3, One DEF InstInv, InstOK
<1>6. /\ Cut(i) = ToSet(a) /\ Cut(i)' = {} /\ Out(i) = {} /\ Out(i)' = ToSet(a)
      /\ In(i)' = In(i) /\ New(i)' = New(i)
  <2>1. Cut(i) = ToSet(a)
    BY <1>1 DEF Cut, a
  <2>2. Cut(i)' = {} /\ In(i)' = In(i) /\ New(i)' = New(i)
    BY <1>1, <1>5 DEF Cut, In, New
  <2>3. GroupsOf("aborted", <<>>) = {} /\ GroupsOf("aborted", <<m>>) = ToSet(a)
    BY <1>1, Brings
  <2>4. Out(i) = {} /\ Out(i)' = ToSet(a)
    BY <1>3, <1>5, <2>3 DEF Out
  <2> QED BY <2>1, <2>2, <2>4
<1>7. Answer(i)'
  <2>1. resp'[i][1] = m
    BY <1>5
  <2> QED BY <1>1, <1>2, <1>3, <2>1 DEF Answer, manager
<1>8. Listed(i)'
  BY <1>1, <1>2, <1>3, <1>5 DEF Listed, Leaving, manager
<1>9. Hold(i)' = Hold(i)
  BY <1>1, <1>6 DEF Hold
<1>10. Kept(i)'
  BY <1>1, <1>2, <1>6 DEF Kept, Disjoint
<1>11. Progress(i)'
  BY <1>1, <1>2, <1>6 DEF Progress, Kept, AllReturned, NumRunning, groups
<1>12. Done' = Done
  BY <1>1, <1>4, SameDone DEF groups
<1> QED BY <1>1, <1>2, <1>4, <1>7, <1>8, <1>9, <1>10, <1>11, <1>12, UnchangedCounts, NothingDone

\* Nothing but the event changes.
LEMMA NotifyFinishGroups ==
  ASSUME InstInv, GroupInv, NEW i \in Instances, NotifyFinish(i) PROVE GroupInv'
<1>1. /\ lpc[i] = "finish" /\ lpc' = [lpc EXCEPT ![i] = "get"]
      /\ event' = [event EXCEPT ![i] = TRUE]
      /\ UNCHANGED <<manager, req, resp, rpc, running, awaited, returned, aborted, groups>>
  BY DEF NotifyFinish
<1>2. mpc = "finish" /\ i \in Leaving
  BY <1>1, InHandler
<1>3. Kept(i) /\ Progress(i) /\ Listed(i) /\ Answer(i) /\ DOMAIN aborted = Instances
  BY HeldBy
<1>4. Elsewhere(i) /\ lpc'[i] = "get"
  BY <1>1 DEF InstInv, InstOK, Elsewhere
<1>5. /\ Cut(i) = {} /\ Cut(i)' = {} /\ Out(i)' = Out(i) /\ In(i)' = In(i)
      /\ New(i)' = New(i) /\ Hold(i)' = Hold(i)
  BY <1>1, <1>4 DEF Cut, Out, In, New, Hold
<1>6. Listed(i)' /\ Answer(i)'
  BY <1>1, <1>2, <1>3 DEF Listed, Answer, Leaving, manager
<1>7. Kept(i)'
  BY <1>1, <1>3, <1>5 DEF Kept, Disjoint
<1>8. Progress(i)'
  BY <1>1, <1>3, <1>4, <1>5 DEF Progress, AllReturned, NumRunning, groups
<1>9. Done' = Done
  BY <1>1, <1>4, SameDone DEF groups
<1> QED BY <1>1, <1>3, <1>4, <1>5, <1>6, <1>7, <1>8, <1>9, UnchangedCounts, NothingDone

\* The first request brings groups, what is behind it does not.
LEMMA Brought ==
  ASSUME InstInv, NEW i \in Instances, lpc[i] = "get", req[i] # <<>>,
         Head(req[i]).act = "migrate_in", req' = [req EXCEPT ![i] = Tail(@)]
  PROVE  /\ In(i) = ToSet(Head(req[i]).groups) /\ In(i)' = {}
         /\ rpc[i] # "new" /\ InRollout(i) /\ resp[i] = <<>>
<1>1. req'[i] = Tail(req[i]) /\ InRollout(i) /\ resp[i] = <<>>
  BY FirstRequest DEF InstInv, InstOK
<1> DEFINE m == req[i][1]
           n == req[i][2]
<1>2. CASE req[i] = <<m>> /\ Given(i)
  <2>1. req[i] = <<m>> /\ rpc[i] # "new"
    BY <1>2 DEF Given
  <2> HIDE DEF m
  <2>2. Head(req[i]) = m /\ Tail(req[i]) = <<>>
    BY <2>1, One
  <2> QED BY <1>1, <2>1, <2>2, Brings DEF In
<1>3. CASE req[i] = <<m, n>> /\ Given(i) /\ n.act \in Kind
  <2>1. req[i] = <<m, n>> /\ rpc[i] # "new" /\ n.act # "migrate_in"
    BY <1>3 DEF Given, Kind
  <2> HIDE DEF m, n
  <2>2. Head(req[i]) = m /\ Tail(req[i]) = <<n>>
    BY <2>1, Two
  <2>3. In(i) = GroupsOf("migrate_in", <<m, n>>) /\ In(i)' = GroupsOf("migrate_in", <<n>>)
    BY <1>1, <2>1, <2>2 DEF In
  <2>4. GroupsOf("migrate_in", <<m, n>>) = GroupsOf("migrate_in", <<m>>)
    <3>1. \A x, y : y.act # "migrate_in"
                    => GroupsOf("migrate_in", <<x, y>>) = GroupsOf("migrate_in", <<x>>)
      BY Brings
    <3> QED BY <2>1, <3>1
  <2>5. GroupsOf("migrate_in", <<m>>) = ToSet(m.groups)
    <3>1. m.act = "migrate_in"
      BY <2>2
    <3> QED BY <3>1, Brings
  <2>6. GroupsOf("migrate_in", <<n>>) = {}
    BY <2>1, Brings
  <2> QED BY <1>1, <2>1, <2>2, <2>3, <2>4, <2>5, <2>6
<1>4. \/ req[i] = <<m>> /\ Given(i)
      \/ req[i] = <<m, n>> /\ Given(i) /\ n.act \in Kind
  <2>1. CASE req[i] = <<m>> /\ Given(i)
    BY <2>1
  <2>2. CASE \E act \in Kind : Asked(i, act) /\ Awaits(i, act)
    <3>1. PICK act \in Kind : Asked(i, act)
      BY <2>2
    <3>2. ~(req[i] = <<m>> /\ m.act \in Kind)
      <4> SUFFICES ASSUME req[i] = <<m>>, m.act \in Kind PROVE FALSE
        OBVIOUS
      <4> HIDE DEF m
      <4>1. Head(req[i]) = m
        BY One
      <4> QED BY <4>1 DEF Kind
    <3> QED BY <3>1, <3>2 DEF Asked
  <2> QED BY <2>1, <2>2, FirstRequest
<1> HIDE DEF m, n
<1> QED BY <1>2, <1>3, <1>4

\* The groups run again, and begin from what they had.
LEMMA MigrateInGroups ==
  ASSUME InstInv, GroupInv, NEW i \in Instances, HandleMigrateIn(i) PROVE GroupInv'
<1> DEFINE gs == ToSet(Head(req[i]).groups)
<1>1. /\ lpc[i] = "get" /\ req[i] # <<>> /\ Head(req[i]).act = "migrate_in"
      /\ req' = [req EXCEPT ![i] = Tail(@)] /\ lpc' = [lpc EXCEPT ![i] = "get"]
      /\ \E e : event' = [event EXCEPT ![i] = e]
      /\ running' = [running EXCEPT ![i] = running[i] \cup gs]
      /\ begun' = [g \in Groups |-> begun[g] /\ g \notin gs]
      /\ UNCHANGED <<manager, resp, rpc, aborted, awaited, returned, completed, cut, delivered>>
  BY DEF HandleMigrateIn, Handle
<1>2. In(i) = gs /\ In(i)' = {} /\ rpc[i] # "new" /\ InRollout(i) /\ resp[i] = <<>>
  BY <1>1, Brought
<1> HIDE DEF gs
<1>3. /\ Kept(i) /\ Progress(i) /\ Listed(i) /\ Counts /\ DOMAIN aborted = Instances
      /\ running[i] \subseteq Groups /\ gs \subseteq Hold(i) /\ gs \subseteq Groups
  BY <1>2, HeldBy DEF Hold
<1>4. Elsewhere(i) /\ lpc'[i] = "get" /\ running'[i] = running[i] \cup gs
  BY <1>1 DEF InstInv, InstOK, Elsewhere
<1>5. /\ Cut(i) = {} /\ Cut(i)' = {} /\ Out(i) = {} /\ Out(i)' = {}
      /\ New(i) = {} /\ New(i)' = {}
  BY <1>1, <1>2, <1>4, Brings DEF Cut, Out, New
<1>6. Hold(i)' = Hold(i)
  BY <1>2, <1>4, <1>5 DEF Hold
<1>7. Kept(i)'
  BY <1>1, <1>2, <1>3, <1>4, <1>5 DEF Kept, Disjoint, InRollout
<1>8. Listed(i)' /\ Answer(i)'
  BY <1>1, <1>2, <1>3, <1>4 DEF Listed, Answer, manager, Leaving
<1>9. Counts' /\ SameCounts(Hold(i))
  BY <1>1, <1>3 DEF Counts, SameCounts
<1>10. Progress(i)'
  <2>1. \A g \in running'[i] : /\ begun'[g] /\ cut'[g] > 0 => lpc'[i] = "drain"
                               /\ ~begun'[g] /\ cut'[g] = 0 => completed'[g] = 0
    <3>1. \A g \in gs : ~begun'[g] /\ cut[g] > 0
      BY <1>1, <1>2, <1>3 DEF Progress
    <3>2. \A g \in running[i] : g \notin gs /\ begun'[g] = begun[g]
      BY <1>1, <1>2, <1>3 DEF Kept, Disjoint, Counts
    <3>3. \A g \in running[i] : begun[g] /\ cut[g] > 0 => lpc'[i] = "drain"
      BY <1>1, <1>3 DEF Progress
    <3>4. \A g \in gs : cut[g] \in Nat
      BY <1>3 DEF Counts
    <3>5. /\ cut' = cut /\ completed' = completed
          /\ \A g \in running[i] : ~begun[g] /\ cut[g] = 0 => completed[g] = 0
      BY <1>1, <1>3 DEF Progress
    <3> QED BY <1>4, <3>1, <3>2, <3>3, <3>4, <3>5
  <2>2. \A g \in returned'[i] : begun'[g] /\ AllReturned(g)'
    BY <1>1, <1>2, <1>3 DEF Progress, Kept, Disjoint, AllReturned, NumRunning
  <2> QED BY <1>1, <1>2, <1>3, <1>5, <2>1, <2>2 DEF Progress
<1>11. Done' = Done
  BY <1>1, <1>4, SameDone
<1> QED BY <1>1, <1>3, <1>4, <1>6, <1>7, <1>8, <1>9, <1>10, <1>11, NothingDone

-----------------------------------------------------------------------------
(* Tasks of sequence groups *)

\* Everybody's groups are where they were.
LEMMA CountsOnly ==
  ASSUME GroupInv, UNCHANGED <<manager, req, resp, loops, status, delivered>>, Counts',
         \A i \in Instances : Progress(i)', \A g \in Moving : cut'[g] > 0
  PROVE  GroupInv'
<1>1. UNCHANGED <<mpc, offset, leaving, moving, req, resp, rpc, lpc, running, aborted, awaited,
                  returned, delivered>>
  BY DEF manager, loops, status
<1>2. \A i \in Instances : /\ New(i)' = New(i) /\ Cut(i)' = Cut(i) /\ Out(i)' = Out(i)
                           /\ In(i)' = In(i) /\ Hold(i)' = Hold(i)
  BY <1>1 DEF New, Cut, Out, In, Hold
<1>3. Moving' = Moving /\ Done' = Done /\ Leaving' = Leaving
  BY <1>1 DEF Moving, Done, Leaving
<1>4. Whole' /\ Apart' /\ Manages'
  BY <1>1, <1>2, <1>3 DEF GroupInv, Whole, Apart, Manages
<1>5. \A i \in Instances : Kept(i)' /\ Listed(i)' /\ Answer(i)'
  BY <1>1, <1>2, <1>3 DEF GroupInv, Kept, Listed, Answer
<1>6. DOMAIN aborted' = Instances /\ \A g \in Moving' : cut'[g] > 0
  BY <1>1, <1>3 DEF GroupInv
<1> QED BY <1>4, <1>5, <1>6 DEF GroupInv

\* One more sequence has finished: its group runs and has not returned.
LEMMA SequenceGroups ==
  ASSUME GroupInv, NEW g \in Groups, SequenceDone(g) PROVE GroupInv'
<1>1. /\ begun[g] /\ NumRunning(g) > 0 /\ completed' = [completed EXCEPT ![g] = @ + 1]
      /\ UNCHANGED <<manager, req, resp, loops, status, begun, cut, delivered>>
      /\ UNCHANGED <<lpc, rpc, running, returned, awaited>>
  BY DEF SequenceDone, loops, status
<1>2. Counts /\ completed[g] + cut[g] < Size[g] /\ Size[g] \in Nat
      /\ completed[g] \in Nat /\ cut[g] \in Nat
  <2>1. Counts
    BY DEF GroupInv
  <2>2. completed[g] \in Nat /\ cut[g] \in Nat /\ Size[g] \in Nat
    BY <2>1, MigrationAssumption DEF Counts
  <2> QED BY <1>1, <2>1, <2>2 DEF NumRunning
<1>3. Counts'
  BY <1>1, <1>2 DEF Counts
<1>4. \A h \in Groups \ {g} : completed'[h] = completed[h]
  BY <1>1, <1>2 DEF Counts
<1>5. ASSUME NEW i \in Instances PROVE Progress(i)'
  <2>1. Progress(i) /\ Kept(i) /\ Hold(i) \subseteq Groups
    BY HeldBy
  <2>2. g \notin New(i) /\ g \notin returned[i]
    <3>1. ~AllReturned(g)
      BY <1>1, <1>2 DEF AllReturned, NumRunning
    <3> QED BY <1>1, <2>1, <3>1 DEF Progress
  <2>3. /\ New(i)' = New(i) /\ Cut(i)' = Cut(i) /\ Out(i)' = Out(i) /\ In(i)' = In(i)
        /\ New(i) \subseteq Groups /\ running[i] \subseteq Groups /\ returned[i] \subseteq Groups
    BY <1>1, <2>1 DEF New, Cut, Out, In, loops, status, Hold, Kept
  <2> QED BY <1>1, <1>4, <2>1, <2>2, <2>3 DEF Progress, AllReturned, NumRunning
<1>6. \A h \in Moving : cut'[h] > 0
  BY <1>1 DEF GroupInv
<1> QED BY <1>1, <1>3, <1>5, <1>6, CountsOnly

\* The coroutine of a group begins: none of its sequences is cut any more.
LEMMA BeginGroups ==
  ASSUME GroupInv, NEW i \in Instances, NEW g \in Groups, BeginTask(i, g) PROVE GroupInv'
<1>1. /\ g \in running[i] /\ ~begun[g] /\ begun' = [begun EXCEPT ![g] = TRUE]
      /\ cut' = [cut EXCEPT ![g] = 0]
      /\ UNCHANGED <<manager, req, resp, loops, status, delivered>>
      /\ UNCHANGED <<lpc, rpc, running, returned, awaited>>
  BY DEF BeginTask, loops, status
<1>2. PICK full \in 0 .. cut[g] : completed' = [completed EXCEPT ![g] = @ + full]
  BY DEF BeginTask
<1>3. /\ Counts /\ completed[g] \in Nat /\ cut[g] \in Nat /\ full \in Nat /\ full <= cut[g]
      /\ completed[g] + cut[g] <= Size[g] /\ Size[g] \in Nat
  BY MigrationAssumption DEF GroupInv, Counts
<1>4. Counts'
  <2>1. (completed[g] + full) + 0 <= Size[g]
    BY <1>3
  <2> QED BY <1>1, <1>2, <1>3, <2>1 DEF Counts
<1>5. /\ \A h \in Groups \ {g} : completed'[h] = completed[h] /\ cut'[h] = cut[h] /\ begun'[h] = begun[h]
      /\ begun'[g] /\ cut'[g] = 0
  BY <1>1, <1>2, <1>3 DEF Counts
<1>6. g \in Hold(i) /\ \A j \in Instances \ {i} : g \notin Hold(j)
  BY <1>1 DEF Hold, GroupInv, Apart
<1>7. ASSUME NEW j \in Instances PROVE Progress(j)'
  <2>1. Progress(j) /\ Kept(j) /\ Hold(j) \subseteq Groups
    BY HeldBy
  <2>2. g \notin New(j) \cup returned[j] \cup Cut(j) \cup Out(j) \cup In(j)
    <3>1. CASE j = i
      BY <1>1, <2>1, <3>1 DEF Kept, Disjoint, Progress
    <3>2. CASE j # i
      BY <1>6, <2>1, <3>2 DEF Hold, Kept
    <3> QED BY <3>1, <3>2
  <2>3. /\ New(j)' = New(j) /\ Cut(j)' = Cut(j) /\ Out(j)' = Out(j) /\ In(j)' = In(j)
        /\ New(j) \subseteq Groups /\ running[j] \subseteq Groups /\ returned[j] \subseteq Groups
        /\ Cut(j) \cup Out(j) \cup In(j) \subseteq Groups
    BY <1>1, <2>1 DEF New, Cut, Out, In, loops, status, Hold, Kept
  <2> QED BY <1>1, <1>5, <2>1, <2>2, <2>3 DEF Progress, AllReturned, NumRunning
<1>8. \A h \in Moving : cut'[h] > 0
  <2>1. g \notin Moving /\ Moving \subseteq Groups
    BY <1>6 DEF GroupInv, Apart, Whole
  <2> QED BY <1>5, <2>1 DEF GroupInv
<1> QED BY <1>1, <1>4, <1>7, <1>8, CountsOnly

-----------------------------------------------------------------------------
(* Steps of the manager, and what they do to the groups *)

\* What is on its way to or from an instance.
Travel(i) == In(i) \cup Out(i)

\* A step that moves groups between the manager and the messages.
LEMMA Moved ==
  ASSUME GroupInv, UNCHANGED <<loops, status, groups>>, Manages',
         \A i \in Instances : Answer(i)' /\ Listed(i)' /\ In(i)' \cap Out(i)' = {},
         \A i \in Instances : Travel(i)' \subseteq Travel(i) \cup Moving,
         \A i \in Instances : Travel(i)' \cap Moving' = {},
         \A i, j \in Instances : i # j => Travel(i)' \cap Travel(j)' = {},
         Moving' \subseteq Moving \cup UNION {Travel(i) : i \in Instances},
         Moving \cup UNION {Travel(i) : i \in Instances}
           \subseteq Moving' \cup UNION {Travel(i)' : i \in Instances}
  PROVE  GroupInv'
<1> DEFINE Stays(i) == New(i) \cup running[i] \cup Cut(i)
<1>1. UNCHANGED <<rpc, lpc, running, aborted, awaited, returned, begun, delivered, completed, cut>>
  BY DEF loops, status, groups
<1>2. /\ Whole /\ Apart /\ Counts /\ (\A g \in Moving : cut[g] > 0) /\ DOMAIN aborted = Instances
      /\ \A i \in Instances : Kept(i) /\ Progress(i)
  BY DEF GroupInv
<1>3. Done' = Done /\ \A i \in Instances : New(i)' = New(i) /\ Cut(i)' = Cut(i)
  BY <1>1 DEF Done, New, Cut
<1>4. \A i \in Instances : Hold(i) = Stays(i) \cup Travel(i) /\ Hold(i)' = Stays(i) \cup Travel(i)'
  BY <1>1, <1>3 DEF Hold, Travel
<1>5. /\ \A i, j \in Instances : i # j =>
           /\ Stays(i) \cap Stays(j) = {} /\ Stays(i) \cap Travel(j) = {}
           /\ Travel(i) \cap Travel(j) = {}
      /\ \A i \in Instances : /\ Stays(i) \cap Moving = {} /\ Stays(i) \cap Done = {}
                              /\ Travel(i) \cap Moving = {} /\ Travel(i) \cap Done = {}
      /\ \A i \in Instances : Stays(i) \cap Travel(i) = {}
      /\ Moving \cap Done = {}
  <2>1. \A i \in Instances : Stays(i) \cap Travel(i) = {}
    BY <1>2 DEF Kept, Disjoint, Travel
  <2> HIDE DEF Stays
  <2>2. \A i, j \in Instances : i # j => Hold(i) \cap Hold(j) = {}
    BY <1>2 DEF Apart
  <2>3. \A i \in Instances : Hold(i) \cap Moving = {} /\ Hold(i) \cap Done = {}
    BY <1>2 DEF Apart
  <2>4. Moving \cap Done = {}
    BY <1>2 DEF Apart
  <2> QED BY <1>4, <2>1, <2>2, <2>3, <2>4
<1>6. \A i, j \in Instances : Stays(i) \cap Travel(j)' = {}
  <2> SUFFICES ASSUME NEW i \in Instances, NEW j \in Instances, NEW g \in Stays(i), g \in Travel(j)'
               PROVE  FALSE
    OBVIOUS
  <2> HIDE DEF Stays
  <2>1. g \in Travel(j) \cup Moving
    OBVIOUS
  <2> QED BY <1>5, <2>1
<1> HIDE DEF Stays
<1>7. Whole'
  <2>1. Groups = (UNION {Stays(i) \cup Travel(i) : i \in Instances}) \cup Moving \cup Done
    BY <1>2, <1>4 DEF Whole
  <2>2. Groups = (UNION {Stays(i) : i \in Instances})
                 \cup (Moving \cup UNION {Travel(i) : i \in Instances}) \cup Done
    BY <2>1
  <2>3. Moving' \cup UNION {Travel(i)' : i \in Instances}
          = Moving \cup UNION {Travel(i) : i \in Instances}
    OBVIOUS
  <2>4. Groups = (UNION {Stays(i) \cup Travel(i)' : i \in Instances}) \cup Moving' \cup Done'
    BY <1>3, <2>2, <2>3
  <2> QED BY <1>4, <2>4 DEF Whole
<1>8. Apart'
  <2>1. \A i, j \in Instances : i # j => Hold(i)' \cap Hold(j)' = {}
    BY <1>4, <1>5, <1>6
  <2>2. Moving' \cap Done' = {}
    BY <1>3, <1>5
  <2>3. ASSUME NEW i \in Instances PROVE Hold(i)' \cap Moving' = {} /\ Hold(i)' \cap Done' = {}
    <3>1. Stays(i) \cap Moving' = {}
      <4>1. \A j \in Instances : Stays(i) \cap Travel(j) = {}
        BY <1>5
      <4> QED BY <1>5, <4>1
    <3>2. Travel(i)' \cap Done' = {}
      BY <1>3, <1>5
    <3> QED BY <1>3, <1>4, <1>5, <3>1, <3>2
  <2> QED BY <2>1, <2>2, <2>3 DEF Apart
<1>9. \A i \in Instances : Kept(i)'
  BY <1>1, <1>2, <1>3, <1>6 DEF Kept, Disjoint, Stays, Travel
<1>10. \A i \in Instances : \A g \in Travel(i) : cut[g] > 0
  BY <1>2 DEF Progress, Travel
<1>11. \A g \in Moving' : cut'[g] > 0
  BY <1>1, <1>2, <1>10
<1>12. ASSUME NEW i \in Instances PROVE Progress(i)'
  <2>1. \A g \in Travel(i)' : cut[g] > 0
    BY <1>2, <1>10
  <2> QED BY <1>1, <1>2, <1>3, <2>1 DEF Progress, Travel, AllReturned, NumRunning
<1>13. Counts'
  BY <1>1, <1>2 DEF Counts
<1> QED BY <1>1, <1>2, <1>7, <1>8, <1>9, <1>11, <1>12, <1>13 DEF GroupInv

\* A step that changes other messages than those that bring groups.
LEMMA OtherMessages ==
  ASSUME GroupInv, UNCHANGED <<loops, status, groups, moving>>, Manages',
         \A i \in Instances : Answer(i)' /\ Listed(i)' /\ In(i)' = In(i) /\ Out(i)' = Out(i)
  PROVE  GroupInv'
<1>1. Moving' = Moving /\ \A i \in Instances : Travel(i)' = Travel(i)
  BY DEF Moving, Travel
<1>2. /\ \A i, j \in Instances : i # j => Travel(i) \cap Travel(j) = {}
      /\ \A i \in Instances : Travel(i) \cap Moving = {} /\ In(i) \cap Out(i) = {}
  BY DEF GroupInv, Apart, Hold, Travel, Kept, Disjoint
<1>3. \A i \in Instances : Answer(i)' /\ Listed(i)' /\ In(i)' \cap Out(i)' = {}
  BY <1>2
<1>4. /\ \A i \in Instances : Travel(i)' \subseteq Travel(i) \cup Moving
      /\ \A i \in Instances : Travel(i)' \cap Moving' = {}
      /\ \A i, j \in Instances : i # j => Travel(i)' \cap Travel(j)' = {}
  BY <1>1, <1>2
<1>5. /\ Moving' \subseteq Moving \cup UNION {Travel(i) : i \in Instances}
      /\ Moving \cup UNION {Travel(i) : i \in Instances}
           \subseteq Moving' \cup UNION {Travel(i)' : i \in Instances}
  BY <1>1
<1> QED BY <1>3, <1>4, <1>5, Moved

\* Between two rounds of the manager nobody owes it an answer.
LEMMA AtRest ==
  ASSUME InstInv, mpc \in {"idle", "reported"}, NEW i \in Instances PROVE Rest(i)
<1>1. CASE i >= offset
  BY <1>1, BeforeFinish DEF Told, Talk, Empty, Rest
<1>2. CASE i < offset
  BY <1>2 DEF InstInv, InstOK, Instances, Stage, Told, Empty, Rest
<1> QED BY <1>1, <1>2 DEF InstInv, InstOK, Instances

\* An answer is one message.
LEMMA OneAnswer ==
  ASSUME InstInv, NEW i \in Instances, resp[i] # <<>> PROVE resp[i] = <<resp[i][1]>>
<1>1. ~Empty(i) /\ ~Rest(i) /\ (\A act : ~Asked(i, act)) /\ \A where : ~Working(i, where)
  BY DEF Empty, Rest, Asked, Listens, Working
<1>2. CASE Told(i)
  BY <1>1, <1>2 DEF InstInv, Stage, Talk, Told, Answered
<1>3. CASE ~Told(i)
  <2>1. i >= offset /\ Talk(i)
    BY <1>1, <1>3 DEF InstInv, Stage
  <2>2. mpc # "over" /\ mpc \in {"idle", "report", "reported", "out", "in", "finish", "over"}
    BY <2>1, MigrationAssumption DEF InstInv, InstOK, Instances
  <2> QED BY <1>1, <2>1, <2>2 DEF Talk, Answered
<1> QED BY <1>2, <1>3

\* The manager asks for something.
LEMMA AskGroups ==
  ASSUME InstInv, GroupInv, mpc \in {"idle", "reported"}, mpc' \in {"report", "out", "finish"},
         UNCHANGED <<offset, moving, resp, loops, status, groups>>,
         mpc' = "out" => leaving' \in 1 .. N - offset - 1,
         NEW ids, NEW m, \A i \in Instances : m[i].act # "migrate_in",
         req' = [i \in Instances |-> IF i \in ids THEN Append(req[i], m[i]) ELSE req[i]]
  PROVE  GroupInv'
<1>1. Manages'
  BY DEF GroupInv, Manages
<1>2. ASSUME NEW i \in Instances PROVE Answer(i)' /\ Listed(i)' /\ In(i)' = In(i) /\ Out(i)' = Out(i)
  <2>1. Listed(i) /\ Rest(i)
    BY AtRest DEF GroupInv
  <2>2. resp[i] = <<>> /\ aborted[i] = <<>> /\ (req[i] = <<>> \/ req[i] = <<req[i][1]>>)
    BY <2>1 DEF Rest, Listens, Listed
  <2>3. Answer(i)' /\ Listed(i)'
    BY <2>1, <2>2 DEF Answer, Listed, status
  <2>4. In(i)' = In(i)
    <3>1. CASE i \in ids
      <4> DEFINE n == m[i]
      <4>1. req'[i] = Append(req[i], n) /\ n.act # "migrate_in"
        BY <3>1
      <4> HIDE DEF n
      <4> DEFINE q == req[i]
      <4>2. q = <<>> \/ q = <<q[1]>>
        BY <2>2
      <4> HIDE DEF q
      <4>3. GroupsOf("migrate_in", Append(q, n)) = GroupsOf("migrate_in", q)
        BY <4>1, <4>2, BringsNoMore
      <4> QED BY <4>1, <4>3 DEF In, q
    <3>2. CASE i \notin ids
      BY <3>2 DEF In
    <3> QED BY <3>1, <3>2
  <2> QED BY <2>3, <2>4 DEF Out
<1> QED BY <1>1, <1>2, OtherMessages

LEMMA AskReportsGroups == ASSUME InstInv, GroupInv, AskReports PROVE GroupInv'
<1> DEFINE m == ReportRequest
<1>1. /\ mpc \in {"idle", "reported"} /\ mpc' = "report"
      /\ UNCHANGED <<offset, moving, resp, loops, status, groups>>
      /\ req' = [i \in Instances |-> IF i \in Alive THEN Append(req[i], m[i]) ELSE req[i]]
  BY DEF AskReports, Scatter
<1>2. \A i \in Instances : m[i].act # "migrate_in"
  BY DEF ReportRequest
<1> HIDE DEF m
<1> QED BY <1>1, <1>2, AskGroups

LEMMA FinishAllGroups == ASSUME InstInv, GroupInv, FinishAll PROVE GroupInv'
<1> DEFINE m == FinishRequest
<1>1. /\ mpc \in {"idle", "reported"} /\ mpc' = "finish"
      /\ UNCHANGED <<offset, moving, resp, loops, status, groups>>
      /\ req' = [i \in Instances |-> IF i \in Alive THEN Append(req[i], m[i]) ELSE req[i]]
  BY DEF FinishAll, Scatter
<1>2. \A i \in Instances : m[i].act # "migrate_in"
  BY DEF FinishRequest
<1> HIDE DEF m
<1> QED BY <1>1, <1>2, AskGroups

LEMMA MigrateGroups == ASSUME InstInv, GroupInv, NEW n \in 1 .. N, Migrate(n) PROVE GroupInv'
<1> DEFINE m == OutRequest
           ids == offset .. offset + n - 1
<1>1. /\ mpc \in {"idle", "reported"} /\ mpc' = "out" /\ leaving' = n
      /\ UNCHANGED <<offset, moving, resp, loops, status, groups>>
      /\ req' = [i \in Instances |-> IF i \in ids THEN Append(req[i], m[i]) ELSE req[i]]
  BY DEF Migrate, Scatter
<1>2. \A i \in Instances : m[i].act # "migrate_in"
  BY DEF OutRequest
<1>3. leaving' \in 1 .. N - offset - 1
  <2>1. n < N - offset
    BY AliveCount DEF Migrate
  <2> QED BY <1>1, <2>1, MigrationAssumption DEF InstInv, InstOK
<1> HIDE DEF m, ids
<1> QED BY <1>1, <1>2, <1>3, AskGroups

\* The manager takes answers that bring nothing.
LEMMA AnsweredGroups ==
  ASSUME InstInv, GroupInv, mpc \in {"report", "finish"}, mpc' \notin {"out", "in"},
         UNCHANGED <<moving, req, loops, status, groups>>,
         NEW ids, \A i \in Instances : i \in ids <=> resp[i] # <<>>,
         resp' = [i \in Instances |-> IF i \in ids THEN Tail(resp[i]) ELSE resp[i]],
         \A i \in Instances : aborted[i] = <<>>
  PROVE  GroupInv'
<1>1. Manages'
  BY DEF GroupInv, Manages
<1>2. ASSUME NEW i \in Instances PROVE Answer(i)' /\ Listed(i)' /\ In(i)' = In(i) /\ Out(i)' = Out(i)
  <2>1. Listed(i) /\ Answer(i)
    BY DEF GroupInv
  <2>2. resp'[i] = <<>> /\ Out(i) = {}
    <3>1. CASE resp[i] = <<>>
      BY <3>1, Brings DEF Out
    <3>2. CASE resp[i] # <<>>
      <4> DEFINE n == resp[i][1]
      <4>1. resp[i] = <<n>> /\ n.act # "aborted"
        BY <2>1, <3>2, OneAnswer DEF Answer
      <4> HIDE DEF n
      <4>2. Tail(resp[i]) = <<>>
        BY <4>1, One
      <4>3. GroupsOf("aborted", <<n>>) = {}
        BY <4>1, Brings
      <4> QED BY <3>2, <4>1, <4>2, <4>3 DEF Out
    <3> QED BY <3>1, <3>2
  <2>3. Answer(i)' /\ Listed(i)'
    BY <2>1, <2>2 DEF Answer, Listed, status
  <2>4. In(i)' = In(i) /\ Out(i)' = {}
    BY <2>2, Brings DEF In, Out
  <2> QED BY <2>2, <2>3, <2>4
<1> QED BY <1>1, <1>2, OtherMessages

LEMMA GatherReportsGroups == ASSUME InstInv, GroupInv, GatherReports PROVE GroupInv'
<1> DEFINE ids == Alive
<1>1. /\ mpc = "report" /\ mpc' = "reported"
      /\ UNCHANGED <<moving, req, loops, status, groups>>
      /\ resp' = [i \in Instances |-> IF i \in ids THEN Tail(resp[i]) ELSE resp[i]]
  BY DEF GatherReports, Gather
<1>2. ASSUME NEW i \in Instances PROVE aborted[i] = <<>>
  BY <1>1 DEF GroupInv, Listed
<1>3. ASSUME NEW i \in Instances PROVE i \in ids <=> resp[i] # <<>>
  <2>1. CASE i >= offset
    BY <2>1 DEF GatherReports, CanGather, Alive, Instances, InstInv, InstOK
  <2>2. CASE i < offset
    BY <2>2 DEF Alive, Instances, InstInv, InstOK, Stage, Told, Leaving, Empty, Listens
  <2> QED BY <2>1, <2>2 DEF InstInv, InstOK, Instances
<1> HIDE DEF ids
<1> QED BY <1>1, <1>2, <1>3, AnsweredGroups

LEMMA GatherOffloadedGroups == ASSUME InstInv, GroupInv, GatherOffloaded PROVE GroupInv'
<1> DEFINE ids == Leaving
<1>1. /\ mpc = "finish" /\ mpc' \in {"over", "idle"}
      /\ UNCHANGED <<moving, req, loops, status, groups>>
      /\ \A i \in Leaving : resp[i] # <<>>
      /\ resp' = [i \in Instances |-> IF i \in ids THEN Tail(resp[i]) ELSE resp[i]]
  BY DEF GatherOffloaded, Gather, CanGather
<1>2. ASSUME NEW i \in Instances PROVE aborted[i] = <<>>
  <2>1. CASE i \in Leaving
    <3>1. Gone(i)
      BY <1>1, <2>1 DEF InstInv, InstOK, Stage, Talk, Asked, Working, Empty, Listens
    <3> QED BY <3>1 DEF Gone, GroupInv, Kept
  <2>2. CASE i \notin Leaving
    BY <1>1, <2>2 DEF GroupInv, Listed
  <2> QED BY <2>1, <2>2
<1>3. ASSUME NEW i \in Instances PROVE i \in ids <=> resp[i] # <<>>
  <2>1. CASE i \in Leaving
    BY <1>1, <2>1
  <2>2. CASE i \notin Leaving
    BY <1>1, <2>2 DEF InstInv, Stage, Told, Talk, Rest, Empty, Listens
  <2> QED BY <2>1, <2>2
<1> HIDE DEF ids
<1> QED BY <1>1, <1>2, <1>3, AnsweredGroups

-----------------------------------------------------------------------------
(* The lists of all answers, one after the other *)

\* The groups of the first k lists.
FirstOnes(seqs, k) == UNION {ToSet(seqs[j]) : j \in 1 .. k}

\* What FlattenSeq recurs on.
Flattens(h, seqs, n) ==
  h = [i \in 1 .. n |-> IF i = 1 THEN seqs[i] ELSE h[i - 1] \o seqs[i]]

LEMMA FlattenUnfolds ==
  ASSUME NEW S, NEW n \in Nat \ {0}, NEW seqs, Len(seqs) = n, \A k \in 1 .. n : seqs[k] \in Seq(S)
  PROVE  \E h : FlattenSeq(seqs) = h[n] /\ Flattens(h, seqs, n)
<1> DEFINE B == Seq(S)
           base == <<>>
           step == [p \in Nat \X B |-> IF p[1] \in 1 .. n THEN p[2] \o seqs[p[1]] ELSE p[2]]
<1>1. base \in B /\ step \in [Nat \X B -> B] /\ \A b \in B : <<>> \o b = b
  <2>1. \A p \in Nat \X B : (IF p[1] \in 1 .. n THEN p[2] \o seqs[p[1]] ELSE p[2]) \in B
    OBVIOUS
  <2> QED BY <2>1
<1>2. \A k \in 1 .. n, b \in B : step[<<k, b>>] = b \o seqs[k]
  <2> HIDE DEF B
  <2> SUFFICES ASSUME NEW k \in 1 .. n, NEW b \in B PROVE step[<<k, b>>] = b \o seqs[k]
    OBVIOUS
  <2> DEFINE p == <<k, b>>
  <2>1. p \in Nat \X B /\ p[1] = k /\ p[2] = b
    OBVIOUS
  <2> HIDE DEF p
  <2>2. step[p] = p[2] \o seqs[p[1]]
    BY <2>1
  <2> QED BY <2>1, <2>2 DEF p
<1>3. \A k \in 1 .. n : seqs[k] \in B
  OBVIOUS
<1> HIDE DEF B, base, step
<1>4. PICK f : Iterated(f, n, B, base, step)
  BY <1>1, Recursion
<1>5. f \in [0 .. n -> B] /\ f[0] = base /\ \A k \in 1 .. n : f[k] = step[<<k, f[k - 1]>>]
  BY <1>4 DEF Iterated
<1> DEFINE g == [i \in 1 .. n |-> f[i]]
<1>6. g = [i \in 1 .. n |-> IF i = 1 THEN seqs[i] ELSE g[i - 1] \o seqs[i]]
  <2>1. ASSUME NEW i \in 1 .. n PROVE f[i] = IF i = 1 THEN seqs[i] ELSE g[i - 1] \o seqs[i]
    <3>1. f[i] = f[i - 1] \o seqs[i]
      <4>1. i - 1 \in 0 .. n
        OBVIOUS
      <4> QED BY <1>2, <1>5, <4>1
    <3>2. CASE i = 1
      BY <1>1, <1>3, <1>5, <3>1, <3>2 DEF base
    <3>3. CASE i # 1
      <4>1. i - 1 \in 1 .. n
        BY <3>3
      <4> QED BY <3>1, <3>3, <4>1
    <3> QED BY <3>2, <3>3
  <2> QED BY <2>1
<1> HIDE DEF g
<1> DEFINE h == CHOOSE z : z = [i \in 1 .. n |-> IF i = 1 THEN seqs[i] ELSE z[i - 1] \o seqs[i]]
<1>7. h = [i \in 1 .. n |-> IF i = 1 THEN seqs[i] ELSE h[i - 1] \o seqs[i]]
  BY <1>6
<1>8. FlattenSeq(seqs) = h[n]
  BY DEF FlattenSeq
<1> HIDE DEF h
<1> QED BY <1>7, <1>8 DEF Flattens

\* If no group is in two of the lists, or twice in one, it is there once.
LEMMA Flatten ==
  ASSUME NEW S, NEW n \in Nat \ {0}, NEW seqs, Len(seqs) = n,
         \A k \in 1 .. n : seqs[k] \in Seq(S) /\ IsInjective(seqs[k]),
         \A j, k \in 1 .. n : j # k => ToSet(seqs[j]) \cap ToSet(seqs[k]) = {}
  PROVE  /\ FlattenSeq(seqs) \in Seq(S) /\ IsInjective(FlattenSeq(seqs))
         /\ ToSet(FlattenSeq(seqs)) = FirstOnes(seqs, n)
<1>0. \A k \in 1 .. n : seqs[k] \in Seq(S)
  OBVIOUS
<1>1. PICK h : FlattenSeq(seqs) = h[n] /\ Flattens(h, seqs, n)
  BY <1>0, FlattenUnfolds
<1> DEFINE Good(k) == h[k] \in Seq(S) /\ IsInjective(h[k]) /\ ToSet(h[k]) = FirstOnes(seqs, k)
           T == {k \in Nat : k \in 1 .. n => Good(k)}
<1>2. 0 \in T
  OBVIOUS
<1>3. ASSUME NEW k \in T \cap Nat PROVE k + 1 \in T
  <2> SUFFICES ASSUME k + 1 \in 1 .. n PROVE Good(k + 1)
    OBVIOUS
  <2>1. CASE k = 0
    <3>1. h[1] = seqs[1] /\ k + 1 = 1
      BY <1>1, <2>1 DEF Flattens
    <3>2. FirstOnes(seqs, 1) = ToSet(seqs[1])
      BY DEF FirstOnes
    <3> QED BY <3>1, <3>2
  <2>2. CASE k # 0
    <3>1. Good(k) /\ k \in 1 .. n /\ h[k + 1] = h[k] \o seqs[k + 1]
      <4>1. k \in 1 .. n /\ (k + 1) - 1 = k /\ k + 1 # 1
        BY <2>2
      <4> QED BY <1>1, <4>1 DEF Flattens
    <3>2. FirstOnes(seqs, k + 1) = FirstOnes(seqs, k) \cup ToSet(seqs[k + 1])
      <4>1. 1 .. k + 1 = (1 .. k) \cup {k + 1}
        OBVIOUS
      <4> QED BY <4>1 DEF FirstOnes
    <3>3. FirstOnes(seqs, k) \cap ToSet(seqs[k + 1]) = {}
      <4>1. \A j \in 1 .. k : j \in 1 .. n /\ j # k + 1
        OBVIOUS
      <4> QED BY <4>1 DEF FirstOnes
    <3> DEFINE s == h[k]
               t == seqs[k + 1]
    <3>4. /\ s \in Seq(S) /\ t \in Seq(S) /\ IsInjective(s) /\ IsInjective(t)
          /\ ToSet(s) \cap ToSet(t) = {}
      BY <3>1, <3>3
    <3> HIDE DEF s, t
    <3>5. s \o t \in Seq(S) /\ IsInjective(s \o t) /\ ToSet(s \o t) = ToSet(s) \cup ToSet(t)
      BY <3>4, Joined
    <3> QED BY <3>1, <3>2, <3>5 DEF s, t
  <2> QED BY <2>1, <2>2
<1>4. n \in T
  <2> HIDE DEF T
  <2> QED BY <1>2, <1>3, Induction
<1>5. n \in 1 .. n
  OBVIOUS
<1> QED BY <1>1, <1>4, <1>5

-----------------------------------------------------------------------------
(* How the manager shares the groups out *)

\* Positions 0 = end[a] <= ... <= end[b] = m cut 1 .. m into intervals.
Cuts(end, a, b, m) ==
  /\ \A i \in a .. b : end[i] \in 0 .. m
  /\ \A i \in a + 1 .. b : end[i - 1] <= end[i]
  /\ end[a] = 0 /\ end[b] = m

LEMMA CutsGrow ==
  ASSUME NEW a \in Int, NEW b \in Int, NEW m \in Nat, NEW end, Cuts(end, a, b, m),
         NEW i \in a .. b
  PROVE  \A j \in i .. b : end[i] <= end[j]
<1> DEFINE T == {k \in Nat : i + k <= b => end[i] <= end[i + k]}
<1>0. \A j \in a .. b : end[j] \in Nat
  BY DEF Cuts
<1>1. 0 \in T
  BY <1>0
<1>2. ASSUME NEW k \in T \cap Nat PROVE k + 1 \in T
  <2> SUFFICES ASSUME i + (k + 1) <= b PROVE end[i] <= end[i + (k + 1)]
    OBVIOUS
  <2> DEFINE j == i + k
  <2>1. i + (k + 1) = j + 1 /\ j \in a .. b /\ j + 1 \in a + 1 .. b /\ (j + 1) - 1 = j /\ end[i] <= end[j]
    OBVIOUS
  <2> HIDE DEF j
  <2>2. end[j] <= end[j + 1] /\ j + 1 \in a .. b
    BY <2>1 DEF Cuts
  <2> QED BY <1>0, <2>1, <2>2
<1>3. Nat \subseteq T
  <2> HIDE DEF T
  <2> QED BY <1>1, <1>2, Induction
<1>4. ASSUME NEW j \in i .. b PROVE end[i] <= end[j]
  <2>1. j - i \in Nat /\ i + (j - i) = j /\ j <= b
    OBVIOUS
  <2> QED BY <1>3, <2>1
<1> QED BY <1>4

\* The intervals are apart and cover everything.
LEMMA CutsCover ==
  ASSUME NEW a \in Int, NEW b \in Int, a < b, NEW m \in Nat, NEW end, Cuts(end, a, b, m)
  PROVE  /\ \A i, j \in a + 1 .. b : i # j =>
              (end[i - 1] + 1 .. end[i]) \cap (end[j - 1] + 1 .. end[j]) = {}
         /\ \A n \in 1 .. m : \E i \in a + 1 .. b : n \in end[i - 1] + 1 .. end[i]
         /\ \A i \in a + 1 .. b : end[i - 1] + 1 .. end[i] \subseteq 1 .. m
<1>0. \A j \in a .. b : end[j] \in Nat /\ end[j] <= m
  BY DEF Cuts
<1>1. ASSUME NEW i \in a + 1 .. b, NEW j \in a + 1 .. b, i < j
      PROVE  (end[i - 1] + 1 .. end[i]) \cap (end[j - 1] + 1 .. end[j]) = {}
  <2>1. i \in a .. b /\ j - 1 \in i .. b /\ j - 1 \in a .. b
    BY <1>1
  <2>2. end[i] <= end[j - 1]
    BY <2>1, CutsGrow
  <2> QED BY <1>0, <2>1, <2>2
<1>2. ASSUME NEW n \in 1 .. m PROVE \E i \in a + 1 .. b : n \in end[i - 1] + 1 .. end[i]
  <2> DEFINE T == {k \in Nat : a + k <= b /\ n <= end[a + k]}
  <2>1. b - a \in T
    BY DEF Cuts
  <2>2. PICK k \in T : \A y \in T : k <= y
    <3> HIDE DEF T
    <3>1. T \subseteq Nat
      BY DEF T
    <3> QED BY <2>1, <3>1, LeastNumber
  <2>3. k # 0
    BY DEF Cuts
  <2> DEFINE i == a + k
  <2>4. i \in a + 1 .. b /\ i - 1 \in a .. b /\ n <= end[i] /\ i - 1 = a + (k - 1) /\ k - 1 \in Nat
    BY <2>3
  <2>5. ~(n <= end[i - 1])
    <3>0. k \in Nat
      OBVIOUS
    <3>1. k - 1 \notin T
      <4> HIDE DEF T
      <4> QED BY <2>2, <2>3, <3>0
    <3> QED BY <2>4, <3>1
  <2> HIDE DEF i
  <2>6. i \in a .. b
    BY <2>4
  <2> QED BY <1>0, <2>4, <2>5, <2>6
<1>3. ASSUME NEW i \in a + 1 .. b PROVE end[i - 1] + 1 .. end[i] \subseteq 1 .. m
  <2>1. i \in a .. b /\ i - 1 \in a .. b
    OBVIOUS
  <2> QED BY <1>0, <2>1
<1>4. ASSUME NEW i \in a + 1 .. b, NEW j \in a + 1 .. b, i # j
      PROVE  (end[i - 1] + 1 .. end[i]) \cap (end[j - 1] + 1 .. end[j]) = {}
  <2>1. CASE i < j
    BY <1>1, <2>1
  <2>2. CASE j < i
    <3>1. (end[j - 1] + 1 .. end[j]) \cap (end[i - 1] + 1 .. end[i]) = {}
      BY <1>1, <2>2
    <3> QED BY <3>1
  <2> QED BY <1>4, <2>1, <2>2
<1> QED BY <1>2, <1>3, <1>4

\* What is left after the first v groups.
LEMMA Later ==
  ASSUME NEW S, NEW s \in Seq(S), NEW v \in 0 .. Len(s)
  PROVE  SubSeq(s, v + 1, Len(s)) \in Seq(S) /\ Len(SubSeq(s, v + 1, Len(s))) = Len(s) - v
<1> DEFINE n == Len(s)
<1>1. n \in Nat /\ v \in Nat /\ v <= n
  OBVIOUS
<1>2. SubSeq(s, v + 1, n) \in Seq(S)
  <2>1. \A i \in v + 1 .. n : s[i] \in S
    OBVIOUS
  <2> QED BY <1>1, <2>1, SubSeqProperties
<1>3. Len(SubSeq(s, v + 1, n)) = n - v
  BY <1>1, SubSeqProperties
<1> QED BY <1>2, <1>3

\* A slice of a list has the groups of its positions.
LEMMA Slice ==
  ASSUME NEW S, NEW s \in Seq(S), NEW lo \in 0 .. Len(s), NEW hi \in lo .. Len(s)
  PROVE  /\ SubSeq(s, lo + 1, hi) \in Seq(S)
         /\ Len(SubSeq(s, lo + 1, hi)) = hi - lo
         /\ ToSet(SubSeq(s, lo + 1, hi)) = {s[n] : n \in lo + 1 .. hi}
         /\ IsInjective(s) => IsInjective(SubSeq(s, lo + 1, hi))
<1> DEFINE z == SubSeq(s, lo + 1, hi)
<1>0. Len(s) \in Nat /\ lo \in Nat /\ hi \in Nat /\ lo <= hi /\ hi <= Len(s)
  OBVIOUS
<1>1. z \in Seq(S) /\ Len(z) = hi - lo /\ \A n \in 1 .. hi - lo : z[n] = s[lo + n]
  <2>1. \A i \in lo + 1 .. hi : s[i] \in S
    OBVIOUS
  <2>2. z \in Seq(S)
    BY <1>0, <2>1, SubSeqProperties
  <2>3. Len(z) = hi - lo
    BY <1>0, SubSeqProperties
  <2>4. ASSUME NEW n \in 1 .. hi - lo PROVE z[n] = s[lo + n]
    <3> DEFINE m == lo + 1
    <3>1. m \in Int /\ hi \in Int /\ n \in 1 .. hi - m + 1 /\ m + n - 1 = lo + n
      BY <1>0
    <3>2. \A i \in m .. hi : s[i] \in S
      BY <2>1
    <3>3. \A i \in 1 .. hi - m + 1 : SubSeq(s, m, hi)[i] = s[m + i - 1]
      <4> HIDE DEF m
      <4> QED BY <3>1, <3>2, SubSeqProperties
    <3> QED BY <3>1, <3>3
  <2> QED BY <2>2, <2>3, <2>4
<1> HIDE DEF z
<1>2. ToSet(z) = {z[n] : n \in 1 .. hi - lo}
  BY <1>1 DEF ToSet
<1>3. {z[n] : n \in 1 .. hi - lo} = {s[n] : n \in lo + 1 .. hi}
  <2>1. ASSUME NEW n \in lo + 1 .. hi PROVE \E k \in 1 .. hi - lo : z[k] = s[n]
    <3>1. n - lo \in 1 .. hi - lo /\ lo + (n - lo) = n
      BY <1>0
    <3> QED BY <1>1, <3>1
  <2>2. ASSUME NEW k \in 1 .. hi - lo PROVE \E n \in lo + 1 .. hi : z[k] = s[n]
    <3>1. lo + k \in lo + 1 .. hi
      BY <1>0
    <3> QED BY <1>1, <3>1
  <2>3. {z[n] : n \in 1 .. hi - lo} \subseteq {s[n] : n \in lo + 1 .. hi}
    BY <2>2
  <2>4. {s[n] : n \in lo + 1 .. hi} \subseteq {z[n] : n \in 1 .. hi - lo}
    BY <2>1, Zenon
  <2> QED BY <2>3, <2>4
<1>4. ASSUME IsInjective(s) PROVE IsInjective(z)
  <2>1. \A m, n \in 1 .. Len(s) : s[m] = s[n] => m = n
    BY <1>4, Element
  <2> SUFFICES ASSUME NEW m \in 1 .. hi - lo, NEW n \in 1 .. hi - lo, z[m] = z[n] PROVE m = n
    BY <1>1, Element
  <2>2. lo + m \in 1 .. Len(s) /\ lo + n \in 1 .. Len(s) /\ s[lo + m] = s[lo + n]
    BY <1>0, <1>1
  <2>3. lo + m = lo + n
    BY <2>1, <2>2
  <2> QED BY <1>0, <2>3
<1> QED BY <1>1, <1>2, <1>3, <1>4 DEF z

\* An instance takes what there is, or less.
LEMMA TakesSome ==
  ASSUME NEW S, NEW rest \in Seq(S), NEW r PROVE Takes(rest, r) \in 0 .. Len(rest)
<1> DEFINE T == {k \in 0 .. Len(rest) :
                   k = Len(rest) \/ r + NumAborted(SubSeq(rest, 1, k)) >= Expected}
<1>1. Len(rest) \in T /\ T \subseteq 0 .. Len(rest)
  OBVIOUS
<1>2. Takes(rest, r) = Min(T)
  BY DEF Takes
<1> HIDE DEF T
<1>3. T # {} /\ T \subseteq Nat
  BY <1>1
<1>4. Min(T) \in T
  BY <1>3, LeastIs
<1> QED BY <1>1, <1>2, <1>4

\* What an instance takes after the first v groups ends here.
EndOf(gs, i, v) == v + Takes(SubSeq(gs, v + 1, Len(gs)), reports[i])

LEMMA EndsThere ==
  ASSUME NEW gs \in Seq(Groups), NEW i, NEW v \in 0 .. Len(gs)
  PROVE  EndOf(gs, i, v) \in v .. Len(gs)
<1> DEFINE rest == SubSeq(gs, v + 1, Len(gs))
           r == reports[i]
<1>1. rest \in Seq(Groups) /\ Len(rest) = Len(gs) - v
  BY Later
<1> HIDE DEF rest, r
<1>2. Takes(rest, r) \in 0 .. Len(rest)
  BY <1>1, TakesSome
<1>3. Takes(rest, r) \in Nat /\ v + Takes(rest, r) \in v .. Len(gs)
  BY <1>1, <1>2
<1> QED BY <1>3 DEF EndOf, rest, r

\* What Assign recurs on: where the groups of each instance but the last end.
Ends(end, gs) ==
  end = [i \in offset + leaving - 1 .. N - 2 |->
           IF i = offset + leaving - 1 THEN 0
           ELSE end[i - 1] + Takes(SubSeq(gs, end[i - 1] + 1, Len(gs)), reports[i])]

Lists(end, gs) ==
  LET firsts == [k \in 1 .. Cardinality(Staying) - 1 |->
                   LET i == offset + leaving + k - 1
                   IN  SubSeq(gs, end[i - 1] + 1, end[i])]
      rest == SubSeq(gs, end[N - 2] + 1, Len(gs))
  IN  IF rest = <<>> THEN firsts ELSE Append(firsts, rest)

LEMMA AssignUnfolds ==
  ASSUME NEW gs \in Seq(Groups), offset + leaving - 1 \in Int, offset + leaving - 1 <= N - 2, N \in Int
  PROVE  \E end : Ends(end, gs) /\ Assign(gs) = Lists(end, gs)
<1> DEFINE a == offset + leaving - 1
           m == (N - 2) - a
           B == 0 .. Len(gs)
           base == 0
           step == [p \in Nat \X B |-> EndOf(gs, a + p[1], p[2])]
<1>0. a \in Int /\ m \in Nat /\ a + m = N - 2 /\ Len(gs) \in Nat /\ B \subseteq Nat
  OBVIOUS
<1>1. base \in B /\ step \in [Nat \X B -> B]
  <2>1. ASSUME NEW p \in Nat \X B PROVE EndOf(gs, a + p[1], p[2]) \in B
    <3> DEFINE i == a + p[1]
               v == p[2]
    <3>1. v \in 0 .. Len(gs)
      OBVIOUS
    <3> HIDE DEF i, v
    <3>2. EndOf(gs, i, v) \in v .. Len(gs)
      BY <3>1, EndsThere
    <3> QED BY <3>1, <3>2 DEF i, v
  <2> QED BY <1>0, <2>1
<1>2. \A k \in Nat, b \in B : step[<<k, b>>] = EndOf(gs, a + k, b)
  <2> HIDE DEF B, a
  <2> SUFFICES ASSUME NEW k \in Nat, NEW b \in B PROVE step[<<k, b>>] = EndOf(gs, a + k, b)
    OBVIOUS
  <2> DEFINE p == <<k, b>>
  <2>1. p \in Nat \X B /\ p[1] = k /\ p[2] = b
    OBVIOUS
  <2> HIDE DEF p
  <2>2. step[p] = EndOf(gs, a + p[1], p[2])
    BY <2>1
  <2> QED BY <2>1, <2>2 DEF p
<1> HIDE DEF B, step
<1>3. PICK f : Iterated(f, m, B, base, step)
  <2> HIDE DEF base, m, a
  <2> QED BY <1>0, <1>1, Recursion
<1>4. f \in [0 .. m -> B] /\ f[0] = base /\ \A k \in 1 .. m : f[k] = step[<<k, f[k - 1]>>]
  BY <1>3 DEF Iterated
<1> DEFINE g == [i \in a .. N - 2 |-> f[i - a]]
<1>5. g = [i \in a .. N - 2 |->
            IF i = a THEN 0
            ELSE g[i - 1] + Takes(SubSeq(gs, g[i - 1] + 1, Len(gs)), reports[i])]
  <2>1. ASSUME NEW i \in a .. N - 2
        PROVE  f[i - a] = IF i = a THEN 0
                          ELSE g[i - 1] + Takes(SubSeq(gs, g[i - 1] + 1, Len(gs)), reports[i])
    <3>1. CASE i = a
      <4>1. i - a = 0
        BY <1>0, <3>1
      <4> QED BY <1>4, <3>1, <4>1
    <3>2. CASE i # a
      <4> DEFINE k == i - a
      <4>1. k \in 1 .. m /\ k - 1 \in 0 .. m /\ a + k = i /\ i - 1 \in a .. N - 2 /\ k - 1 = (i - 1) - a /\ k \in Nat
        <5> HIDE DEF a
        <5> QED BY <1>0, <3>2
      <4>2. g[i - 1] = f[k - 1]
        BY <4>1
      <4> HIDE DEF a, g, k, m
      <4>3. f[k] = EndOf(gs, i, f[k - 1])
        BY <1>2, <1>4, <4>1
      <4>4. f[k] = g[i - 1] + Takes(SubSeq(gs, g[i - 1] + 1, Len(gs)), reports[i])
        BY <4>2, <4>3 DEF EndOf
      <4> QED BY <3>2, <4>4 DEF k
    <3> QED BY <3>1, <3>2
  <2> QED BY <2>1
<1> HIDE DEF g
<1> DEFINE end == CHOOSE end : end = [i \in offset + leaving - 1 .. N - 2 |->
                     IF i = offset + leaving - 1 THEN 0
                     ELSE end[i - 1] + Takes(SubSeq(gs, end[i - 1] + 1, Len(gs)), reports[i])]
<1>6. end = [i \in offset + leaving - 1 .. N - 2 |->
               IF i = offset + leaving - 1 THEN 0
               ELSE end[i - 1] + Takes(SubSeq(gs, end[i - 1] + 1, Len(gs)), reports[i])]
  BY <1>5
<1>7. Assign(gs) = Lists(end, gs)
  BY DEF Assign, Lists
<1> HIDE DEF end
<1> QED BY <1>6, <1>7 DEF Ends

\* The part of instance i in the lists that Assign returns.
Part(gs, i) ==
  LET lists == Assign(gs)
      k == i - offset - leaving + 1
  IN  IF k <= Len(lists) THEN lists[k] ELSE <<>>

\* They cut the groups that migrate at the positions of some function.
LEMMA AssignCuts ==
  ASSUME NEW gs \in Seq(Groups), N \in Nat, offset \in Nat, leaving \in Nat,
         Cardinality(Staying) = N - offset - leaving, offset + leaving < N
  PROVE  \E end : /\ Cuts(end, offset + leaving - 1, N - 1, Len(gs))
                  /\ \A i \in Staying : Part(gs, i) = SubSeq(gs, end[i - 1] + 1, end[i])
<1> DEFINE a == offset + leaving - 1
           C == Cardinality(Staying)
           L == Len(gs)
<1>0. a \in Int /\ a <= N - 2 /\ N \in Int /\ C = N - 1 - a /\ C \in Nat \ {0} /\ L \in Nat
  OBVIOUS
<1>1. PICK end : Ends(end, gs) /\ Assign(gs) = Lists(end, gs)
  BY <1>0, AssignUnfolds
<1>2. /\ end[a] = 0
      /\ \A i \in a + 1 .. N - 2 : end[i] = EndOf(gs, i, end[i - 1])
  <2>1. \A i \in a .. N - 2 :
          end[i] = IF i = a THEN 0
                   ELSE end[i - 1] + Takes(SubSeq(gs, end[i - 1] + 1, Len(gs)), reports[i])
    BY <1>1 DEF Ends
  <2>2. a \in a .. N - 2
    BY <1>0
  <2>3. \A i \in a + 1 .. N - 2 : i \in a .. N - 2 /\ i # a
    BY <1>0
  <2> HIDE DEF a
  <2> QED BY <2>1, <2>2, <2>3 DEF EndOf
<1> HIDE DEF a, C, L
<1>3. \A i \in a .. N - 2 : end[i] \in 0 .. L
  <2> DEFINE T == {k \in Nat : a + k <= N - 2 => end[a + k] \in 0 .. L}
  <2>1. 0 \in T
    BY <1>0, <1>2
  <2>2. ASSUME NEW k \in T \cap Nat PROVE k + 1 \in T
    <3> SUFFICES ASSUME a + (k + 1) <= N - 2 PROVE end[a + (k + 1)] \in 0 .. L
      OBVIOUS
    <3> DEFINE i == a + (k + 1)
               v == end[a + k]
    <3>1. i \in a + 1 .. N - 2 /\ i - 1 = a + k /\ v \in 0 .. L
      BY <1>0
    <3>2. end[i] = EndOf(gs, i, v)
      <4> HIDE DEF i
      <4> QED BY <1>2, <3>1
    <3> HIDE DEF i, v
    <3>3. EndOf(gs, i, v) \in v .. L
      BY <3>1, EndsThere DEF L
    <3>4. end[i] \in 0 .. L
      BY <1>0, <3>1, <3>2, <3>3
    <3> QED BY <3>4 DEF i
  <2>3. Nat \subseteq T
    <3> HIDE DEF T
    <3> QED BY <2>1, <2>2, Induction
  <2> SUFFICES ASSUME NEW i \in a .. N - 2 PROVE end[i] \in 0 .. L
    OBVIOUS
  <2>4. i - a \in Nat /\ a + (i - a) = i /\ i <= N - 2
    BY <1>0
  <2> QED BY <2>3, <2>4
<1>4. \A i \in a + 1 .. N - 2 : end[i - 1] <= end[i]
  <2> SUFFICES ASSUME NEW i \in a + 1 .. N - 2 PROVE end[i - 1] <= end[i]
    OBVIOUS
  <2> DEFINE v == end[i - 1]
  <2>1. i - 1 \in a .. N - 2
    BY <1>0
  <2>2. v \in 0 .. L /\ end[i] = EndOf(gs, i, v)
    BY <1>2, <1>3, <2>1
  <2> HIDE DEF v
  <2>3. EndOf(gs, i, v) \in v .. L
    BY <2>2, EndsThere DEF L
  <2>4. v <= end[i]
    BY <1>0, <2>2, <2>3
  <2> QED BY <2>4 DEF v
<1> DEFINE all == [i \in a .. N - 1 |-> IF i = N - 1 THEN L ELSE end[i]]
<1>5. Cuts(all, a, N - 1, L)
  <2>1. ASSUME NEW i \in a .. N - 1 PROVE all[i] \in 0 .. L
    <3>1. i = N - 1 \/ i \in a .. N - 2
      BY <1>0
    <3> QED BY <1>0, <1>3, <3>1
  <2>2. ASSUME NEW i \in a + 1 .. N - 1 PROVE all[i - 1] <= all[i]
    <3>1. i - 1 \in a .. N - 2 /\ i - 1 \in a .. N - 1 /\ i \in a .. N - 1 /\ i - 1 # N - 1
      BY <1>0
    <3>2. all[i - 1] = end[i - 1] /\ end[i - 1] \in 0 .. L
      BY <1>3, <3>1
    <3>3. CASE i = N - 1
      <4>1. all[i] = L
        BY <3>1, <3>3
      <4> QED BY <1>0, <3>2, <4>1
    <3>4. CASE i # N - 1
      <4>1. all[i] = end[i] /\ i \in a + 1 .. N - 2
        BY <1>0, <3>1, <3>4
      <4> QED BY <1>4, <3>2, <4>1
    <3> QED BY <3>3, <3>4
  <2>3. all[a] = 0 /\ all[N - 1] = L
    BY <1>0, <1>2
  <2> HIDE DEF all
  <2> QED BY <2>1, <2>2, <2>3 DEF Cuts
<1> DEFINE firsts == [k \in 1 .. C - 1 |->
                        LET i == offset + leaving + k - 1
                        IN  SubSeq(gs, end[i - 1] + 1, end[i])]
           rest == SubSeq(gs, end[N - 2] + 1, L)
           lists == IF rest = <<>> THEN firsts ELSE Append(firsts, rest)
<1>6. Assign(gs) = lists
  BY <1>1 DEF Lists, C, L
<1>7. \A k \in 1 .. C - 1 : firsts[k] = SubSeq(gs, end[(a + k) - 1] + 1, end[a + k])
  <2> SUFFICES ASSUME NEW k \in 1 .. C - 1
               PROVE  firsts[k] = SubSeq(gs, end[(a + k) - 1] + 1, end[a + k])
    OBVIOUS
  <2>1. offset + leaving + k - 1 = a + k
    BY DEF a
  <2> QED BY <2>1
<1>8. \A k \in 1 .. C - 1 : firsts[k] \in Seq(Groups)
  <2> SUFFICES ASSUME NEW k \in 1 .. C - 1 PROVE firsts[k] \in Seq(Groups)
    OBVIOUS
  <2> DEFINE lo == end[(a + k) - 1]
             hi == end[a + k]
  <2>1. (a + k) - 1 \in a .. N - 2 /\ a + k \in a + 1 .. N - 2 /\ a + k \in a .. N - 2
    BY <1>0
  <2>2. lo \in 0 .. L /\ hi \in lo .. L
    BY <1>0, <1>3, <1>4, <2>1
  <2>3. firsts[k] = SubSeq(gs, lo + 1, hi)
    BY <1>7
  <2> HIDE DEF lo, hi, firsts
  <2> QED BY <2>2, <2>3, Slice DEF L
<1>9. /\ firsts \in Seq(Seq(Groups)) /\ Len(firsts) = C - 1
      /\ rest \in Seq(Groups) /\ Len(rest) = L - end[N - 2] /\ end[N - 2] \in 0 .. L
  <2>1. end[N - 2] \in 0 .. L
    BY <1>0, <1>3
  <2> DEFINE v == end[N - 2]
  <2> HIDE DEF v
  <2>2. SubSeq(gs, v + 1, L) \in Seq(Groups) /\ Len(SubSeq(gs, v + 1, L)) = L - v
    BY <2>1, Later DEF v, L
  <2>3. firsts \in [1 .. C - 1 -> Seq(Groups)]
    BY <1>8
  <2>4. C - 1 \in Nat
    BY <1>0
  <2> HIDE DEF firsts
  <2>5. firsts \in Seq(Seq(Groups)) /\ Len(firsts) = C - 1
    BY <2>3, <2>4
  <2> QED BY <2>1, <2>2, <2>5 DEF v
<1>10. ASSUME NEW i \in Staying PROVE Part(gs, i) = SubSeq(gs, all[i - 1] + 1, all[i])
  <2> DEFINE k == i - offset - leaving + 1
  <2>1. /\ k \in 1 .. C /\ a + k = i /\ i \in a + 1 .. N - 1 /\ (k = C <=> i = N - 1)
        /\ i - 1 \in a .. N - 1 /\ i \in a .. N - 1 /\ i - 1 # N - 1
    BY <1>0 DEF Staying, a
  <2>2. Part(gs, i) = IF k <= Len(lists) THEN lists[k] ELSE <<>>
    BY <1>6 DEF Part
  <2>3. all[i - 1] = end[i - 1]
    BY <2>1
  <2> HIDE DEF k
  <2>4. CASE k # C
    <3>1. k \in 1 .. C - 1 /\ all[i] = end[i]
      BY <1>0, <2>1, <2>4
    <3> HIDE DEF firsts, rest, all
    <3>2. k <= Len(lists) /\ lists[k] = firsts[k]
      BY <1>0, <1>9, <3>1
    <3>3. firsts[k] = SubSeq(gs, end[(a + k) - 1] + 1, end[a + k])
      BY <1>7, <3>1
    <3> HIDE DEF lists
    <3> QED BY <2>1, <2>2, <2>3, <3>1, <3>2, <3>3
  <2>5. CASE k = C
    <3>1. i = N - 1 /\ all[i] = L /\ i - 1 = N - 2
      BY <1>0, <2>1, <2>5
    <3>2. SubSeq(gs, all[i - 1] + 1, all[i]) = rest
      BY <2>3, <3>1
    <3> HIDE DEF firsts, rest, all
    <3>3. CASE rest = <<>>
      <4>1. ~(k <= Len(lists))
        BY <1>0, <1>9, <2>5, <3>3
      <4> HIDE DEF lists
      <4> QED BY <2>2, <3>2, <3>3, <4>1
    <3>4. CASE rest # <<>>
      <4>1. lists = Append(firsts, rest)
        BY <3>4
      <4>2. Len(Append(firsts, rest)) = C /\ Append(firsts, rest)[C] = rest
        BY <1>0, <1>9
      <4> HIDE DEF lists
      <4> QED BY <1>0, <2>2, <2>5, <3>2, <4>1, <4>2
    <3> QED BY <3>3, <3>4
  <2> QED BY <2>4, <2>5
<1> HIDE DEF all
<1>11. Cuts(all, offset + leaving - 1, N - 1, Len(gs))
  BY <1>5 DEF a, L
<1> QED BY <1>10, <1>11

\* Every group goes to one instance that stays.
LEMMA AssignGives ==
  ASSUME NEW gs \in Seq(Groups), IsInjective(gs), N \in Nat, offset \in Nat, leaving \in Nat,
         offset + leaving < N
  PROVE  /\ \A i, j \in Staying : i # j => ToSet(Part(gs, i)) \cap ToSet(Part(gs, j)) = {}
         /\ UNION {ToSet(Part(gs, i)) : i \in Staying} = ToSet(gs)
<1> DEFINE a == offset + leaving - 1
           b == N - 1
           L == Len(gs)
<1>0. a \in Int /\ b \in Int /\ a < b /\ L \in Nat /\ Staying = a + 1 .. b
  BY DEF Staying
<1>1. Cardinality(Staying) = N - offset - leaving
  <2>1. Cardinality(a + 1 .. b) = b - (a + 1) + 1
    <3> HIDE DEF a, b
    <3>1. a + 1 \in Int /\ ~(a + 1 > b)
      BY <1>0
    <3> QED BY <1>0, <3>1, FS_Interval
  <2> QED BY <1>0, <2>1
<1>2. PICK end : /\ Cuts(end, offset + leaving - 1, N - 1, Len(gs))
                 /\ \A i \in Staying : Part(gs, i) = SubSeq(gs, end[i - 1] + 1, end[i])
  BY <1>1, AssignCuts
<1>3. Cuts(end, a, b, L)
  BY <1>2
<1> HIDE DEF a, b, L
<1>4. /\ \A i, j \in a + 1 .. b : i # j =>
           (end[i - 1] + 1 .. end[i]) \cap (end[j - 1] + 1 .. end[j]) = {}
      /\ \A n \in 1 .. L : \E i \in a + 1 .. b : n \in end[i - 1] + 1 .. end[i]
      /\ \A i \in a + 1 .. b : end[i - 1] + 1 .. end[i] \subseteq 1 .. L
  BY <1>0, <1>3, CutsCover
<1>5. ASSUME NEW i \in Staying
      PROVE  ToSet(Part(gs, i)) = {gs[n] : n \in end[i - 1] + 1 .. end[i]}
  <2> DEFINE lo == end[i - 1]
             hi == end[i]
  <2>1. i \in a + 1 .. b /\ i - 1 \in a .. b /\ i \in a .. b
    BY <1>0
  <2>2. lo \in 0 .. L /\ hi \in 0 .. L /\ lo <= hi
    BY <1>3, <2>1 DEF Cuts
  <2>3. Part(gs, i) = SubSeq(gs, lo + 1, hi)
    BY <1>2
  <2> HIDE DEF lo, hi
  <2>4. lo \in 0 .. Len(gs) /\ hi \in lo .. Len(gs)
    BY <1>0, <2>2 DEF L
  <2>5. ToSet(SubSeq(gs, lo + 1, hi)) = {gs[n] : n \in lo + 1 .. hi}
    BY <2>4, Slice
  <2> QED BY <2>3, <2>5 DEF lo, hi
<1>6. /\ \A m, n \in 1 .. L : gs[m] = gs[n] => m = n
      /\ \A g : g \in ToSet(gs) <=> \E n \in 1 .. L : gs[n] = g
  BY Element DEF L
<1>7. ASSUME NEW i \in Staying, NEW j \in Staying, i # j
      PROVE  ToSet(Part(gs, i)) \cap ToSet(Part(gs, j)) = {}
  <2> SUFFICES ASSUME NEW m \in end[i - 1] + 1 .. end[i], NEW n \in end[j - 1] + 1 .. end[j],
                      gs[m] = gs[n]
               PROVE  FALSE
    BY <1>5
  <2>1. m \in 1 .. L /\ n \in 1 .. L
    BY <1>0, <1>4
  <2>2. m = n
    BY <1>6, <2>1
  <2> QED BY <1>0, <1>4, <1>7, <2>2
<1>8. ASSUME NEW g \in ToSet(gs) PROVE \E i \in Staying : g \in ToSet(Part(gs, i))
  <2>1. PICK n \in 1 .. L : gs[n] = g
    BY <1>6
  <2>2. PICK i \in a + 1 .. b : n \in end[i - 1] + 1 .. end[i]
    BY <1>4
  <2> QED BY <1>0, <1>5, <2>1, <2>2
<1>9. ASSUME NEW i \in Staying, NEW g \in ToSet(Part(gs, i)) PROVE g \in ToSet(gs)
  <2>1. PICK n \in end[i - 1] + 1 .. end[i] : g = gs[n]
    BY <1>5
  <2>2. n \in 1 .. L
    BY <1>0, <1>4
  <2> QED BY <1>6, <2>1, <2>2
<1> QED BY <1>7, <1>8, <1>9

-----------------------------------------------------------------------------
(* Migrate_Out, Migrate_In and a new global step *)

\* What the leaving instances answered is with the manager.
LEMMA GatherOutGroups == ASSUME InstInv, GroupInv, GatherOut PROVE GroupInv'
<1> DEFINE who(k) == offset + k - 1
           seqs == [k \in 1 .. leaving |-> Head(resp[who(k)]).groups]
<1>1. /\ mpc = "out" /\ mpc' = "in" /\ moving' = FlattenSeq(seqs)
      /\ UNCHANGED <<offset, leaving, req, loops, status, groups>>
      /\ \A i \in Leaving : resp[i] # <<>>
      /\ resp' = [i \in Instances |-> IF i \in Leaving THEN Tail(resp[i]) ELSE resp[i]]
  BY DEF GatherOut, Gather, CanGather
<1>2. /\ leaving \in 1 .. N - offset - 1 /\ leaving \in Nat \ {0} /\ offset \in Nat /\ N \in Nat
      /\ moving = <<>> /\ Moving = {}
  BY <1>1, EmptyOne, MigrationAssumption DEF GroupInv, Manages, InstInv, InstOK, Moving
<1>3. ASSUME NEW i \in Leaving
      PROVE  /\ i \in Instances /\ resp'[i] = <<>>
             /\ Head(resp[i]).groups \in Seq(Groups) /\ IsInjective(Head(resp[i]).groups)
             /\ Out(i) = ToSet(Head(resp[i]).groups)
  <2>1. i \in Instances
    BY <1>2 DEF Leaving, Instances
  <2> DEFINE n == resp[i][1]
  <2>2. /\ resp[i] = <<n>> /\ n.act = "aborted"
        /\ n.groups \in Seq(Groups) /\ IsInjective(n.groups)
    BY <1>1, <2>1, OneAnswer DEF GroupInv, Answer
  <2> HIDE DEF n
  <2>3. Head(resp[i]) = n /\ Tail(resp[i]) = <<>>
    BY <2>2, One
  <2>4. GroupsOf("aborted", <<n>>) = ToSet(n.groups)
    BY <2>2, Brings
  <2> QED BY <1>1, <2>1, <2>2, <2>3, <2>4 DEF Out
<1>4. ASSUME NEW i \in Instances, i \notin Leaving PROVE resp'[i] = <<>> /\ Out(i) = {}
  <2>1. resp[i] = <<>>
    BY <1>1, <1>4 DEF InstInv, Stage, Told, Talk, Empty, Listens
  <2> QED BY <1>1, <1>4, <2>1, Brings DEF Out
<1>5. \A i \in Instances : resp'[i] = <<>> /\ Out(i)' = {} /\ In(i)' = In(i)
  <2>1. GroupsOf("aborted", <<>>) = {}
    BY Brings
  <2> QED BY <1>1, <1>3, <1>4, <2>1 DEF Out, In
<1>6. /\ \A i, j \in Instances : i # j => Travel(i) \cap Travel(j) = {}
      /\ \A i \in Instances : In(i) \cap Out(i) = {}
  BY DEF GroupInv, Apart, Hold, Travel, Kept, Disjoint
<1>7. ASSUME NEW k \in 1 .. leaving
      PROVE  who(k) \in Leaving /\ seqs[k] = Head(resp[who(k)]).groups
  BY <1>2 DEF Leaving
<1>8. \A i \in Leaving : \E k \in 1 .. leaving : who(k) = i
  <2> SUFFICES ASSUME NEW i \in Leaving PROVE \E k \in 1 .. leaving : who(k) = i
    OBVIOUS
  <2>1. i - offset + 1 \in 1 .. leaving /\ offset + (i - offset + 1) - 1 = i
    BY <1>2 DEF Leaving
  <2> QED BY <2>1
<1>9. /\ Len(seqs) = leaving
      /\ \A k \in 1 .. leaving : seqs[k] \in Seq(Groups) /\ IsInjective(seqs[k])
      /\ \A k \in 1 .. leaving : ToSet(seqs[k]) = Out(who(k))
  <2>1. Len(seqs) = leaving
    BY <1>2
  <2> HIDE DEF seqs, who
  <2> QED BY <1>3, <1>7, <2>1
<1>10. \A j, k \in 1 .. leaving : j # k => ToSet(seqs[j]) \cap ToSet(seqs[k]) = {}
  <2> SUFFICES ASSUME NEW j \in 1 .. leaving, NEW k \in 1 .. leaving, j # k
               PROVE  ToSet(seqs[j]) \cap ToSet(seqs[k]) = {}
    OBVIOUS
  <2>1. who(j) # who(k)
    BY <1>2
  <2>2. who(j) \in Instances /\ who(k) \in Instances
    <3> HIDE DEF who, seqs
    <3> QED BY <1>3, <1>7
  <2> HIDE DEF seqs, who
  <2> QED BY <1>6, <1>9, <2>1, <2>2 DEF Travel
<1> HIDE DEF seqs, who
<1>11. /\ moving' \in Seq(Groups) /\ IsInjective(moving')
       /\ Moving' = UNION {ToSet(seqs[k]) : k \in 1 .. leaving}
  <2>1. /\ FlattenSeq(seqs) \in Seq(Groups) /\ IsInjective(FlattenSeq(seqs))
        /\ ToSet(FlattenSeq(seqs)) = FirstOnes(seqs, leaving)
    BY <1>2, <1>9, <1>10, Flatten
  <2> QED BY <1>1, <2>1 DEF Moving, FirstOnes
<1>12. Moving' = UNION {Out(i) : i \in Instances}
  <2>1. \A k \in 1 .. leaving : who(k) \in Instances /\ ToSet(seqs[k]) = Out(who(k))
    BY <1>3, <1>7, <1>9
  <2>2. \A i \in Instances : Out(i) # {} => \E k \in 1 .. leaving : Out(i) = ToSet(seqs[k])
    BY <1>4, <1>8, <1>9
  <2>3. UNION {ToSet(seqs[k]) : k \in 1 .. leaving} \subseteq UNION {Out(i) : i \in Instances}
    BY <2>1
  <2>4. ASSUME NEW i \in Instances, NEW g \in Out(i)
        PROVE  g \in UNION {ToSet(seqs[k]) : k \in 1 .. leaving}
    BY <2>2
  <2> QED BY <1>11, <2>3, <2>4
<1>13. Manages'
  BY <1>1, <1>2, <1>11 DEF Manages
<1>14. ASSUME NEW i \in Instances PROVE Answer(i)' /\ Listed(i)' /\ In(i)' \cap Out(i)' = {}
  <2>1. Leaving' = Leaving /\ aborted' = aborted
    BY <1>1 DEF Leaving, status
  <2>2. Listed(i)
    BY DEF GroupInv
  <2> QED BY <1>1, <1>5, <2>1, <2>2 DEF Answer, Listed
<1>15. \A i \in Instances : Travel(i)' = In(i)
  BY <1>5 DEF Travel
<1>16. \A i \in Instances : In(i) \cap Moving' = {}
  <2> SUFFICES ASSUME NEW i \in Instances, NEW j \in Instances, NEW g \in In(i), g \in Out(j)
               PROVE  FALSE
    BY <1>12
  <2>1. CASE i = j
    BY <1>6, <2>1
  <2>2. CASE i # j
    BY <1>6, <2>2 DEF Travel
  <2> QED BY <2>1, <2>2
<1>17. /\ \A i \in Instances : Travel(i)' \subseteq Travel(i) \cup Moving
       /\ \A i \in Instances : Travel(i)' \cap Moving' = {}
       /\ \A i, j \in Instances : i # j => Travel(i)' \cap Travel(j)' = {}
  BY <1>6, <1>15, <1>16 DEF Travel
<1>18. /\ Moving' \subseteq Moving \cup UNION {Travel(i) : i \in Instances}
       /\ Moving \cup UNION {Travel(i) : i \in Instances}
            \subseteq Moving' \cup UNION {Travel(i)' : i \in Instances}
  BY <1>2, <1>12, <1>15 DEF Travel
<1> QED BY <1>1, <1>13, <1>14, <1>17, <1>18, Moved

\* What the manager had is on its way to those that stay.
LEMMA MigrateInStepGroups == ASSUME InstInv, GroupInv, MigrateIn PROVE GroupInv'
<1> DEFINE lists == Assign(moving)
           for(i) == i - offset - leaving + 1
           sent == {i \in Staying : for(i) <= Len(lists) /\ ToSet(lists[for(i)]) # {}}
           m == [i \in sent \cup Leaving |->
                  IF i \in Leaving THEN FinishRequest[i]
                  ELSE [act |-> "migrate_in", groups |-> lists[for(i)]]]
           gives(i) == IF i \in Staying THEN ToSet(Part(moving, i)) ELSE {}
<1>1. /\ mpc = "in" /\ mpc' = "finish" /\ moving' = <<>>
      /\ UNCHANGED <<offset, leaving, resp, loops, status, groups>>
      /\ req' = [i \in Instances |-> IF i \in sent \cup Leaving THEN Append(req[i], m[i]) ELSE req[i]]
  <2> HIDE DEF lists, for
  <2> QED BY DEF MigrateIn, Scatter, lists, for
<1>2. /\ leaving \in Nat /\ offset \in Nat /\ N \in Nat /\ offset + leaving < N
      /\ moving \in Seq(Groups) /\ IsInjective(moving)
  BY <1>1, MigrationAssumption DEF GroupInv, Manages, InstInv, InstOK
<1>3. ASSUME NEW i \in Staying
      PROVE  Part(moving, i) = IF for(i) <= Len(lists) THEN lists[for(i)] ELSE <<>>
  BY DEF Part
<1>4. ASSUME NEW i \in Instances PROVE Empty(i)
  BY <1>1 DEF InstInv, InstOK, Instances, Stage, Told, Talk
<1>5. \A i \in Instances : In(i) = {} /\ Out(i) = {} /\ Out(i)' = {} /\ resp'[i] = <<>>
  <2>1. \A act : GroupsOf(act, <<>>) = {}
    BY Brings
  <2> QED BY <1>1, <1>4, <2>1 DEF Empty, Listens, In, Out
<1>6. Staying \cap Leaving = {} /\ sent \subseteq Staying
  <2>1. Staying \cap Leaving = {}
    BY <1>2 DEF Staying, Leaving
  <2> QED BY <2>1
<1>7. \A i \in sent : m[i].act = "migrate_in" /\ m[i].groups = lists[for(i)]
  BY <1>6
<1>8. \A i \in Leaving : m[i].act = "finish"
  BY <1>2 DEF FinishRequest, Leaving, Instances
<1>9. ASSUME NEW i \in Instances PROVE In(i)' = gives(i)
  <2>0. req[i] = <<>>
    BY <1>4 DEF Empty
  <2> DEFINE n == m[i]
  <2>1. CASE i \in Leaving
    <3>1. n.act # "migrate_in"
      BY <1>8, <2>1
    <3>2. req'[i] = Append(<<>>, n)
      BY <1>1, <2>0, <2>1
    <3> HIDE DEF n
    <3>3. req'[i] = <<n>>
      BY <3>2, One
    <3>4. GroupsOf("migrate_in", <<n>>) = {}
      BY <3>1, Brings
    <3> HIDE DEF sent, m, lists
    <3> QED BY <1>6, <2>1, <3>3, <3>4 DEF In
  <2>2. CASE i \in sent
    <3>1. n.act = "migrate_in" /\ n.groups = lists[for(i)]
      BY <1>7, <2>2
    <3>2. req'[i] = Append(<<>>, n)
      BY <1>1, <2>0, <2>2
    <3>3. i \in Staying /\ for(i) <= Len(lists)
      BY <2>2
    <3> HIDE DEF n, sent, m, lists, for
    <3>4. req'[i] = <<n>>
      BY <3>2, One
    <3>5. GroupsOf("migrate_in", <<n>>) = ToSet(n.groups)
      BY <3>1, Brings
    <3>6. Part(moving, i) = lists[for(i)]
      BY <1>3, <3>3
    <3> QED BY <3>1, <3>3, <3>4, <3>5, <3>6 DEF In
  <2>3. CASE i \notin sent \cup Leaving
    <3>1. req'[i] = <<>>
      BY <1>1, <2>0, <2>3
    <3>2. In(i)' = {}
      BY <3>1, Brings DEF In
    <3>3. ASSUME i \in Staying PROVE ToSet(Part(moving, i)) = {}
      <4>1. ~(for(i) <= Len(lists)) \/ ToSet(lists[for(i)]) = {}
        BY <2>3, <3>3
      <4> HIDE DEF lists, for, sent, m
      <4> QED BY <1>3, <3>3, <4>1, EmptyOne
    <3> QED BY <3>2, <3>3
  <2> QED BY <2>1, <2>2, <2>3
<1> HIDE DEF lists, for, sent, m
<1>10. /\ \A i, j \in Staying : i # j => ToSet(Part(moving, i)) \cap ToSet(Part(moving, j)) = {}
       /\ UNION {ToSet(Part(moving, i)) : i \in Staying} = ToSet(moving)
  BY <1>2, AssignGives
<1>11. /\ \A i, j \in Instances : i # j => gives(i) \cap gives(j) = {}
       /\ \A i \in Instances : gives(i) \subseteq Moving
       /\ UNION {gives(i) : i \in Instances} = Moving
  <2>1. Staying \subseteq Instances
    BY <1>2 DEF Staying, Instances
  <2>2. \A i, j \in Instances : i # j => gives(i) \cap gives(j) = {}
    BY <1>10
  <2>3. ASSUME NEW i \in Instances PROVE gives(i) \subseteq Moving
    BY <1>10 DEF Moving
  <2>4. ASSUME NEW g \in Moving PROVE \E i \in Instances : g \in gives(i)
    <3>1. PICK i \in Staying : g \in ToSet(Part(moving, i))
      BY <1>10 DEF Moving
    <3> QED BY <2>1, <3>1
  <2> HIDE DEF gives
  <2>5. UNION {gives(i) : i \in Instances} = Moving
    BY <2>3, <2>4
  <2> QED BY <2>2, <2>3, <2>5
<1> HIDE DEF gives
<1>12. Moving' = {}
  BY <1>1, EmptyOne DEF Moving
<1>13. Manages'
  BY <1>1, EmptyOne DEF Manages
<1>14. ASSUME NEW i \in Instances PROVE Answer(i)' /\ Listed(i)' /\ In(i)' \cap Out(i)' = {}
  <2>1. Leaving' = Leaving /\ aborted' = aborted
    BY <1>1 DEF Leaving, status
  <2>2. Listed(i)
    BY DEF GroupInv
  <2> QED BY <1>1, <1>5, <2>1, <2>2 DEF Answer, Listed
<1>15. \A i \in Instances : Travel(i) = {} /\ Travel(i)' = gives(i)
  BY <1>5, <1>9 DEF Travel
<1>16. /\ \A i \in Instances : Travel(i)' \subseteq Travel(i) \cup Moving
       /\ \A i \in Instances : Travel(i)' \cap Moving' = {}
       /\ \A i, j \in Instances : i # j => Travel(i)' \cap Travel(j)' = {}
  BY <1>11, <1>12, <1>15
<1>17. /\ Moving' \subseteq Moving \cup UNION {Travel(i) : i \in Instances}
       /\ Moving \cup UNION {Travel(i) : i \in Instances}
            \subseteq Moving' \cup UNION {Travel(i)' : i \in Instances}
  BY <1>11, <1>12, <1>15
<1> QED BY <1>1, <1>13, <1>14, <1>16, <1>17, Moved

\* Nothing has begun, and nobody has anything but its share.
Untried ==
  /\ mpc = "idle" /\ moving = <<>>
  /\ DOMAIN aborted = Instances
  /\ \A i \in Instances :
       /\ req[i] = <<>> /\ resp[i] = <<>> /\ aborted[i] = <<>>
       /\ rpc[i] = "new" /\ running[i] = {} /\ returned[i] = {}
  /\ begun = [g \in Groups |-> FALSE]
  /\ completed = [g \in Groups |-> 0]
  /\ cut = [g \in Groups |-> 0]
  /\ delivered = [g \in Groups |-> 0]

LEMMA UntriedGroups == Untried => GroupInv
<1> SUFFICES ASSUME Untried PROVE GroupInv
  OBVIOUS
<1> USE DEF Untried
<1>1. \A i \in Instances : /\ New(i) = Share[i] /\ Cut(i) = {} /\ Out(i) = {} /\ In(i) = {}
                           /\ Hold(i) = Share[i]
  <2>1. \A act : GroupsOf(act, <<>>) = {}
    BY Brings
  <2>2. \A i \in Instances : Cut(i) = {} /\ Out(i) = {} /\ In(i) = {} /\ New(i) = Share[i]
    BY <2>1, EmptyOne DEF Cut, Out, In, New
  <2> QED BY <2>2 DEF Hold
<1>2. Moving = {} /\ Done = {}
  BY EmptyOne DEF Moving, Done
<1>3. Whole /\ Apart
  BY <1>1, <1>2, MigrationAssumption DEF Whole, Apart
<1>4. Manages
  BY EmptyOne DEF Manages
<1>5. Counts
  <2>1. \A g \in Groups : 0 + 0 <= Size[g]
    BY MigrationAssumption
  <2> QED BY <2>1 DEF Counts
<1>6. ASSUME NEW i \in Instances PROVE Kept(i) /\ Listed(i) /\ Answer(i) /\ Progress(i)
  <2>1. Kept(i)
    BY <1>1 DEF Kept, Disjoint
  <2>2. Listed(i) /\ Answer(i)
    BY EmptyOne DEF Listed, Answer
  <2>3. Share[i] \subseteq Groups
    BY MigrationAssumption
  <2>4. Progress(i)
    BY <1>1, <2>3 DEF Progress
  <2> QED BY <2>1, <2>2, <2>4
<1> QED BY <1>2, <1>3, <1>4, <1>5, <1>6 DEF GroupInv

LEMMA NextGlobalStepGroups == ASSUME InstInv, GroupInv, NextGlobalStep PROVE GroupInv'
<1>1. /\ mpc = "over" /\ mpc' = "idle"
      /\ rpc' = [i \in Instances |-> "new"] /\ FreshGroups
      /\ \A i \in Instances : rpc[i] = "over"
      /\ UNCHANGED <<moving, req, resp, running, aborted, returned>>
  BY DEF NextGlobalStep, status
<1>2. ASSUME NEW i \in Instances
      PROVE  req[i] = <<>> /\ resp[i] = <<>> /\ running[i] = {} /\ aborted[i] = <<>> /\ returned[i] = {}
  <2>1. running[i] = {} /\ aborted[i] = <<>> /\ returned[i] = {}
    BY <1>1 DEF GroupInv, Kept
  <2>2. Empty(i)
    BY <1>1 DEF InstInv, InstOK, Instances, Stage, Told, InRollout
  <2> QED BY <2>1, <2>2 DEF Empty, Listens
<1>3. moving = <<>> /\ DOMAIN aborted = Instances
  BY <1>1 DEF GroupInv, Manages
<1>4. Untried'
  BY <1>1, <1>2, <1>3 DEF Untried, FreshGroups
<1>5. Untried' => GroupInv'
  BY UntriedGroups, PTL
<1> QED BY <1>4, <1>5

-----------------------------------------------------------------------------
(* Theorems about the groups *)

LEMMA InitGroups == ASSUME Init PROVE GroupInv
<1>1. Untried
  BY DEF Init, Untried
<1> QED BY <1>1, UntriedGroups

\* Nothing happens.
LEMMA StutterGroups == ASSUME GroupInv, UNCHANGED vars PROVE GroupInv'
<1>1. UNCHANGED <<manager, req, resp, loops, status, groups>>
  BY DEF vars
<1>2. \A i \in Instances : Progress(i)' = Progress(i)
  BY <1>1 DEF Progress, New, Cut, Out, In, AllReturned, NumRunning, loops, status, groups
<1>3. Counts' /\ (\A g \in Moving : cut'[g] > 0) /\ delivered' = delivered
  BY <1>1 DEF GroupInv, Counts, groups
<1>4. \A i \in Instances : Progress(i)'
  BY <1>2 DEF GroupInv
<1> QED BY <1>1, <1>3, <1>4, CountsOnly

LEMMA NextGroups ==
  ASSUME EverybodyHasWork, InstInv, GroupInv, [Next]_vars PROVE GroupInv'
<1>1. CASE ManagerStep
  BY <1>1, GatherReportsGroups, GatherOutGroups, MigrateInStepGroups, GatherOffloadedGroups,
     NextGlobalStepGroups DEF ManagerStep
<1>2. CASE ManagerChoice
  BY <1>2, AskReportsGroups, MigrateGroups, FinishAllGroups DEF ManagerChoice
<1>3. ASSUME NEW i \in Instances, RolloutLoop(i) PROVE GroupInv'
  BY <1>3, StartGroups, WaitReturnsGroups, PutResultGroups, MarkDoneGroups, MarkAbortedGroups,
     NotifiedGroups, OffloadGroups DEF RolloutLoop
<1>4. ASSUME NEW i \in Instances, SchedulerLoop(i) PROVE GroupInv'
  BY <1>4, ReportGroups, MigrateInGroups, HandlerGroups, AbortGroups, SendAbortedGroups,
     NotifyFinishGroups DEF SchedulerLoop
<1>5. ASSUME NEW g \in Groups, Task(g) PROVE GroupInv'
  BY <1>5, SequenceGroups, BeginGroups DEF Task
<1>6. CASE UNCHANGED vars
  BY <1>6, StutterGroups
<1> QED BY <1>1, <1>2, <1>3, <1>4, <1>5, <1>6 DEF Next

\* Where every group is, and how far it is, by what has been said between the
\* instances and the manager (Migrate_Out, Migrate_In, mark_aborted, add_task).
THEOREM GroupInvariance == ASSUME EverybodyHasWork PROVE Spec => []GroupInv
<1>1. Init => GroupInv
  BY InitGroups
<1>2. InstInv /\ GroupInv /\ [Next]_vars => GroupInv'
  BY NextGroups
<1> QED BY <1>1, <1>2, InstInvariance, PTL DEF Spec

\* The places of a group, in the words of the invariant.
LEMMA PlacesOf ==
  ASSUME GroupInv, NEW g \in Groups
  PROVE  Places(g) = {<<"new", i>> : i \in {j \in Instances : g \in New(j)}}
                     \cup {<<"running", i>> : i \in {j \in Instances : g \in running[j]}}
                     \cup {<<"aborted", i>> : i \in {j \in Instances : g \in Cut(j)}}
                     \cup {<<"out", i>> : i \in {j \in Instances : g \in Out(j)}}
                     \cup {<<"in", i>> : i \in {j \in Instances : g \in In(j)}}
                     \cup (IF g \in Moving THEN {<<"manager">>} ELSE {})
                     \cup (IF g \in Done THEN {<<"delivered">>} ELSE {})
<1>1. {j \in Instances : rpc[j] = "new" /\ g \in Share[j]} = {j \in Instances : g \in New(j)}
  BY DEF New
<1>2. {j \in Instances : lpc[j] \in {"abort", "drain"} /\ g \in ToSet(aborted[j])}
        = {j \in Instances : g \in Cut(j)}
  BY DEF Cut
<1>3. {j \in Instances : \E m \in ToSet(resp[j]) : m.act = "aborted" /\ g \in ToSet(m.groups)}
        = {j \in Instances : g \in Out(j)}
  <2>1. \A j \in Instances :
          g \in Out(j) <=> \E m \in ToSet(resp[j]) : m.act = "aborted" /\ g \in ToSet(m.groups)
    BY DEF Out, GroupsOf
  <2> QED BY <2>1
<1>4. {j \in Instances : \E m \in ToSet(req[j]) : m.act = "migrate_in" /\ g \in ToSet(m.groups)}
        = {j \in Instances : g \in In(j)}
  <2>1. \A j \in Instances :
          g \in In(j) <=> \E m \in ToSet(req[j]) : m.act = "migrate_in" /\ g \in ToSet(m.groups)
    BY DEF In, GroupsOf
  <2> QED BY <2>1
<1>5. {<<"manager">> : k \in {n \in DOMAIN moving : moving[n] = g}}
        = IF g \in Moving THEN {<<"manager">>} ELSE {}
  <2>1. g \in Moving <=> \E n \in DOMAIN moving : moving[n] = g
    BY DEF Moving, ToSet
  <2> QED BY <2>1
<1>6. {<<"delivered">> : k \in {n \in 1 .. delivered[g] :
         \A i \in Instances : rpc[i] = "put" => g \notin awaited[i]}}
        = IF g \in Done THEN {<<"delivered">>} ELSE {}
  <2>1. delivered[g] \in {0, 1}
    BY DEF GroupInv, Counts
  <2>2. g \in Done <=> \E n \in 1 .. delivered[g] :
                         \A i \in Instances : rpc[i] = "put" => g \notin awaited[i]
    BY <2>1 DEF Done
  <2> QED BY <2>2
<1> QED BY <1>1, <1>2, <1>3, <1>4, <1>5, <1>6 DEF Places

LEMMA OnePlace == ASSUME GroupInv, NEW g \in Groups PROVE \E p : Places(g) = {p}
<1> DEFINE X1 == {j \in Instances : g \in New(j)}
           X2 == {j \in Instances : g \in running[j]}
           X3 == {j \in Instances : g \in Cut(j)}
           X4 == {j \in Instances : g \in Out(j)}
           X5 == {j \in Instances : g \in In(j)}
           X6 == IF g \in Moving THEN {<<"manager">>} ELSE {}
           X7 == IF g \in Done THEN {<<"delivered">>} ELSE {}
<1>1. Places(g) = {<<"new", i>> : i \in X1} \cup {<<"running", i>> : i \in X2}
                  \cup {<<"aborted", i>> : i \in X3} \cup {<<"out", i>> : i \in X4}
                  \cup {<<"in", i>> : i \in X5} \cup X6 \cup X7
  BY PlacesOf
<1>2. Whole /\ Apart
  BY DEF GroupInv
<1>3. ASSUME NEW i \in Instances, g \in Hold(i) PROVE \E p : Places(g) = {p}
  <2>1. g \notin Moving /\ g \notin Done /\ \A j \in Instances \ {i} : g \notin Hold(j)
    BY <1>2, <1>3 DEF Apart
  <2>2. Disjoint(New(i), running[i], Cut(i), Out(i), In(i))
    BY DEF GroupInv, Kept
  <2>3. X6 = {} /\ X7 = {}
    BY <2>1
  <2>4. X1 \subseteq {i} /\ X2 \subseteq {i} /\ X3 \subseteq {i} /\ X4 \subseteq {i} /\ X5 \subseteq {i}
    BY <2>1 DEF Hold
  <2>5. /\ g \in New(i) => X1 = {i} /\ X2 = {} /\ X3 = {} /\ X4 = {} /\ X5 = {}
        /\ g \in running[i] => X1 = {} /\ X2 = {i} /\ X3 = {} /\ X4 = {} /\ X5 = {}
        /\ g \in Cut(i) => X1 = {} /\ X2 = {} /\ X3 = {i} /\ X4 = {} /\ X5 = {}
        /\ g \in Out(i) => X1 = {} /\ X2 = {} /\ X3 = {} /\ X4 = {i} /\ X5 = {}
        /\ g \in In(i) => X1 = {} /\ X2 = {} /\ X3 = {} /\ X4 = {} /\ X5 = {i}
    BY <2>2, <2>4 DEF Disjoint
  <2> HIDE DEF X1, X2, X3, X4, X5, X6, X7
  <2>6. CASE g \in New(i)
    <3>1. Places(g) = {<<"new", i>>}
      BY <1>1, <2>3, <2>5, <2>6
    <3> QED BY <3>1
  <2>7. CASE g \in running[i]
    <3>1. Places(g) = {<<"running", i>>}
      BY <1>1, <2>3, <2>5, <2>7
    <3> QED BY <3>1
  <2>8. CASE g \in Cut(i)
    <3>1. Places(g) = {<<"aborted", i>>}
      BY <1>1, <2>3, <2>5, <2>8
    <3> QED BY <3>1
  <2>9. CASE g \in Out(i)
    <3>1. Places(g) = {<<"out", i>>}
      BY <1>1, <2>3, <2>5, <2>9
    <3> QED BY <3>1
  <2>10. CASE g \in In(i)
    <3>1. Places(g) = {<<"in", i>>}
      BY <1>1, <2>3, <2>5, <2>10
    <3> QED BY <3>1
  <2> QED BY <1>3, <2>6, <2>7, <2>8, <2>9, <2>10 DEF Hold
<1>4. ASSUME \A i \in Instances : g \notin Hold(i) PROVE \E p : Places(g) = {p}
  <2>1. X1 = {} /\ X2 = {} /\ X3 = {} /\ X4 = {} /\ X5 = {}
    BY <1>4 DEF Hold
  <2>2. (g \in Moving /\ g \notin Done) \/ (g \notin Moving /\ g \in Done)
    BY <1>2, <1>4 DEF Whole, Apart
  <2>3. X6 \cup X7 = {<<"manager">>} \/ X6 \cup X7 = {<<"delivered">>}
    BY <2>2
  <2> HIDE DEF X1, X2, X3, X4, X5, X6, X7
  <2>4. Places(g) = X6 \cup X7
    BY <1>1, <2>1
  <2> QED BY <2>3, <2>4
<1> QED BY <1>3, <1>4

\* No group is lost or in two places, however the migrations interleave with
\* the ends of tasks, and no result is put twice.
THEOREM NothingIsLost == ASSUME EverybodyHasWork PROVE Spec => []NothingLost
<1>1. GroupInv => NothingLost
  <2> SUFFICES ASSUME GroupInv, NEW g \in Groups
               PROVE  Cardinality(Places(g)) = 1 /\ delivered[g] <= 1
    BY DEF NothingLost
  <2>1. delivered[g] <= 1
    BY DEF GroupInv, Counts
  <2>2. Cardinality(Places(g)) = 1
    <3>1. PICK p : Places(g) = {p}
      BY OnePlace
    <3> QED BY <3>1, FS_Singleton
  <2> QED BY <2>1, <2>2
<1> QED BY <1>1, GroupInvariance, PTL

\* Nothing runs in an instance without a running group.
LEMMA NoneRunning == ASSUME NEW i, running[i] = {} PROVE NumSeqRunning(i) = 0
<1>1. \A s \in SUBSET {} : s = {}
  OBVIOUS
<1> DEFINE f == [s \in SUBSET {} |-> 0]
<1>2. f = [s \in SUBSET {} |->
            IF s = {} THEN 0
            ELSE NumRunning(CHOOSE x \in s : TRUE) + f[s \ {CHOOSE x \in s : TRUE}]]
  BY <1>1
<1>3. MapThenSumSet(NumRunning, {}) = 0
  BY <1>1, <1>2 DEF MapThenSumSet, MapThenFoldSet
<1> QED BY <1>3 DEF NumSeqRunning

\* The assertions of the code hold: the manager gets the answer it asked for,
\* rollout() starts with nothing, no group is added twice, and one that starts
\* anew has nothing; nothing runs when Migrate_Out answers.
THEOREM AssertionsAreTrue == ASSUME EverybodyHasWork PROVE Spec => []AssertionsHold
<1>1. InstInv /\ GroupInv => AssertionsHold
  <2> SUFFICES ASSUME InstInv, GroupInv PROVE AssertionsHold
    OBVIOUS
  <2>1. ASSUME NEW i \in Instances, resp[i] # <<>>
        PROVE  Head(resp[i]) = resp[i][1]
    <3> DEFINE m == resp[i][1]
    <3>1. resp[i] = <<m>>
      BY <2>1, OneAnswer
    <3> HIDE DEF m
    <3>2. Head(resp[i]) = m
      BY <3>1, One
    <3> QED BY <3>2 DEF m
  <2>2. \A i \in Alive \cup Leaving : i \in Instances
    BY MigrationAssumption DEF Alive, Leaving, Instances, InstInv, InstOK
  <2>3. \A i \in Instances : Answer(i) /\ Kept(i) /\ Progress(i)
    BY DEF GroupInv
  <2>4. mpc = "report" => \A i \in Alive : resp[i] = <<>> \/ Head(resp[i]).act = "report"
    BY <2>1, <2>2, <2>3 DEF Answer
  <2>5. mpc = "out" => \A i \in Leaving : resp[i] = <<>> \/ Head(resp[i]).act = "aborted"
    BY <2>1, <2>2, <2>3 DEF Answer
  <2>6. mpc = "finish" => \A i \in Leaving : resp[i] = <<>> \/ Head(resp[i]).act = "offloaded"
    BY <2>1, <2>2, <2>3 DEF Answer
  <2>7. ASSUME NEW i \in Instances
        PROVE  /\ rpc[i] = "new" => running[i] = {} /\ aborted[i] = <<>>
               /\ \A m \in ToSet(req[i]) :
                    m.act = "migrate_in" => ToSet(m.groups) \cap running[i] = {}
               /\ \A g \in running[i] : ~begun[g] /\ cut[g] = 0 => completed[g] = 0
               /\ lpc[i] = "drain" /\ Drained(i) => running[i] = {} /\ NumSeqRunning(i) = 0
    <3>1. rpc[i] = "new" => running[i] = {} /\ aborted[i] = <<>>
      BY <2>3 DEF Kept
    <3>2. ASSUME NEW m \in ToSet(req[i]), m.act = "migrate_in"
          PROVE  ToSet(m.groups) \cap running[i] = {}
      <4>1. ToSet(m.groups) \subseteq In(i)
        BY <3>2 DEF In, GroupsOf
      <4>2. In(i) \cap running[i] = {}
        BY <2>3 DEF Kept, Disjoint
      <4> QED BY <4>1, <4>2
    <3>3. \A g \in running[i] : ~begun[g] /\ cut[g] = 0 => completed[g] = 0
      BY <2>3 DEF Progress
    <3>4. lpc[i] = "drain" /\ Drained(i) => running[i] = {} /\ NumSeqRunning(i) = 0
      BY NoneRunning DEF Drained
    <3> QED BY <3>1, <3>2, <3>3, <3>4
  <2> QED BY <2>4, <2>5, <2>6, <2>7 DEF AssertionsHold
<1> QED BY <1>1, InstInvariance, GroupInvariance, PTL

=============================================================================
