--------------------------- MODULE EnvRolloutInv ----------------------------
(***************************************************************************)
(* The inductive invariant behind the safety of EnvRollout.  The rank maps  *)
(* cut the slots of every worker into consecutive parts, and two workers    *)
(* share a part or none.  What is between the two is then a line of batches *)
(* of their part: first the answers the env worker has not taken, then the  *)
(* observations the rollout worker has not answered, numbered without a gap *)
(* from the env worker's position to what it has sent.                      *)
(***************************************************************************)
EXTENDS EnvRollout

-----------------------------------------------------------------------------
(* What two workers have in common *)

MinOf(x, y) == IF x <= y THEN x ELSE y
MaxOf(x, y) == IF x <= y THEN y ELSE x

\* Of two worlds with shares of p and q slots each: the first of the second
\* world's ranks that has slots in common with rank a of the first, and how
\* many slots a and b have in common.
FirstPeer(p, q, a) == (a * p) \div q
Common(p, a, q, b) == MinOf((b + 1) * q, (a + 1) * p) - MaxOf(b * q, a * p)

\* Where what a and b have in common begins.
Begin(p, a, q, b) == MaxOf(b * q, a * p)

\* From the first slot of a, where what it has in common with b begins.
Offset(p, a, q, b) == Begin(p, a, q, b) - a * p

\* The slots of an env rank and of a rollout rank, and whether two have some in
\* common: only then does anything pass between them.
PE == cfg.slots \div cfg.envs
PR == cfg.slots \div cfg.rollouts
Near(e, r) == Common(PE, e, PR, r) > 0

\* The places of r among the peers of e, and of e among those of r.
Of(e, r) == r - FirstPeer(PE, PR, e) + 1
By(r, e) == e - FirstPeer(PR, PE, r) + 1

-----------------------------------------------------------------------------
(* The batches between them *)

CellSet == [kind : Kinds, slot : Nat, stage : Nat, n : Nat]
LabelledSet == [cell : CellSet, version : Int]

\* Batch x of a kind is observation x \div Stages of stage x % Stages.
CellAt(k, x, s) == [kind |-> k, slot |-> s, stage |-> x % Stages, n |-> x \div Stages]

\* The part of batch x that ranks a and b have in common, and that of two workers.
Part(k, x, p, a, q, b) == [j \in 1..Common(p, a, q, b) |-> CellAt(k, x, Begin(p, a, q, b) + j - 1)]
Piece(k, x, e, r) == Part(k, x, PE, e, PR, r)

\* With the version that has answered it.
Labelled(cells, v) == [j \in DOMAIN cells |-> [cell |-> cells[j], version |-> v]]
Answer(k, x, e, r, v) == Labelled(Piece(k, x, e, r), v)

ObsType == [Kinds -> [Envs \X Rollouts -> Seq(Seq(CellSet))]]
ResType == [Kinds -> [Rollouts \X Envs -> Seq(Seq(LabelledSet))]]

\* Row y of what e merges is of its source i.
IsRowOf(y, e, i) ==
  \E j \in 1..Common(PE, e, PR, EnvSrcs(e)[i]) : y = Offset(PE, e, PR, EnvSrcs(e)[i]) + j

-----------------------------------------------------------------------------
(* Where a worker is *)

\* The position of an epoch's first batch in its call.
Base(k, epoch) == epoch * Positions(k)

EnvSet == [pc : {"idle", "boot", "yield", "recv", "prefetch", "stopped"}, kind : Kinds,
           epoch : Nat, i : Nat, got : Seq(Seq(LabelledSet))]

\* The env worker me is in its call of a kind.
Busy(k, me) ==
  /\ me \in EnvSet /\ me.kind = k /\ me.pc \in {"boot", "yield", "recv", "stopped"}
  /\ me.epoch < cfg.epochs /\ me.i < Positions(k) /\ (me.pc = "boot" => me.i = 0)

\* The batch of its call that me waits for, and how many of them it has sent;
\* all of them when it has returned.
PosOf(k, me) == IF me.pc = "idle" THEN RolloutPositions(k) ELSE Base(k, me.epoch) + me.i

\* It has still to send the first observations of its epoch.
Bootstraps(k, me, pre) ==
  /\ me.pc = "boot" /\ ~(k = "train" /\ me.epoch = 0 /\ pre)
  /\ k = "eval" => ~cfg.autoReset \/ me.epoch = 0

SentOf(k, me, pre) ==
  IF me.pc = "idle" THEN RolloutPositions(k)
  ELSE IF Bootstraps(k, me, pre) THEN PosOf(k, me)
  ELSE IF k = "eval" /\ cfg.autoReset THEN MinOf(PosOf(k, me) + Stages, RolloutPositions(k))
  ELSE Base(k, me.epoch) + MinOf(me.i + Stages, Positions(k))

-----------------------------------------------------------------------------
(* The line between two workers *)

\* The kind of the call the workers are in.
Now == IF cfg.async \/ runner.pc = "rollouts" THEN "train" ELSE IF runner.pc = "eval" THEN "eval" ELSE "none"

\* What is on its way back from r to e, and from e to r: the part the receiver
\* has already taken, then the queue.
TakenPart(kind, now, got, i) == IF kind = now /\ i <= Len(got) THEN <<got[i]>> ELSE <<>>
Coming(k, e, r, now, me, s) == TakenPart(k, now, me.got, Of(e, r)) \o s
Going(k, e, r, now, ro, q) == TakenPart(k, now, ro.got, By(r, e)) \o q

\* The same between two calls: only a prefetched bootstrap is out.
Pos(k, now, me) == IF k = now THEN PosOf(k, me) ELSE 0
Sent(k, now, me, pre) ==
  IF k = now THEN SentOf(k, me, pre) ELSE IF k = "train" /\ pre THEN Stages ELSE 0

\* Between e and r are the answers from batch pos on and then the observations
\* up to batch sent, each the part of one batch.
Linked(k, e, r, pos, sent, cs, gs) ==
  /\ cs \in Seq(Seq(LabelledSet)) /\ gs \in Seq(Seq(CellSet))
  /\ pos + Len(cs) + Len(gs) = sent
  /\ \A j \in 1..Len(cs) : cs[j] = Answer(k, pos + j - 1, e, r, cs[j][1].version)
  /\ \A j \in 1..Len(gs) : gs[j] = Piece(k, pos + Len(cs) + j - 1, e, r)

\* The rollout worker is at batch x of its call, or at the end of it.
IsAt(k, ro, x) ==
  \/ x < RolloutPositions(k) /\ ro.pc # "idle" /\ ro.i = x
  \/ x = RolloutPositions(k) /\ ro.i = 0 /\ (cfg.async \/ ro.pc = "idle")

PairIs(k, e, r, now, pos, sent, ro, cs, gs) ==
  /\ Linked(k, e, r, pos, sent, cs, gs)
  /\ IF k = now THEN IsAt(k, ro, pos + Len(cs)) ELSE cs = <<>>

PairOK(k, e, r, now, me, pre, ro, q, s) ==
  PairIs(k, e, r, now, Pos(k, now, me), Sent(k, now, me, pre), ro,
         Coming(k, e, r, now, me, s), Going(k, e, r, now, ro, q))

-----------------------------------------------------------------------------
(* The invariant *)

RolloutSet == [pc : {"idle", "recv", "stopped"}, kind : Kinds, epoch : Nat, i : Nat, got : Seq(Seq(CellSet))]
RunnerSet == [pc : {"run", "stopping", "start", "rollouts", "train", "eval", "done"}, step : Nat]
ResultSet == [kind : Kinds, stage : Nat, n : Nat, rows : Seq(LabelledSet)]

TypeOK ==
  /\ cfg \in Configs
  /\ runner.pc \in (IF cfg.async THEN {"run", "stopping", "done"} ELSE {"start", "rollouts", "train", "eval", "done"})
  /\ runner \in RunnerSet
  /\ env \in [Envs -> EnvSet] /\ rollout \in [Rollouts -> RolloutSet]
  /\ version \in [Rollouts -> Nat] /\ prefetched \in [Envs -> BOOLEAN]
  /\ results \in [Envs -> Seq(ResultSet)]
  /\ obs \in ObsType /\ res \in ResType

\* Between two calls the workers are idle; in one they are of its kind.
EnvIs(e, now, me) ==
  /\ IF now = "none" THEN me.pc \in {"idle", "prefetch"}
     ELSE Busy(now, me) \/ (me.pc = "idle" /\ ~cfg.async)
  /\ Len(me.got) < Len(EnvSrcs(e))
  /\ me.pc # "recv" => me.got = <<>>

\* An env worker has a prefetched bootstrap only until the call that uses it.
PrefetchIs(run, me, pre) ==
  /\ me.pc = "prefetch" => run.pc = "train" /\ ~pre /\ run.step + 1 < cfg.steps
  /\ pre => /\ ~cfg.async /\ run.pc # "done" /\ run.step + (IF run.pc = "train" THEN 1 ELSE 0) < cfg.steps
            /\ run.pc = "rollouts" => me.pc = "boot" /\ me.epoch = 0

RolloutIs(r, now, ro) ==
  /\ IF now = "none" THEN ro.pc = "idle"
     ELSE /\ ro.kind = now /\ ro.i < RolloutPositions(now)
          /\ cfg.async => ro.pc # "idle"
  /\ Len(ro.got) < Len(RolloutSrcs(r))
  /\ ro.pc = "idle" => ro.got = <<>> /\ ro.i = 0

EnvOK == \A e \in Envs : EnvIs(e, Now, env[e]) /\ PrefetchIs(runner, env[e], prefetched[e])
RolloutOK == \A r \in Rollouts : RolloutIs(r, Now, rollout[r])

Paired == \A k \in Kinds, e \in Envs, r \in Rollouts : Near(e, r) =>
            PairOK(k, e, r, Now, env[e], prefetched[e], rollout[r], obs[k][<<e, r>>], res[k][<<r, e>>])

\* Nothing passes between workers that have no slot in common.
Apart == \A k \in Kinds, e \in Envs, r \in Rollouts :
           ~Near(e, r) => obs[k][<<e, r>>] = <<>> /\ res[k][<<r, e>>] = <<>>

\* A batch of results has the cells of its observation.
RowsOK(rows, k, stage, n, e) ==
  Len(rows) = PE /\ \A y \in 1..PE : rows[y].cell = [kind |-> k, slot |-> e * PE + y - 1, stage |-> stage, n |-> n]

ResultsOK == \A e \in Envs : \A l \in DOMAIN results[e] :
  RowsOK(results[e][l].rows, results[e][l].kind, results[e][l].stage, results[e][l].n, e)

Inv == TypeOK /\ EnvOK /\ RolloutOK /\ Paired /\ Apart /\ ResultsOK
-----------------------------------------------------------------------------
(* The versions *)

Older(a, b) == a >= 0 /\ b >= 0 => IF cfg.async THEN a <= b ELSE a = b

\* The results of e are of the call it is in.
Fresh(now, me) == cfg.async \/ (now # "none" /\ ~(me.pc = "boot" /\ me.epoch = 0))

\* The labels of what comes from r, before them those of the results of e, and
\* after them the version of r.
Ordered(e, r, fresh, bs, cs, v) ==
  /\ \A j \in 1..Len(cs) : Older(cs[j][1].version, v)
  /\ \A j, m \in 1..Len(cs) : j < m => Older(cs[j][1].version, cs[m][1].version)
  /\ fresh => \A l \in DOMAIN bs : \A y \in 1..PE : IsRowOf(y, e, Of(e, r)) =>
       /\ Older(bs[l].rows[y].version, v)
       /\ \A j \in 1..Len(cs) : Older(bs[l].rows[y].version, cs[j][1].version)

VersionsOK ==
  \A e \in Envs, r \in Rollouts : Near(e, r) /\ Now # "none" =>
    Ordered(e, r, Fresh(Now, env[e]), results[e], Coming(Now, e, r, Now, env[e], res[Now][<<r, e>>]), version[r])

VInv == VersionsOK /\ PolicyInOrder
=============================================================================
