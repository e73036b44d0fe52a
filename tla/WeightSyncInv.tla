--------------------------- MODULE WeightSyncInv ---------------------------
(***************************************************************************)
(* The invariant from which the theorems about WeightSync follow.  It says *)
(* three things: who has reached which message (Steps), that every rank    *)
(* has received the same (Agree), and what that is (Content).              *)
(***************************************************************************)
EXTENDS WeightSync

\* The replay buffer of a background run in patch mode becomes ready after the
\* first synchronisation only.
ReadyFirst == \A m \in Modes : m.early => m.syncer \notin {"patch", "patch_init"}

\* A runner that waits does not load buckets as they come.
BufferedOrNoWait == \A m \in Modes : m.syncer = "instant" => m.noWait

Updated == [Params -> Values]
Partial == UNION {[S -> Values] : S \in SUBSET Params}

\* Type invariant.
TypeOK ==
  /\ mode \in Modes
  /\ runner \in [pc : {"sync", "syncing", "train"}, step : Nat]
  /\ weights \in Updated
  /\ policies \in Seq(Updated)
  /\ sender \in [pc : {"idle", "called", "meta", "send", "sent"},
                 kind : {"bucket", "init", "patch"}, k : 0..Last, data : Partial]
  /\ IF snapshot = <<>> THEN flush = None ELSE snapshot \in Updated
  /\ flush \in Partial
  /\ call \in [Rollouts -> BOOLEAN] /\ requested \in [Rollouts -> BOOLEAN]
  /\ task \in [Rollouts -> [pc : {"none", "meta", "recv", "load", "done"}, k : Int,
                            got : Partial, label : Nat, buffer : Partial]]
  /\ model \in [Rollouts -> [Params -> Values \cup {-1}]]
  /\ version \in [Rollouts -> Nat \cup {-1}]

-----------------------------------------------------------------------------
(* Who has reached which message *)

\* The numbers of the last message of a synchronisation, of its first one, and
\* of the one the sender is at.
LastNo == IF IsPatch THEN 0 ELSE Last - 1
FirstNo == IF mode.syncer = "patch_init" /\ snapshot = <<>> THEN -Last ELSE 0
ThisNo == CASE sender.kind = "patch" -> 0
            [] sender.kind = "init" -> sender.k - Last - 1
            [] OTHER -> sender.k - 1

SenderShape ==
  /\ sender.pc = "meta" => IsPatch /\ snapshot = <<>>
  /\ sender.pc \in {"send", "sent"} =>
       /\ sender.kind = "patch" => IsPatch /\ snapshot # <<>>
       /\ sender.kind = "init" => mode.syncer = "patch_init" /\ snapshot = <<>> /\ sender.k >= 1
       /\ sender.kind = "bucket" => ~IsPatch /\ sender.k >= 1

\* r has received all of its last synchronisation.
Free(r) ==
  \/ task[r].pc \in {"none", "done"}
  \/ task[r].pc = "load" /\ task[r].k = LastNo

\* r and the sender have the same idea of whether the next one is the first.
Known(r) ==
  IsPatch /\ (r = 0 \/ mode.syncer = "patch_init") =>
    (version[r] = -1 /\ task[r].pc # "load" <=> snapshot = <<>>)

Rested(r) == ~call[r] /\ ~requested[r] /\ Free(r) /\ Known(r)
Asked(r) ==
  /\ Free(r) /\ Known(r)
  /\ \/ call[r] /\ ~requested[r]
     \/ ~call[r] /\ requested[r] /\ task[r].pc # "none"
Joined(r) ==
  /\ ~call[r] /\ ~requested[r]
  /\ task[r].pc = "recv" \/ task[r].pc = "meta"
  /\ task[r].k = FirstNo
At(r, pc, k) == ~call[r] /\ ~requested[r] /\ task[r].pc = pc /\ task[r].k = k

ProgressAt(r) ==
  /\ sender.pc = "idle" => Rested(r)
  /\ sender.pc \in {"called", "meta"} => Asked(r) \/ Joined(r)
  /\ sender.pc = "send" =>
       \/ ThisNo = FirstNo /\ (Asked(r) \/ Joined(r))
       \/ At(r, "load", ThisNo - 1) \/ At(r, "recv", ThisNo)
  /\ sender.pc = "sent" =>
       IF ThisNo = LastNo THEN Rested(r)
       ELSE At(r, "load", ThisNo) \/ At(r, "recv", ThisNo + 1)

\* A runner that waits has nothing under way while it does something else.
Waiting ==
  ~mode.noWait /\ runner.pc # "syncing" =>
    sender.pc = "idle" /\ \A r \in Rollouts : task[r].pc = "none"

\* Before the snapshot is made no rank has reached the first patch.
BeforeSnapshot(r) ==
  IsPatch /\ snapshot = <<>> => version[r] = -1 /\ ~(task[r].pc = "load" /\ task[r].k = 0)

\* What a task holds, by its place; and only the init bootstrap has numbers
\* below zero.
TaskShape(r) ==
  /\ task[r].pc # "load" => task[r].got = None
  /\ task[r].pc \notin {"recv", "load"} \/ mode.syncer # "buffered" => task[r].buffer = None
  /\ IsPatch /\ task[r].pc \in {"recv", "load"} /\ task[r].k # 0 => version[r] = -1

Steps ==
  /\ TypeOK /\ SenderShape /\ Waiting
  /\ \A r \in Rollouts : ProgressAt(r) /\ BeforeSnapshot(r) /\ TaskShape(r)

-----------------------------------------------------------------------------
(* What they have received *)

\* The model of r with all it has received.
Received(r) ==
  [p \in Params |-> IF p \in DOMAIN task[r].got THEN task[r].got[p]
                   ELSE IF p \in DOMAIN task[r].buffer THEN task[r].buffer[p] ELSE model[r][p]]

Agree == \A r \in Rollouts : Received(r) = Received(0)

\* The snapshot as it will be when it is flushed.
Flushing == Override(snapshot, flush)

\* In patch mode the ranks have what the snapshot says, up to the patch that is
\* being sent.
SnapshotInv ==
  /\ IsPatch /\ snapshot # <<>> =>
       \A r \in Rollouts :
         IF sender.pc = "send" /\ sender.kind = "patch"
         THEN Override(Received(r), sender.data) = Flushing
         ELSE Received(r) = Flushing
  /\ mode.syncer = "patch" /\ snapshot = <<>> => \A r \in Rollouts : Received(r) = weights

\* Buckets are sent while the weights do not change.
Stable == sender.kind = "init" \/ (sender.kind = "bucket" /\ ~mode.noWait)
Sending ==
  /\ sender.pc \in {"send", "sent"} /\ Stable =>
       \A r \in Rollouts : \A p \in Params :
         p < sender.k \/ (p = sender.k /\ sender.pc = "sent") => Received(r)[p] = weights[p]
  /\ sender.pc = "send" /\ Stable => sender.data = [p \in {sender.k} |-> weights[p]]
  /\ sender.pc = "send" /\ sender.kind = "patch" /\ ~mode.noWait => Flushing = weights

\* A runner that waits: what has arrived is the weights, under their version.
Arrived ==
  ~mode.noWait => \A r \in Rollouts :
    /\ task[r].pc = "load" => task[r].label = runner.step
    /\ task[r].pc = "done" \/ runner.pc = "train" => version[r] = runner.step
    /\ \/ task[r].pc = "done" \/ runner.pc = "train"
       \/ task[r].pc = "load" /\ task[r].k = LastNo
       => Received(r) = weights

Content == SnapshotInv /\ Sending /\ Arrived

\* The policies of a runner that waits, and the models that are labelled.
PolicyInv ==
  ~mode.noWait =>
    /\ Len(policies) = IF runner.pc = "sync" THEN runner.step ELSE runner.step + 1
    /\ runner.pc # "sync" => policies[runner.step + 1] = weights
    /\ \A r \in Rollouts : version[r] >= 0 =>
         version[r] + 1 <= Len(policies) /\ model[r] = policies[version[r] + 1]
=============================================================================
