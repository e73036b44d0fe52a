----------------------------- MODULE Collective -----------------------------
(***************************************************************************)
(* Collective groups: send, recv, send_tensor, recv_tensor and broadcast    *)
(* between workers, down to the process groups their messages travel on.    *)
(*                                                                          *)
(*   src/rlinf/scheduler/collective/collective_group.py                     *)
(*                        (CollectiveGroup, CollectiveWorkQueue)            *)
(*   src/rlinf/scheduler/collective/multi_channel_pg.py                     *)
(*                        (MultiChannelProcessGroup)                        *)
(*   src/rlinf/scheduler/collective/collective.py                           *)
(*   src/rlinf/scheduler/worker/worker.py     (_get_collective_group)       *)
(*                                                                          *)
(* A worker's calls run on its main thread or, when asynchronous, one after *)
(* the other on the thread of a work queue of the group.  A call is a list  *)
(* of operations, computed from what the rank knows: a receiver learns the  *)
(* kind and the tensors from the messages it takes, and its remaining       *)
(* operations follow from them.                                             *)
(*                                                                          *)
(* Outside the code, and assumed: a process group matches its operations in *)
(* the order in which each member issues them; on gloo a sender waits for   *)
(* its receivers; on the CCL of the accelerators an operation is put on a   *)
(* stream and lands later; memory shared by IPC is read as it is at that    *)
(* moment.  An object goes as its length and its bytes: one message here.   *)
(***************************************************************************)
EXTENDS Integers, Sequences, FiniteSets, SequencesExt

CONSTANTS
  Scenes,    \* a set of Scene records
  CclModels  \* the accelerator models whose type is in CCL_SUPPORT_LIST

\* A tensor is the device it is on; 0 is the CPU.
Call == [op     : {"send", "recv", "send_tensor", "recv_tensor", "broadcast"},
         peer   : Nat,       \* the other worker; of a broadcast, the source
         kind   : {"list", "dict", "dataclass", "object"},
         tensors: Seq(Nat),  \* of a sender; of recv_tensor, its own tensor
         ring   : BOOLEAN,   \* options.use_ring_broadcast
         async  : BOOLEAN]

\* accels: available_accelerators, one number for a node and a device;
\* current: current_device(); model: accelerator_model; calls: what each
\* worker calls, in order.  Workers are numbered as their addresses sort.
Scene == [n : Nat, accels : Seq(SUBSET (Nat \ {0})), current : Seq(Nat), model : Seq(Nat),
          calls : Seq(Seq(Call))]

ASSUME CclModelsAssumption == CclModels \subseteq Nat
ASSUME CollectiveAssumption ==
  \A s \in Scenes :
    /\ s \in Scene /\ s.n >= 2
    /\ \A f \in {"accels", "current", "model", "calls"} : Len(s[f]) = s.n
    /\ \A r \in 1..s.n : IsFiniteSet(s.accels[r])
    /\ \A r \in 1..s.n : \A c \in 1..Len(s.calls[r]) :
         LET call == s.calls[r][c]
         IN  /\ call.peer \in 1..s.n /\ (call.op # "broadcast" => call.peer # r)
             /\ \A k \in 1..Len(call.tensors) : call.tensors[k] \in s.accels[r] \union {0}
             /\ call.op \in {"send_tensor", "recv_tensor"} => Len(call.tensors) = 1

VARIABLES
  scene,
  issued,   \* per worker: how many of its calls it has issued
  queue,    \* per thread: the calls in its work queue
  running,  \* per thread: the call it runs, or 0
  todo,     \* per thread: the operations left of that call
  unsent,   \* per thread: what it has sent on gloo and not waited for
  joined,   \* <<group, worker>> whose worker has entered _init_process_group
  wire,     \* per process group: the messages, in order
  count,    \* per process group and worker: the operations it has issued there
  mem,      \* per worker and call: the tensors; index 0 is the object
  result,   \* per worker and call: what the call returned
  used      \* <<process group, worker, device>> of the accelerator operations

vars == <<scene, issued, queue, running, todo, unsent, joined, wire, count, mem, result, used>>

Workers == 1..scene.n
CallsOf(r) == scene.calls[r]

-----------------------------------------------------------------------------
(* Groups, process groups and threads.                                      *)

World == [i \in 1..scene.n |-> i]
\* Mutant: each side puts itself first.
PairUnsorted(r, q) == <<r, q>>

Pair(r, q) == IF r < q THEN <<r, q>> ELSE <<q, r>>

\* Accelerator tensors go over gloo in a group with two models, without an
\* accelerator or with one that has no CCL.
NoCcl(g) == \/ \E r \in Range(g) : scene.model[r] # scene.model[g[1]]
            \/ scene.accels[g[1]] = {}
            \/ scene.model[g[1]] \notin CclModels
Backend(g, t) == IF t = 0 \/ NoCcl(g) THEN "gloo" ELSE "ccl"

\* The second of a group has its send and its recv process groups swapped.
SendLane(g, r) == IF r = g[2] THEN "recv" ELSE "send"
RecvLane(g, r) == IF r = g[2] THEN "send" ELSE "recv"
SendPg(g, r, t) == [group |-> g, lane |-> SendLane(g, r), backend |-> Backend(g, t)]
RecvPg(g, r, t) == [group |-> g, lane |-> RecvLane(g, r), backend |-> Backend(g, t)]
AllPg(g, t) == [group |-> g, lane |-> "collective", backend |-> Backend(g, t)]

Wire(pg) == IF pg \in DOMAIN wire THEN wire[pg] ELSE <<>>
Count(pg, r) == IF <<pg, r>> \in DOMAIN count THEN count[<<pg, r>>] ELSE 0
Counted(pg, r) == [x \in DOMAIN count \union {<<pg, r>>} |->
                     IF x = <<pg, r>> THEN Count(pg, r) + 1 ELSE count[x]]

QueueOf(r, call) ==
  IF call.op = "broadcast" THEN <<r, "collective", World>>
  ELSE IF call.op \in {"send", "send_tensor"} THEN <<r, "send", Pair(r, call.peer)>>
  ELSE <<r, "recv", Pair(r, call.peer)>>
Main(r) == <<r, "main", <<>>>>
QueueThreads == UNION {{QueueOf(r, CallsOf(r)[c]) : c \in 1..Len(CallsOf(r))} : r \in Workers}
Threads == QueueThreads \union {Main(r) : r \in Workers}

-----------------------------------------------------------------------------
(* Operations.  slots: the tensors an operation is about; accel: whether    *)
(* they are on an accelerator.                                              *)

Join(g) == <<[do |-> "join", group |-> g]>>
Post(pg, what, slots) == <<[do |-> "post", pg |-> pg, what |-> what, slots |-> slots]>>
Drain == <<[do |-> "drain"]>>
Put(pg, what, slots) == Post(pg, what, slots) \o (IF pg.backend = "gloo" THEN Drain ELSE <<>>)
Take(pg, what, slots, accel) ==
  <<[do |-> "take", pg |-> pg, what |-> what, slots |-> slots, accel |-> accel]>>
Say(r, src, pg, what, slots, accel) ==
  IF r = src THEN Put(pg, what, slots) ELSE Take(pg, what, slots, accel)

\* The elements of s that are in S.
KeepOf(s, S) ==
  LET kept[i \in 0..Len(s)] ==
        IF i = 0 THEN <<>> ELSE IF s[i] \in S THEN Append(kept[i - 1], s[i]) ELSE kept[i - 1]
  IN  kept[Len(s)]
\* The same; TLC evaluates s and S once.
Keep(s, S) == CHOOSE k \in {KeepOf(t, T) : t \in {s}, T \in {S}} : TRUE
SlotsOf(ts) == [i \in 1..Len(ts) |-> i]
CpuSlots(ts) == Keep(SlotsOf(ts), {i \in 1..Len(ts) : ts[i] = 0})
AccelSlots(ts) == Keep(SlotsOf(ts), {i \in 1..Len(ts) : ts[i] # 0})
On(ts, d) == Keep(AccelSlots(ts), {i \in 1..Len(ts) : ts[i] = d})
NotOn(ts, d) == Keep(AccelSlots(ts), {i \in 1..Len(ts) : ts[i] # d})

PutEach(g, r, ts, slots) ==
  FlattenSeq([i \in 1..Len(slots) |-> Put(SendPg(g, r, ts[slots[i]]), "tensor", <<slots[i]>>)])
TakeEach(g, r, ts, slots) ==
  FlattenSeq([i \in 1..Len(slots) |->
    Take(RecvPg(g, r, ts[slots[i]]), "tensor", <<slots[i]>>, ts[slots[i]] # 0)])

\* Mutant: the sender does not wait until the zero is taken.
IpcSendNoWait(g, r, slots) ==
  IF slots = <<>> THEN <<>>
  ELSE Put(SendPg(g, r, 0), "handles", slots) \o Post(SendPg(g, r, 0), "zero", <<>>)

\* The trailing zero tells the sender that the receiver has its copy.
IpcSend(g, r, slots) ==
  IF slots = <<>> THEN <<>>
  ELSE Put(SendPg(g, r, 0), "handles", slots) \o Put(SendPg(g, r, 0), "zero", <<>>)
IpcRecv(g, r, slots) ==
  IF slots = <<>> THEN <<>>
  ELSE Take(RecvPg(g, r, 0), "handles", slots, TRUE) \o Take(RecvPg(g, r, 0), "zero", <<>>, FALSE)

OneDevice(r) == Cardinality(scene.accels[r]) = 1
Relation(r, q) ==
  IF scene.accels[r] \intersect scene.accels[q] = {} THEN "apart"
  ELSE IF OneDevice(r) /\ OneDevice(q) THEN "same" ELSE "unsure"

\* To an uncertain peer the sender tells the devices of its tensors, and learns
\* the receiver's current device, before it sends anything.
UnsureSend(g, r) == Put(SendPg(g, r, 0), "devices", <<>>) \o Take(RecvPg(g, r, 0), "device", <<>>, FALSE)
UnsureRecv(g, r) == Take(RecvPg(g, r, 0), "devices", <<>>, FALSE)
SendKnowing(g, r, ts, device) == IpcSend(g, r, On(ts, device)) \o PutEach(g, r, ts, NotOn(ts, device))
RecvKnowing(g, r, ts) ==
  LET device == scene.current[r]
  IN  Put(SendPg(g, r, 0), "device", <<>>)
      \o IpcRecv(g, r, On(ts, device)) \o TakeEach(g, r, ts, NotOn(ts, device))

-----------------------------------------------------------------------------
(* send and recv, send_tensor and recv_tensor.                              *)

SendList(g, r, ts, relation) ==
  Put(SendPg(g, r, 0), "meta", <<>>) \o PutEach(g, r, ts, CpuSlots(ts))
  \o (IF AccelSlots(ts) = <<>> THEN <<>>
      ELSE CASE relation = "apart"  -> PutEach(g, r, ts, AccelSlots(ts))
             [] relation = "same"   -> IpcSend(g, r, AccelSlots(ts))
             [] relation = "unsure" -> UnsureSend(g, r))

RecvList(g, r, ts, relation) ==
  TakeEach(g, r, ts, CpuSlots(ts))
  \o (IF AccelSlots(ts) = <<>> THEN <<>>
      ELSE CASE relation = "apart"  -> TakeEach(g, r, ts, AccelSlots(ts))
             [] relation = "same"   -> IpcRecv(g, r, AccelSlots(ts))
             [] relation = "unsure" -> UnsureRecv(g, r))

SendObject(g, r, what) == Put(SendPg(g, r, 0), what, <<0>>)
SendDict(g, r, ts, relation) == SendObject(g, r, "keys") \o SendList(g, r, ts, relation)
SendDataclass(g, r, ts, relation) == SendList(g, r, ts, relation) \o SendObject(g, r, "object")

AtomicSend(r, call) ==
  LET g == Pair(r, call.peer)
      ts == call.tensors
      relation == Relation(r, call.peer)
  IN  Join(g) \o Put(SendPg(g, r, 0), "type", <<>>)
      \o (CASE call.kind = "list"      -> SendList(g, r, ts, relation)
            [] call.kind = "dict"      -> SendDict(g, r, ts, relation)
            [] call.kind = "dataclass" -> SendDataclass(g, r, ts, relation)
            [] call.kind = "object"    -> SendObject(g, r, "object"))

\* A receiver goes on when it has the metadata of the list (Learned).
RecvMetadata(g, r) == Take(RecvPg(g, r, 0), "meta", <<>>, FALSE)
RecvObject(g, r, what) == Take(RecvPg(g, r, 0), what, <<0>>, FALSE)
RecvDict(g, r) == RecvObject(g, r, "keys") \o RecvMetadata(g, r)
RecvDataclass(g, r) == RecvMetadata(g, r) \o RecvObject(g, r, "object")

AtomicRecv(r, call) ==
  LET g == Pair(r, call.peer) IN Join(g) \o Take(RecvPg(g, r, 0), "type", <<>>, FALSE)
RecvKind(r, call, kind) ==
  LET g == Pair(r, call.peer)
  IN  CASE kind = "list"      -> RecvMetadata(g, r)
        [] kind = "dict"      -> RecvDict(g, r)
        [] kind = "dataclass" -> RecvDataclass(g, r)
        [] kind = "object"    -> RecvObject(g, r, "object")

AtomicSendTensor(r, call) ==
  LET g == Pair(r, call.peer)
      ts == call.tensors
  IN  Join(g)
      \o (CASE ts[1] = 0 \/ Relation(r, call.peer) = "apart" -> PutEach(g, r, ts, <<1>>)
            [] ts[1] # 0 /\ Relation(r, call.peer) = "same"   -> IpcSend(g, r, <<1>>)
            [] ts[1] # 0 /\ Relation(r, call.peer) = "unsure" -> UnsureSend(g, r))
AtomicRecvTensor(r, call) ==
  LET g == Pair(r, call.peer)
      ts == call.tensors
  IN  Join(g)
      \o (CASE ts[1] = 0 \/ Relation(r, call.peer) = "apart" -> TakeEach(g, r, ts, <<1>>)
            [] ts[1] # 0 /\ Relation(r, call.peer) = "same"   -> IpcRecv(g, r, <<1>>)
            [] ts[1] # 0 /\ Relation(r, call.peer) = "unsure" -> UnsureRecv(g, r))

\* On one device the handle is sent as an object, that is with a payload, and
\* the receiver takes what _recv_object returns for the handle itself.
SendTensorKnowing(g, r, ts, device) ==
  IF ts[1] = device
  THEN Put(SendPg(g, r, 0), "object", <<1>>) \o Put(SendPg(g, r, 0), "zero", <<>>)
  ELSE PutEach(g, r, ts, <<1>>)
RecvTensorKnowing(g, r, ts, device) ==
  Put(SendPg(g, r, 0), "device", <<>>)
  \o (IF ts[1] = device
      THEN Take(RecvPg(g, r, 0), "handle", <<1>>, TRUE) \o Take(RecvPg(g, r, 0), "zero", <<>>, FALSE)
      ELSE TakeEach(g, r, ts, <<1>>))

-----------------------------------------------------------------------------
(* broadcast: every rank computes its part from the workers' devices, the   *)
(* source and, once it has the metadata, the tensors.                       *)

Receivers(src) == Keep(World, Workers \ {src})
Classified(src, relation) == Keep(Receivers(src), {q \in Workers : Relation(src, q) = relation})

\* Mutant: every rank is on a device of its own.
GroupRanksApart(ranks) == [i \in 1..Len(ranks) |-> <<ranks[i]>>]

GroupRanksByDevice(ranks) ==
  LET of(q) == Keep(ranks, {x \in Range(ranks) : OneDevice(x) /\ scene.accels[x] = scene.accels[q]})
      heads == Keep(ranks, {q \in Range(ranks) : OneDevice(q) /\ of(q)[1] = q})
      rest  == Keep(ranks, {q \in Range(ranks) : ~OneDevice(q)})
  IN  [i \in 1..Len(heads) |-> of(heads[i])] \o [i \in 1..Len(rest) |-> <<rest[i]>>]
ApartGroups(src) == GroupRanksByDevice(Classified(src, "apart"))
Shared(src) == \E i \in 1..Len(ApartGroups(src)) : Len(ApartGroups(src)[i]) > 1

ShouldUseRing(src, ts, ring) ==
  /\ ring
  /\ Len(Receivers(src)) >= 2
  /\ Classified(src, "same") = <<>> /\ Classified(src, "unsure") = <<>>
  /\ AccelSlots(ts) # <<>> => ~Shared(src) /\ \E q \in Workers : scene.model[q] # scene.model[src]

\* src to the first receiver, and from it to the others: each tensor goes on
\* while the next one comes in.
RingBroadcast(r, src, ts) ==
  LET first == Receivers(src)[1]
      others == Tail(Receivers(src))
      hop == Pair(src, first)
      onward(k) == FlattenSeq([i \in 1..Len(others) |->
                     Post(SendPg(Pair(first, others[i]), first, ts[k]), "tensor", <<k>>)])
  IN  CASE r = src   -> Join(hop) \o PutEach(hop, r, ts, SlotsOf(ts))
        [] r = first ->
             Join(hop)
             \o FlattenSeq([i \in 1..Len(others) |-> Join(Pair(first, others[i]))])
             \o FlattenSeq([k \in 1..Len(ts) |->
                  TakeEach(hop, r, ts, <<k>>) \o Drain \o onward(k)])
             \o Drain
        [] OTHER     -> Join(Pair(first, r)) \o TakeEach(Pair(first, r), r, ts, SlotsOf(ts))

\* Tensors that are all on the CPU: from src to every receiver at once.
FanOut(r, src, ts) ==
  LET to == Receivers(src)
      send(q) == Join(Pair(src, q))
                 \o FlattenSeq([k \in 1..Len(ts) |-> Post(SendPg(Pair(src, q), src, 0), "tensor", <<k>>)])
  IN  IF r = src THEN FlattenSeq([i \in 1..Len(to) |-> send(to[i])]) \o Drain
      ELSE Join(Pair(src, r)) \o TakeEach(Pair(src, r), r, ts, SlotsOf(ts))

SayEach(r, src, g, ts, slots) ==
  FlattenSeq([i \in 1..Len(slots) |->
    Say(r, src, AllPg(g, ts[slots[i]]), "tensor", <<slots[i]>>, ts[slots[i]] # 0)])

\* The receivers apart from src: one for each device is in a collective with
\* src, and shares the tensors with the others of its device by IPC.
SubGroup(src, heads) == Keep(World, {src} \union Range(heads))
\* Mutant: the tensors are shared while the collective may be under way.
HeadOfDeviceUnsynced(r, src, ts, heads, peers) ==
  Join(SubGroup(src, heads)) \o SayEach(r, src, SubGroup(src, heads), ts, AccelSlots(ts))
  \o FlattenSeq([i \in 1..Len(peers) |->
       Join(Pair(r, peers[i])) \o IpcSend(Pair(r, peers[i]), r, AccelSlots(ts))])

HeadOfDevice(r, src, ts, heads, peers) ==
  Join(SubGroup(src, heads)) \o SayEach(r, src, SubGroup(src, heads), ts, AccelSlots(ts))
  \o (IF peers = <<>> THEN <<>> ELSE <<[do |-> "sync"]>>)
  \o FlattenSeq([i \in 1..Len(peers) |->
       Join(Pair(r, peers[i])) \o IpcSend(Pair(r, peers[i]), r, AccelSlots(ts))])

Hybrid(r, src, ts) ==
  LET same == Classified(src, "same")
      unsure == Classified(src, "unsure")
      groups == ApartGroups(src)
      heads == [i \in 1..Len(groups) |-> groups[i][1]]
      mine == CHOOSE i \in 1..Len(groups) : r \in Range(groups[i])
      fromHead == Pair(groups[mine][1], r)
  IN  (CASE r = src ->
              FlattenSeq([i \in 1..Len(same) |->
                Join(Pair(src, same[i])) \o IpcSend(Pair(src, same[i]), r, AccelSlots(ts))])
              \o FlattenSeq([i \in 1..Len(unsure) |->
                   Join(Pair(src, unsure[i])) \o UnsureSend(Pair(src, unsure[i]), r)])
              \o (IF heads = <<>> THEN <<>> ELSE HeadOfDevice(r, src, ts, heads, <<>>))
         [] r \in Range(same)   -> Join(Pair(src, r)) \o IpcRecv(Pair(src, r), r, AccelSlots(ts))
         [] r \in Range(unsure) -> Join(Pair(src, r)) \o UnsureRecv(Pair(src, r), r)
         [] r \in Range(heads)  -> HeadOfDevice(r, src, ts, heads, Tail(groups[mine]))
         [] OTHER               -> Join(fromHead) \o IpcRecv(fromHead, r, AccelSlots(ts)))
      \o SayEach(r, src, World, ts, CpuSlots(ts))

Payload(r, src, ts, ring) ==
  CASE ShouldUseRing(src, ts, ring) -> RingBroadcast(r, src, ts)
    [] ~ShouldUseRing(src, ts, ring) /\ AccelSlots(ts) = <<>> -> FanOut(r, src, ts)
    [] ~ShouldUseRing(src, ts, ring) /\ AccelSlots(ts) # <<>> ->
         IF /\ Classified(src, "same") = <<>> /\ Classified(src, "unsure") = <<>>
            /\ ~Shared(src)
         THEN SayEach(r, src, World, ts, SlotsOf(ts))
         ELSE Hybrid(r, src, ts)

AtomicBroadcast(r, call) ==
  Join(World) \o Say(r, call.peer, AllPg(World, 0), "type", <<>>, FALSE)

SayAll(r, call, what, slots) == Say(r, call.peer, AllPg(World, 0), what, slots, FALSE)
BroadcastList(r, call) ==
  SayAll(r, call, "meta", <<>>)
  \o (IF r = call.peer THEN Payload(r, r, call.tensors, call.ring) ELSE <<>>)
BroadcastDict(r, call) == SayAll(r, call, "keys", <<0>>) \o BroadcastList(r, call)
BroadcastObject(r, call) == SayAll(r, call, "object", <<0>>)
BroadcastDataclass(r, call) ==
  SayAll(r, call, "fields", <<>>) \o BroadcastList(r, call) \o BroadcastObject(r, call)
BroadcastKind(r, call, kind) ==
  CASE kind = "list"      -> BroadcastList(r, call)
    [] kind = "dict"      -> BroadcastDict(r, call)
    [] kind = "dataclass" -> BroadcastDataclass(r, call)
    [] kind = "object"    -> BroadcastObject(r, call)

-----------------------------------------------------------------------------
(* What a call begins with, and what a message it takes adds to it.         *)

IsSource(r, call) == call.op \in {"send", "send_tensor"} \/ (call.op = "broadcast" /\ call.peer = r)

Script(r, call) ==
  CASE call.op = "send"        -> AtomicSend(r, call)
    [] call.op = "recv"        -> AtomicRecv(r, call)
    [] call.op = "send_tensor" -> AtomicSendTensor(r, call)
    [] call.op = "recv_tensor" -> AtomicRecvTensor(r, call)
    [] call.op = "broadcast"   ->
         AtomicBroadcast(r, call)
         \o (IF r = call.peer THEN BroadcastKind(r, call, call.kind) ELSE <<>>)

\* What a message tells is what its sender was called with: its kind, its
\* tensors or its device.
Learned(r, call, op, msg) ==
  LET told == CallsOf(msg.owner)[msg.call]
      g == Pair(r, call.peer)
      device == IF told.op = "recv_tensor" THEN told.tensors[1] ELSE scene.current[msg.owner]
  IN  CASE op.what = "type" /\ call.op = "recv"      -> RecvKind(r, call, told.kind)
        [] op.what = "type" /\ call.op = "broadcast" -> BroadcastKind(r, call, told.kind)
        [] op.what = "meta" /\ call.op = "recv" ->
             RecvList(g, r, told.tensors, Relation(r, call.peer))
        [] op.what = "meta" /\ call.op = "broadcast" ->
             Payload(r, call.peer, told.tensors, call.ring)
        [] op.what = "devices" /\ call.op = "recv_tensor" ->
             RecvTensorKnowing(g, r, call.tensors, told.tensors[1])
        [] op.what = "devices" /\ call.op # "recv_tensor" -> RecvKnowing(g, r, told.tensors)
        [] op.what = "device" /\ call.op = "send_tensor" ->
             SendTensorKnowing(g, r, call.tensors, device)
        [] op.what = "device" /\ call.op = "send" -> SendKnowing(g, r, call.tensors, device)
        [] op.what = "device" /\ call.op = "broadcast" ->
             SendKnowing(Pair(r, msg.owner), r, call.tensors, device)
        [] op.what = "handles" ->
             <<[do |-> "clone", from |-> <<msg.owner, msg.call>>, there |-> msg.slots,
                here |-> op.slots]>>
        [] OTHER -> <<>>

-----------------------------------------------------------------------------
(* Memory.  A value is the worker, the call and the tensor it comes from.   *)

None   == <<0, 0, 0>>
Stale  == <<0, 0, 1>>  \* read before it had landed
Reused == <<0, 0, 2>>  \* overwritten: its owner's call had returned
Raised == <<0, 0, 3>>
Cell(v) == [v |-> v, landed |-> TRUE]

MemoryAtStart(r, c) ==
  LET call == CallsOf(r)[c]
  IN  IF IsSource(r, call) THEN [k \in 0..Len(call.tensors) |-> Cell(<<r, c, k>>)]
      ELSE [k \in 0..(IF call.op = "recv_tensor" THEN 1 ELSE 0) |-> Cell(None)]

Init ==
  /\ scene \in Scenes
  /\ issued = [r \in Workers |-> 0]
  /\ queue = [th \in Threads |-> <<>>]
  /\ running = [th \in Threads |-> 0]
  /\ todo = [th \in Threads |-> <<>>]
  /\ unsent = [th \in Threads |-> {}]
  /\ joined = {} /\ wire = <<>> /\ count = <<>> /\ used = {}
  /\ mem = <<>> /\ result = <<>>

-----------------------------------------------------------------------------
(* Calls and work queues.                                                   *)

Busy(th) == running[th] # 0 \/ queue[th] # <<>>

Begin(th, c) ==
  LET r == th[1]
  IN  /\ running' = [running EXCEPT ![th] = c]
      /\ todo' = [todo EXCEPT ![th] = Script(r, CallsOf(r)[c])]
      /\ mem' = [x \in DOMAIN mem \union {<<r, c>>} |->
                   IF x = <<r, c>> THEN MemoryAtStart(r, c) ELSE mem[x]]

\* The main thread queues an asynchronous call; a synchronous one it runs
\* itself, once the queue is done.
Enqueue(r) ==
  LET c == issued[r] + 1
  IN  /\ running[Main(r)] = 0 /\ c <= Len(CallsOf(r))
      /\ CallsOf(r)[c].async
      /\ issued' = [issued EXCEPT ![r] = c]
      /\ queue' = [queue EXCEPT ![QueueOf(r, CallsOf(r)[c])] = Append(@, c)]
      /\ UNCHANGED <<scene, running, todo, unsent, joined, wire, count, mem, result, used>>

CallSync(r) ==
  LET c == issued[r] + 1
  IN  /\ running[Main(r)] = 0 /\ c <= Len(CallsOf(r))
      /\ ~CallsOf(r)[c].async /\ ~Busy(QueueOf(r, CallsOf(r)[c]))
      /\ issued' = [issued EXCEPT ![r] = c]
      /\ Begin(Main(r), c)
      /\ UNCHANGED <<scene, queue, unsent, joined, wire, count, result, used>>

RunQueue(th) ==
  /\ running[th] = 0 /\ queue[th] # <<>>
  /\ queue' = [queue EXCEPT ![th] = Tail(@)]
  /\ Begin(th, Head(queue[th]))
  /\ UNCHANGED <<scene, issued, unsent, joined, wire, count, result, used>>

Reply(r, c) == [k \in DOMAIN mem[<<r, c>>] |-> mem[<<r, c>>][k].v]
Record(x, value) == [y \in DOMAIN result \union {x} |-> IF y = x THEN value ELSE result[y]]

\* Once the call has returned the caller may overwrite what it holds.
Return(th) ==
  LET x == <<th[1], running[th]>>
  IN  /\ running[th] # 0 /\ todo[th] = <<>>
      /\ running' = [running EXCEPT ![th] = 0]
      /\ result' = Record(x, Reply(x[1], x[2]))
      /\ mem' = [mem EXCEPT ![x] = [k \in DOMAIN @ |-> Cell(Reused)]]
      /\ UNCHANGED <<scene, issued, queue, todo, unsent, joined, wire, count, used>>

\* An exception ends the call; of a queue, it ends the thread.
Raise(th) ==
  /\ result' = Record(<<th[1], running[th]>>, [k \in {0} |-> Raised])
  /\ todo' = [todo EXCEPT ![th] = <<[do |-> "dead"]>>]
  /\ UNCHANGED <<scene, issued, queue, running, unsent, joined, wire, count, mem, used>>

-----------------------------------------------------------------------------
(* Operations of a call.                                                    *)

AtOp(th, do) == todo[th] # <<>> /\ Head(todo[th]).do = do
Pop(th) == todo' = [todo EXCEPT ![th] = Tail(@)]

\* Rank 0 publishes a port, the others wait for it, and the rendezvous waits
\* for everybody.
EnterGroup(th) ==
  /\ AtOp(th, "join")
  /\ <<Head(todo[th]).group, th[1]>> \notin joined
  /\ joined' = joined \union {<<Head(todo[th]).group, th[1]>>}
  /\ UNCHANGED <<scene, issued, queue, running, todo, unsent, wire, count, mem, result, used>>

LeaveGroupInit(th) ==
  /\ AtOp(th, "join")
  /\ \A q \in Range(Head(todo[th]).group) : <<Head(todo[th]).group, q>> \in joined
  /\ Pop(th)
  /\ UNCHANGED <<scene, issued, queue, running, unsent, joined, wire, count, mem, result, used>>

UsedBy(r, c, op) ==
  LET call == CallsOf(r)[c]
      device == IF IsSource(r, call) \/ call.op = "recv_tensor"
                THEN call.tensors[op.slots[1]] ELSE scene.current[r]
  IN  IF op.pg.backend = "ccl" THEN {<<op.pg, r, device>>} ELSE {}

PostMessage(th) ==
  LET r == th[1]
      c == running[th]
      op == Head(todo[th])
      msg == [what |-> op.what, owner |-> r, call |-> c, slots |-> op.slots,
              vals |-> [i \in 1..Len(op.slots) |-> mem[<<r, c>>][op.slots[i]].v]]
  IN  /\ AtOp(th, "post")
      /\ wire' = [x \in DOMAIN wire \union {op.pg} |->
                    IF x = op.pg THEN Append(Wire(op.pg), msg) ELSE wire[x]]
      /\ count' = Counted(op.pg, r)
      /\ unsent' = IF op.pg.backend = "gloo"
                   THEN [unsent EXCEPT ![th] = @ \union {<<op.pg, Len(Wire(op.pg)) + 1>>}]
                   ELSE unsent
      /\ used' = used \union UsedBy(r, c, op)
      /\ Pop(th)
      /\ UNCHANGED <<scene, issued, queue, running, joined, mem, result>>

WaitSent(th) ==
  /\ AtOp(th, "drain")
  /\ \A m \in unsent[th] : \A q \in Range(m[1].group) \ {th[1]} : Count(m[1], q) >= m[2]
  /\ unsent' = [unsent EXCEPT ![th] = {}]
  /\ Pop(th)
  /\ UNCHANGED <<scene, issued, queue, running, joined, wire, count, mem, result, used>>

Stored(x, op, msg) ==
  LET told == CallsOf(msg.owner)[msg.call]
  IN  CASE op.what = "meta" ->
             [k \in 0..Len(told.tensors) |-> IF k = 0 THEN mem[x][0] ELSE Cell(None)]
        [] op.what \in {"tensor", "object", "keys"} ->
             [k \in DOMAIN mem[x] |->
                IF \E i \in 1..Len(op.slots) : op.slots[i] = k
                THEN [v |-> msg.vals[1], landed |-> ~op.accel] ELSE mem[x][k]]
        [] OTHER -> mem[x]

\* The next message of the process group, whatever it is: one that is not what
\* the call expects is misread, and the call fails.
TakeMessage(th) ==
  LET r == th[1]
      c == running[th]
      op == Head(todo[th])
      msg == Wire(op.pg)[Count(op.pg, r) + 1]
  IN  /\ AtOp(th, "take")
      /\ Count(op.pg, r) < Len(Wire(op.pg))
      /\ IF msg.what = op.what
         THEN /\ todo' = [todo EXCEPT ![th] = Learned(r, CallsOf(r)[c], op, msg) \o Tail(@)]
              /\ mem' = [mem EXCEPT ![<<r, c>>] = Stored(<<r, c>>, op, msg)]
              /\ count' = Counted(op.pg, r)
              /\ used' = used \union UsedBy(r, c, op)
              /\ UNCHANGED <<scene, issued, queue, running, unsent, joined, wire, result>>
         ELSE Raise(th)

\* A rebuilt tensor is cloned and the stream synchronized.
CloneTensors(th) ==
  LET op == Head(todo[th])
      x == <<th[1], running[th]>>
      read(k) == IF mem[op.from][k].landed THEN mem[op.from][k].v ELSE Stale
  IN  /\ AtOp(th, "clone")
      /\ mem' = [mem EXCEPT ![x] = [k \in DOMAIN @ |->
                   IF \E i \in 1..Len(op.here) : op.here[i] = k
                   THEN Cell(read(op.there[CHOOSE i \in 1..Len(op.here) : op.here[i] = k]))
                   ELSE @[k]]]
      /\ Pop(th)
      /\ UNCHANGED <<scene, issued, queue, running, unsent, joined, wire, count, result, used>>

Landed(x) == \A k \in DOMAIN mem[x] : mem[x][k].landed

Synchronize(th) ==
  /\ AtOp(th, "sync")
  /\ Landed(<<th[1], running[th]>>)
  /\ Pop(th)
  /\ UNCHANGED <<scene, issued, queue, running, unsent, joined, wire, count, mem, result, used>>

\* The accelerator's stream catches up.
Land(x) ==
  /\ ~Landed(x)
  /\ mem' = [mem EXCEPT ![x] = [k \in DOMAIN @ |-> Cell(@[k].v)]]
  /\ UNCHANGED <<scene, issued, queue, running, todo, unsent, joined, wire, count, result, used>>

Step(th) ==
  \/ RunQueue(th) \/ Return(th)
  \/ EnterGroup(th) \/ LeaveGroupInit(th)
  \/ PostMessage(th) \/ WaitSent(th) \/ TakeMessage(th)
  \/ CloneTensors(th) \/ Synchronize(th)
CallNext(r) == Enqueue(r) \/ CallSync(r)

AllReturned == \A r \in Workers : \A c \in 1..Len(CallsOf(r)) : <<r, c>> \in DOMAIN result
Finished == AllReturned /\ UNCHANGED vars

Next ==
  \/ \E r \in Workers : CallNext(r)
  \/ \E th \in Threads : Step(th)
  \/ \E x \in DOMAIN mem : Land(x)
  \/ Finished

\* Every thread runs and every stream makes progress; no operation is repeated,
\* so that fairness of each is fairness of all.
Spec == Init /\ [][Next]_vars /\ WF_vars(Next)

-----------------------------------------------------------------------------
(* Properties.                                                              *)

Opposite(r, c, p, d) ==
  LET a == CallsOf(r)[c]
      b == CallsOf(p)[d]
  IN  CASE a.op = "broadcast"   -> b.op = "broadcast"
        [] a.op = "recv"        -> b.op = "send" /\ b.peer = r
        [] a.op = "recv_tensor" -> b.op = "send_tensor" /\ b.peer = r
        [] OTHER                -> FALSE
Alike(r, c, x) ==
  CallsOf(r)[x].op = CallsOf(r)[c].op /\ (CallsOf(r)[c].op = "broadcast" \/ CallsOf(r)[x].peer = CallsOf(r)[c].peer)

\* What call c of r is to return: what the other side gave to the call of the
\* same position.
Expected(r, c) ==
  LET p == CallsOf(r)[c].peer
      position == Cardinality({x \in 1..c : Alike(r, c, x)})
      d == CHOOSE d \in 1..Len(CallsOf(p)) :
             /\ Opposite(r, c, p, d)
             /\ Cardinality({y \in 1..d : Opposite(r, c, p, y)}) = position
      bare == CallsOf(p)[d].kind = "list" \/ CallsOf(r)[c].op = "recv_tensor"
  IN  [k \in 0..Len(CallsOf(p)[d].tensors) |-> IF k = 0 /\ bare THEN None ELSE <<p, d, k>>]

\* The k-th receive from a worker returns what the k-th send to it was given,
\* and the k-th broadcast what its source gave, every tensor in its place and
\* complete, whichever thread, route or group it went by; no call raises
\* (_atomic_send, collective_group.py:350: communications of two calls are in
\* the order in which the API is called).
Delivered ==
  \A x \in DOMAIN result :
    /\ result[x][0] # Raised
    /\ ~IsSource(x[1], CallsOf(x[1])[x[2]]) => result[x] = Expected(x[1], x[2])

\* A call that has shared its tensors by IPC does not return, and its caller
\* does not overwrite them, before every receiver has its copy
\* (_send_tensor_list_via_ipc).
HandlesLive ==
  \A th \in Threads : AtOp(th, "clone") => Head(todo[th]).from \notin DOMAIN result

\* No process group of the accelerators' CCL has two workers on one device:
\* NCCL rejects it (_broadcast_tensor_list, _group_ranks_by_device).
NoSharedAccelerator ==
  \A a, b \in used : a[1] = b[1] /\ a[2] # b[2] => a[3] # b[3]

\* Every call returns on every worker: all ranks take the same route, nobody
\* waits in a rendezvous or for a message that does not come.
EverybodyReturns == <>AllReturned
=============================================================================
