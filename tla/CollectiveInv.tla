--------------------------- MODULE CollectiveInv ---------------------------
(***************************************************************************)
(* What a scene must satisfy for the collective groups to be safe, and the  *)
(* invariant that shows it is enough: which operations a call can have left *)
(* to do, who posts and who takes on a process group, and where the sender  *)
(* of shared memory is while somebody may still read it.                    *)
(***************************************************************************)
EXTENDS Collective

(* The scenes                                                               *)

\* Some call of r is a broadcast from src.
Hears(r, src) == \E c \in 1..Len(CallsOf(r)) : CallsOf(r)[c].op = "broadcast" /\ CallsOf(r)[c].peer = src

\* A worker works on one of its accelerators, if it has any, and is of another
\* model than these if it has none; an uncertain peer receives in
\* place on the device it is on; and receivers apart from the source of a
\* broadcast are on one device only if they have no other, which is what
\* _group_ranks_by_device can see.
Placed ==
  /\ \A r \in Workers : scene.accels[r] # {} => scene.current[r] \in scene.accels[r]
  /\ \A r, q \in Workers :
       scene.accels[r] = {} /\ scene.accels[q] # {} => scene.model[r] # scene.model[q]
  /\ \A r \in Workers : \A c \in 1..Len(CallsOf(r)) :
       CallsOf(r)[c].op = "recv_tensor" /\ Relation(r, CallsOf(r)[c].peer) # "apart"
         => CallsOf(r)[c].tensors[1] \in {0, scene.current[r]}
  /\ \A src, r, q \in Workers :
       /\ r # q /\ scene.current[r] = scene.current[q] /\ Hears(r, src)
       /\ Relation(src, r) = "apart" /\ Relation(src, q) = "apart"
       => OneDevice(r) /\ OneDevice(q)

\* Two calls of r that may run at once: neither is a broadcast, and they are
\* not the two directions of a pair that also replies.
Disjoint(r, a, b) ==
  /\ a.op # "broadcast" /\ b.op # "broadcast"
  /\ a.peer = b.peer => Relation(r, a.peer) # "unsure"

\* A call that is issued while an asynchronous one of another work queue may
\* still be under way.
Ordered ==
  \A r \in Workers : \A c, d \in 1..Len(CallsOf(r)) :
    /\ c < d /\ CallsOf(r)[c].async
    /\ QueueOf(r, CallsOf(r)[c]) # QueueOf(r, CallsOf(r)[d])
    => Disjoint(r, CallsOf(r)[c], CallsOf(r)[d])

-----------------------------------------------------------------------------
(* Calls and threads                                                        *)

ThreadOf(r, c) == IF CallsOf(r)[c].async THEN QueueOf(r, CallsOf(r)[c]) ELSE Main(r)

\* A thread runs its own calls, in the order in which they were issued.
ThreadInv ==
  /\ issued \in [Workers -> Nat]
  /\ \A r \in Workers : issued[r] <= Len(CallsOf(r))
  /\ running \in [Threads -> Nat] /\ queue \in [Threads -> Seq(Nat)]
  /\ \A th \in Threads : running[th] # 0 =>
       running[th] \in 1..issued[th[1]] /\ ThreadOf(th[1], running[th]) = th
  /\ \A th \in Threads : \A i \in 1..Len(queue[th]) :
       /\ queue[th][i] \in 1..issued[th[1]] /\ queue[th][i] > running[th]
       /\ CallsOf(th[1])[queue[th][i]].async /\ ThreadOf(th[1], queue[th][i]) = th
       /\ \A j \in 1..(i - 1) : queue[th][j] < queue[th][i]

\* While the main thread runs a call nothing else is issued, and the call's
\* work queue is empty.
MainInv ==
  \A r \in Workers : running[Main(r)] # 0 =>
    /\ running[Main(r)] = issued[r]
    /\ ~Busy(QueueOf(r, CallsOf(r)[issued[r]]))

Dead == <<[do |-> "dead"]>>

\* A call with a result has returned or raised.
ResultInv ==
  \A x \in DOMAIN result :
    \E r \in Workers : \E c \in 1..issued[r] :
      /\ x = <<r, c>>
      /\ \A i \in 1..Len(queue[ThreadOf(r, c)]) : queue[ThreadOf(r, c)][i] # c
      /\ running[ThreadOf(r, c)] = c => todo[ThreadOf(r, c)] = Dead

-----------------------------------------------------------------------------
(* Operations                                                               *)

Words == {"type", "meta", "keys", "fields", "object", "tensor", "devices", "device",
          "handles", "handle", "zero"}
Pgs == [group : Seq(Workers), lane : {"send", "recv", "collective"}, backend : {"gloo", "ccl"}]

\* pg carries what r sends to q, what r receives from q.
Outward(r, q, pg) == pg.group = Pair(r, q) /\ pg.lane = SendLane(pg.group, r)
Inward(r, q, pg) == pg.group = Pair(r, q) /\ pg.lane = RecvLane(pg.group, r)

\* Call c of r posts to q, takes from q.
Posting(r, c, q) ==
  \/ CallsOf(r)[c].op = "broadcast"
  \/ CallsOf(r)[c].peer = q /\ (IsSource(r, CallsOf(r)[c]) \/ Relation(r, q) = "unsure")
Taking(r, c, q) ==
  \/ CallsOf(r)[c].op = "broadcast"
  \/ CallsOf(r)[c].peer = q /\ (~IsSource(r, CallsOf(r)[c]) \/ Relation(r, q) = "unsure")

\* The group of src and workers apart from it and, as far as can be seen, from
\* each other.
Spread(g, src) ==
  /\ src \in Range(g)
  /\ \A q \in Range(g) \ {src} : Relation(src, q) = "apart"
  /\ \A q, p \in Range(g) \ {src} :
       q # p /\ OneDevice(q) /\ OneDevice(p) => scene.accels[q] # scene.accels[p]

\* On a process group of the CCL r uses device d: a device no other member uses.
FitsAll(r, g, d) ==
  /\ r \in Range(g)
  /\ \E src \in Workers : Hears(r, src) /\ Spread(g, src) /\ (r # src => d = scene.current[r])
FitsPair(r, pg, d) ==
  \E q \in Workers \ {r} :
    \/ Outward(r, q, pg) /\ d # scene.current[q]
    \/ Inward(r, q, pg) /\ (d = scene.current[r] \/ Relation(r, q) = "apart")
Fits(r, pg, d) ==
  /\ d \in scene.accels[r]
  /\ IF pg.lane = "collective" THEN FitsAll(r, pg.group, d) ELSE FitsPair(r, pg, d)

\* The device that UsedBy names.
DeviceOf(r, c, slots) ==
  IF IsSource(r, CallsOf(r)[c]) \/ CallsOf(r)[c].op = "recv_tensor"
  THEN CallsOf(r)[c].tensors[slots[1]] ELSE scene.current[r]
OnDevice(r, c, pg, slots) == pg.backend = "ccl" /\ Placed => Fits(r, pg, DeviceOf(r, c, slots))

MayPost(r, c, pg, what, slots) ==
  /\ \/ CallsOf(r)[c].op = "broadcast" /\ pg.lane = "collective"
     \/ \E q \in Workers \ {r} : Outward(r, q, pg) /\ Posting(r, c, q)
  /\ what = "handles" => pg.backend = "gloo" /\ pg.lane # "collective"
  /\ what = "device" => /\ pg.lane # "collective"
                        /\ CallsOf(r)[c].op = "recv_tensor" => CallsOf(r)[c].tensors[1] # 0
  /\ OnDevice(r, c, pg, slots)

MayTake(r, c, pg, what, slots) ==
  /\ \/ CallsOf(r)[c].op = "broadcast" /\ pg.lane = "collective"
     \/ \E q \in Workers \ {r} : Inward(r, q, pg) /\ Taking(r, c, q)
  /\ what \in {"type", "meta", "devices"} => ~IsSource(r, CallsOf(r)[c])
  /\ what = "handles" => pg.lane # "collective"
  /\ what = "device" => IsSource(r, CallsOf(r)[c]) /\ pg.lane # "collective"
  /\ what = "devices" =>
       /\ CallsOf(r)[c].op # "broadcast" => Relation(r, CallsOf(r)[c].peer) = "unsure"
       /\ CallsOf(r)[c].op = "recv_tensor" => CallsOf(r)[c].tensors[1] # 0
  /\ OnDevice(r, c, pg, slots)

Joins == [do : {"join"}, group : Seq(Workers)]
Waits == {[do |-> "drain"], [do |-> "sync"]}
Posts(r, c) ==
  {op \in [do : {"post"}, pg : Pgs, what : Words, slots : Seq(Nat)] :
     MayPost(r, c, op.pg, op.what, op.slots)}
Takes(r, c) ==
  {op \in [do : {"take"}, pg : Pgs, what : Words, slots : Seq(Nat), accel : BOOLEAN] :
     MayTake(r, c, op.pg, op.what, op.slots)}
Ops(r, c) == Joins \union Waits \union Posts(r, c) \union Takes(r, c)

ZeroPost(pg) == [do |-> "post", pg |-> pg, what |-> "zero", slots |-> <<>>]

\* Behind the handles, the zero and the wait for it.
Guarded(s) ==
  \A j \in 1..Len(s) : s[j].do = "post" /\ s[j].what = "handles" =>
    /\ j + 3 <= Len(s)
    /\ s[j + 1] = [do |-> "drain"] /\ s[j + 2] = ZeroPost(s[j].pg) /\ s[j + 3] = [do |-> "drain"]

\* What call c of r may have left.
Plans(r, c) == {s \in Seq(Ops(r, c)) : Guarded(s)}

\* The same, behind a copy of what it has taken.
Copies == [do : {"clone"}, from : Workers \X Nat, there : Seq(Nat), here : Seq(Nat)]
Copying(r, c) == {s \in Seq(Copies \union Ops(r, c)) :
                    s # <<>> /\ Head(s) \in Copies /\ Tail(s) \in Plans(r, c)}

TodoInv ==
  /\ DOMAIN todo = Threads /\ DOMAIN unsent = Threads
  /\ \A th \in Threads :
       IF running[th] = 0 THEN todo[th] = <<>>
       ELSE \/ todo[th] = Dead
            \/ todo[th] \in Plans(th[1], running[th])
            \/ todo[th] \in Copying(th[1], running[th])

-----------------------------------------------------------------------------
(* Process groups                                                           *)

WireInv ==
  /\ \A pg \in DOMAIN wire :
       /\ pg \in Pgs /\ wire[pg] \in Seq(Range(wire[pg]))
       /\ \A i \in 1..Len(wire[pg]) :
            /\ wire[pg][i].owner \in Workers
            /\ wire[pg][i].call \in 1..Len(CallsOf(wire[pg][i].owner))
            /\ wire[pg][i].slots \in Seq(Nat)
            /\ MayPost(wire[pg][i].owner, wire[pg][i].call, pg, wire[pg][i].what, wire[pg][i].slots)
  /\ \A x \in DOMAIN count : count[x] \in Nat

UsedInv == \A u \in used : u[2] \in Workers /\ (Placed => Fits(u[2], u[1], u[3]))

\* The call that posted the handles at i of pg has not posted the zero, or
\* waits until it is taken.
Sharing(pg, i) ==
  LET th == ThreadOf(wire[pg][i].owner, wire[pg][i].call)
      left == todo[th]
  IN  /\ running[th] = wire[pg][i].call
      /\ \/ /\ i = Len(wire[pg]) /\ Len(left) >= 3
            /\ left[1] = [do |-> "drain"] /\ left[2] = ZeroPost(pg) /\ left[3] = [do |-> "drain"]
         \/ /\ i = Len(wire[pg]) /\ Len(left) >= 2
            /\ left[1] = ZeroPost(pg) /\ left[2] = [do |-> "drain"]
         \/ /\ Len(left) >= 1
            /\ left[1] = [do |-> "drain"] /\ <<pg, i + 1>> \in unsent[th]

\* Handles that are not taken, or were taken last.
SharingInv ==
  Ordered =>
    \A pg \in DOMAIN wire : \A i \in 1..Len(wire[pg]) : \A q \in Workers :
      wire[pg][i].what = "handles" /\ Inward(q, wire[pg][i].owner, pg) /\ Count(pg, q) <= i
        => Sharing(pg, i)

\* A copy under way is of the handles taken last.
CopyInv ==
  Ordered =>
    \A th \in Threads : AtOp(th, "clone") =>
      \E pg \in DOMAIN wire : \E i \in 1..Len(wire[pg]) :
        /\ i = Count(pg, th[1]) /\ wire[pg][i].what = "handles"
        /\ Head(todo[th]).from = <<wire[pg][i].owner, wire[pg][i].call>>
        /\ Inward(th[1], wire[pg][i].owner, pg)
        /\ Taking(th[1], running[th], wire[pg][i].owner)

IInv ==
  /\ scene \in Scenes
  /\ ThreadInv /\ MainInv /\ ResultInv /\ TodoInv
  /\ WireInv /\ UsedInv /\ SharingInv /\ CopyInv
=============================================================================
