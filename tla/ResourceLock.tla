---------------------------- MODULE ResourceLock ----------------------------
(***************************************************************************)
(* What `with self.device_lock` promises: a worker that asks for its        *)
(* devices gets all of them at once, when no worker inside uses any of them *)
(* and no worker that asked earlier wants any of them.                      *)
(***************************************************************************)
EXTENDS Naturals, Sequences

CONSTANTS Workers, Devices, Uses

VARIABLES
  queue,   \* workers that asked and are not inside, oldest first
  inside   \* workers inside their with block

Conflict(v, w) == Uses[v] \cap Uses[w] # {}

Init == queue = <<>> /\ inside = {}

InQueue == {queue[i] : i \in DOMAIN queue}

Without(q, i) == SubSeq(q, 1, i - 1) \o SubSeq(q, i + 1, Len(q))

Ask(w) ==
  /\ w \notin inside \cup InQueue
  /\ queue' = Append(queue, w)
  /\ UNCHANGED inside

Enter(i) ==
  /\ \A v \in inside : ~Conflict(v, queue[i])
  /\ \A j \in 1 .. i - 1 : ~Conflict(queue[j], queue[i])
  /\ queue' = Without(queue, i)
  /\ inside' = inside \cup {queue[i]}

Leave(w) ==
  /\ w \in inside
  /\ inside' = inside \ {w}
  /\ UNCHANGED queue

Next ==
  \/ \E w \in Workers : Ask(w) \/ Leave(w)
  \/ \E i \in DOMAIN queue : Enter(i)

Spec == Init /\ [][Next]_<<queue, inside>>
=============================================================================
