------------------------------- MODULE GpuPool -------------------------------
(***************************************************************************)
(* What dynamic scheduling promises about the GPUs of a cluster, without    *)
(* ledgers or messages: at every moment each GPU has at most one user; in   *)
(* the course of a global step rollout and inference only give GPUs back,   *)
(* only the trainer takes GPUs, and only free ones; and the next global     *)
(* step starts when the trainer is back on its own GPUs and all others are  *)
(* free.                                                                    *)
(***************************************************************************)
EXTENDS Naturals

CONSTANTS
  Gpus,
  Home,   \* the GPUs of the actor component, a subset of Gpus
  Start   \* [Gpus -> Users]: who uses which GPU when a global step begins

Users == {"none", "actor", "rollout", "inference"}

VARIABLE owner

Owned(c) == {g \in Gpus : owner[g] = c}

Init == owner = Start

Move(c, d) ==
  \E S \in (SUBSET Owned(c)) \ {{}} :
    owner' = [g \in Gpus |-> IF g \in S THEN d ELSE owner[g]]

GiveBack == \E c \in Users \ {"none"} : Move(c, "none")
TrainerTakes == Move("none", "actor")

NewStep ==
  /\ owner = [g \in Gpus |-> IF g \in Home THEN "actor" ELSE "none"]
  /\ owner' = Start

Next == GiveBack \/ TrainerTakes \/ NewStep

Spec == Init /\ [][Next]_owner
=============================================================================
