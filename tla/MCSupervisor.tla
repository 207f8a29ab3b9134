--------------------------- MODULE MCSupervisor ---------------------------
(* Supervisor on small sets of agents, requests and task objects. *)
EXTENDS Supervisor, TLC

Symmetry == Permutations(Clients) \cup Permutations(Slots)
=============================================================================
