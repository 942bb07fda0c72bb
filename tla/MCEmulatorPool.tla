--------------------------- MODULE MCEmulatorPool ---------------------------
(* Instances of EmulatorPool for TLC: model values for clients and PIDs.     *)
EXTENDS EmulatorPool, TLC

Interchangeable == Permutations(Clients) \cup Permutations(Pids)
==============================================================================
