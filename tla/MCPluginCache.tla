--------------------------- MODULE MCPluginCache ---------------------------
(* A small instance of PluginCache for TLC. *)
EXTENDS PluginCache, TLC

\* Threads and names are interchangeable; used only where no liveness
\* property is checked.
Symmetry == Permutations(Threads) \cup Permutations(Names)

\* A new location and an open without a record do not touch the same state:
\* a behaviour that has had both is not followed further.
OneOfBoth == paths = 0 \/ \A f \in Files : lost[f] = 0
=============================================================================
