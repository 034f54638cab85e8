--------------------------- MODULE MCPluginService ---------------------------
(* Instances of PluginService for TLC. *)
EXTENDS PluginService, TLC

\* Without a blocker and with one, with and without rules and tags.
SomeSources == {[fw |-> {}, torrent |-> FALSE, tags |-> FALSE],
                [fw |-> IPs, torrent |-> TRUE, tags |-> FALSE],
                [fw |-> {}, torrent |-> TRUE, tags |-> TRUE],
                [fw |-> IPs, torrent |-> FALSE, tags |-> TRUE]}

\* A blocker, and none.
TwoSources == {[fw |-> {}, torrent |-> FALSE, tags |-> FALSE], [fw |-> IPs, torrent |-> TRUE, tags |-> TRUE]}

Symmetry == Permutations(Requests) \cup Permutations(IPs)
=============================================================================
