---------------------- MODULE MCSignalMonitoringSeries ----------------------
EXTENDS SignalMonitoringSeries, TLC

\* two known sources share a lane; the evidence is found in the first
MCSources == 1..2
MCLaneOf == [s \in MCSources |-> "known_source"]
MCSourceOf == [i \in Items |-> 1]

Symmetry == Permutations(Runs) \cup Permutations(Items)
=============================================================================
