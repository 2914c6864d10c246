----------------------- MODULE MCRadarRunLifecycle -----------------------
EXTENDS RadarRunLifecycle, TLC

Symmetry == Permutations(Runs) \cup Permutations(Clients)
=============================================================================
