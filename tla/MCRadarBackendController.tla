---------------------- MODULE MCRadarBackendController ----------------------
(***************************************************************************)
(* Two radars with a completed run each when the page is loaded; the user  *)
(* opens the first, and may name a run of either.                          *)
(***************************************************************************)
EXTENDS RadarBackendController

CONSTANTS r1, r2

OneRadar == {r1}
TwoRadars == {r1, r2}
PageLoad ==
  <<[radar |-> r1, status |-> "completed"], [radar |-> r2, status |-> "completed"]>>
=============================================================================
