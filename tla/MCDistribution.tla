--------------------------- MODULE MCDistribution ---------------------------
(* All small loops on small teams.                                         *)
EXTENDS Distribution

SmallSizes == 1 .. 26
SmallTeams == 1 .. 9
SmallGrains == {1, 2, 5}
=============================================================================
