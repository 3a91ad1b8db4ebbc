-------------------------------- MODULE MCLab --------------------------------
(* The instance of Lab that TLC checks.                                     *)
EXTENDS Lab

\* Zero, which seed_store() rejects, and a lone top bit, which every shift to
\* the left loses.
MCSeeds == {{}, {31}}
MCUarts == <<"u0", "u1">>
MCGpios == <<"g0">>
=============================================================================
