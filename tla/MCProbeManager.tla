--------------------------- MODULE MCProbeManager ---------------------------
(* Two keys: k1 takes in enough samples for a verdict and the opposite one.   *)
EXTENDS ProbeManager

CONSTANTS k1, k2

MCMaxSamples == [k \in Key |-> IF k = k1 THEN 4 ELSE 2]
=============================================================================
