------------------------------- MODULE MCRoutes -------------------------------
(* Routes for TLC: one server solicits the other, or both do.                   *)
EXTENDS Routes, TLC

CONSTANTS a, b

OneWay == {<<a, b>>}
Mutual == {<<a, b>>, <<b, a>>}

MCConfigs == {OneWay, Mutual}
MCMaxFaults == OneWay :> 2 @@ Mutual :> 0

MCMutual == {Mutual}
MCOneFault == Mutual :> 1
================================================================================
