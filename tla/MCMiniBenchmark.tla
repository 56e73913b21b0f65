--------------------------- MODULE MCMiniBenchmark ---------------------------
(* One delegate and the run without a delegate, which is the faster one.    *)
EXTENDS MiniBenchmark, TLC

CONSTANTS gpu, cpu

MCSettings == <<gpu, cpu>>
MCLatency == (gpu :> 2) @@ (cpu :> 1)

=============================================================================
