------------------------ MODULE MCPulseAudioAnalyzer ------------------------
(* PulseAudioAnalyzer for TLC: all its bounds are in the configuration.       *)
EXTENDS PulseAudioAnalyzer
=============================================================================
