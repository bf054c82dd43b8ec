------------------------- MODULE MCWaveformRecorder -------------------------
(* TLC instances of WaveformRecorder: one channel that is not the first, or *)
(* all of them; an IOC that asks for none gets channel 0.                   *)
EXTENDS WaveformRecorder

OneOrAll == {RecorderChannels \ {0}, RecorderChannels}
=============================================================================
