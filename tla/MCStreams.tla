----------------------------- MODULE MCStreams -------------------------------
(***************************************************************************)
(* The setpoint stream paced by the fast acquisition strobe, and the       *)
(* recorder of the streams, on one instance each: part is chosen at the    *)
(* start, and its specification runs while the other rests.                *)
(***************************************************************************)
EXTENDS PsStream, WaveformRecorder

VARIABLE part

(* Records of one channel that is not the first, or of all of them; an IOC *)
(* that asks for none gets channel 0.                                      *)
MCBitmaps == {RecorderChannels \ {0}, RecorderChannels}

StreamsInit ==
  /\ part \in {"stream", "recorder"} /\ Init /\ RecorderInit
  \* One initial state is enough for a part that does not run.
  /\ part # "stream" => writeAddress = 0

StreamsNext ==
  \/ part = "stream" /\ Next /\ UNCHANGED <<recorderVars, part>>
  \/ part = "recorder" /\ RecorderNext /\ UNCHANGED <<vars, part>>

StreamsSpec == StreamsInit /\ [][StreamsNext]_<<vars, recorderVars, part>>

(* Types of the parts of this instance (psAWG.v, psMUX.v, fofbRecorder.v). *)
StreamsTypeOK == TypeOK /\ RecorderTypeOK
=============================================================================
