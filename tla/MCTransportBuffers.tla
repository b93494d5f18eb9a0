------------------------- MODULE MCTransportBuffers -------------------------
(***************************************************************************)
(* Instances of TransportBuffers for TLC.  The configurations give the     *)
(* constants of two groups: the compressed frames, read by the recorder    *)
(* (AVRec) and by the live library (StreamB), and the captured pictures,   *)
(* read by the video encoder.                                              *)
(***************************************************************************)
EXTENDS TransportBuffers

\* The frame time advances by one period, or by two when a frame was skipped.
CapturePeriods == {1, 2}
=============================================================================
