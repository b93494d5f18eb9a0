--------------------------- MODULE MCCameraControl ---------------------------
(* The camera with both capture threads and both encoders.                 *)
EXTENDS CameraControl

BothCaptures == {"vcapture", "acapture"}
BothEncoders == {"video", "audio"}

==============================================================================
