-------------------------------- MODULE MCFps --------------------------------
(* Instances of Fps for TLC; the configurations give the constants.        *)
EXTENDS Fps
=============================================================================
