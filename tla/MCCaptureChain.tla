---------------------------- MODULE MCCaptureChain ----------------------------
(* Instances of CaptureChain for TLC; the bounds are in the .cfg files.    *)
EXTENDS CaptureChain

PacketSizes == {2, 5, 10}
=============================================================================
