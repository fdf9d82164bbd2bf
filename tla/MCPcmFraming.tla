---------------------------- MODULE MCPcmFraming ----------------------------
(* Instances of WaveFile, and with it of PcmFraming, for TLC; the bounds   *)
(* are in the .cfg file.  The recording passes LongLimit.                  *)
EXTENDS WaveFile
=============================================================================
