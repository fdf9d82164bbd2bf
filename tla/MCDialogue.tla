------------------------------ MODULE MCDialogue ------------------------------
(***************************************************************************)
(* Instances of Dialogue for TLC: clocks apart by a negative number and by *)
(* one of two bytes; formats and a port whose bytes all differ.            *)
(***************************************************************************)
EXTENDS Dialogue

Skews == {-7, 300}

DeviceFormats ==
    {[nChannels |-> 2, wBitsPerSample |-> 32, nSamplesPerSec |-> 16000],
     [nChannels |-> 1, wBitsPerSample |-> 16, nSamplesPerSec |-> 48000]}

UdpPorts == {40000}
=============================================================================
