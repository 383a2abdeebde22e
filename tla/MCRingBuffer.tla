---------------------------- MODULE MCRingBuffer ----------------------------
(* The ring buffer on small instances: MCRingBuffer.cfg has one call of      *)
(* split, MCRingBufferTwoSplits.cfg has two.                                 *)
EXTENDS RingBuffer
=============================================================================
