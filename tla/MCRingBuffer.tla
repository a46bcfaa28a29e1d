----------------------------- MODULE MCRingBuffer -----------------------------
(***************************************************************************)
(* Small instances of RingBuffer for TLC.                                  *)
(***************************************************************************)
EXTENDS RingBuffer, TLC

CONSTANTS c1, c2
MCChannels == {c1, c2}
MCOneChannel == {c1}
===============================================================================
