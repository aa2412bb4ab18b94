---------------------------- MODULE MCTCPSession ----------------------------
(***************************************************************************)
(* TCPSession for TLC.  Sizes are scaled down so that every limit is within *)
(* reach: a bare header is 1 byte, answers are small, large or oversized.  *)
(***************************************************************************)
EXTENDS TCPSession

MCResponseBodies == {1, 4}
MCOneResponse    == {2}
MCHeaderSizes    == {0, 1, 4}
MCHeaderVersions == {1, 2}
=============================================================================
