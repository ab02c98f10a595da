---------------------------- MODULE MCLiveStream ----------------------------
(***************************************************************************)
(* Instances of LiveStream for TLC.  Streams are interchangeable.          *)
(***************************************************************************)
EXTENDS LiveStream, TLC

StreamSymmetry == Permutations(Streams)
=============================================================================
