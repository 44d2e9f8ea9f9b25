---------------------------- MODULE MCDisplayFrames ----------------------------
(* A small instance of DisplayFrames for TLC. *)
EXTENDS DisplayFrames

\* One byte stands for the eight of a size.
SmallSizes == {<<"other">>}
==============================================================================
