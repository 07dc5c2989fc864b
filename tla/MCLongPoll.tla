---------------------------- MODULE MCLongPoll ----------------------------
(***************************************************************************)
(* Instances of LongPoll for TLC.                                          *)
(***************************************************************************)
EXTENDS MCQueueStore, LongPoll

PollSymmetry == Symmetry \cup Permutations(Poller)
===========================================================================
