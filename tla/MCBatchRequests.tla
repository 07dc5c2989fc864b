-------------------------- MODULE MCBatchRequests --------------------------
(***************************************************************************)
(* Instances of BatchRequests for TLC.                                     *)
(***************************************************************************)
EXTENDS MCQueueStore, BatchRequests
===========================================================================
