-------------------------- MODULE MCQueueCatalog ---------------------------
(***************************************************************************)
(* An instance of QueueCatalog for TLC: queues 1 and 2 may dead-letter to  *)
(* each other and to queue 3.  Tags, listings and long polls need not be   *)
(* combined with dead letters and attempts, nor with each other: no        *)
(* operation reads two of them, except DeleteQueue, which removes each by  *)
(* itself.                                                                 *)
(***************************************************************************)
EXTENDS QueueCatalogSafety

AllAndLast == {1 .. 3, {2, 3}}

OneThingAtATime ==
    /\ client # Idle => DOMAIN origins = {} /\ attempts = {} /\ Cardinality(DOMAIN messages) < 2
    /\ tags # {} => client = Idle /\ messages = << >> /\ policies = << >>
===========================================================================
