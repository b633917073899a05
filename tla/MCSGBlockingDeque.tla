-------------------------- MODULE MCSGBlockingDeque --------------------------
(* SGBlockingDeque on small instances: one consumer, as in every use the   *)
(* library makes of it, and two.                                           *)
EXTENDS SGBlockingDeque

CONSTANTS p1, p2, c1, c2, i1, i2

MCTwoProducers == {p1, p2}
MCOneProducer == {p1}
MCOneConsumer == {c1}
MCTwoConsumers == {c1, c2}
MCThreads == Producers \cup Consumers
MCTwoItems == {i1, i2}
=============================================================================
