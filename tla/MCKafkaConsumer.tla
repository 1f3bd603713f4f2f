-------------------------- MODULE MCKafkaConsumer --------------------------
(* Instances of KafkaConsumer for TLC: one or two worker processes.        *)
EXTENDS KafkaConsumer

CONSTANTS i1, i2

OneInstance == {i1}
TwoInstances == {i1, i2}
EventsAndInvalid == {"valid", "invalid"}
=============================================================================
