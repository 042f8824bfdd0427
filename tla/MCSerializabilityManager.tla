---------------------- MODULE MCSerializabilityManager ----------------------
(* SerializabilityManager for TLC.  MaxXID counts transaction 1, which only  *)
(* created the Rows; the others run concurrently.                            *)
EXTENDS SerializabilityManager

MCUID == {1, 2, 3}
MCRows == {1, 2}
OneRow == {1}
ReadCommittedOnly == {0}
RepeatableReadOnly == {1}
BothLevels == {0, 1}
=============================================================================
