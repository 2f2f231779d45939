------------------------------ MODULE MCBQueue ------------------------------
(* Values of BQueue's constants for TLC. *)
EXTENDS BQueue

MCSleepArgs   == {1}
MCQueueCalls  == {"spawn", "bq_create", "bq_put", "bq_get"}
MCDeleteCalls == {"spawn", "bq_create", "bq_put", "bq_get",
                  "bq_delete", "bq_dump"}
MCMixedCalls  == {"spawn", "sleep", "wait", "exit", "bq_create", "bq_put",
                  "bq_get"}
MCPointer     == {1}
MCPointers    == {0, 1}
MCOneQueue    == {1}
MCTwoQueues   == {1, 2}
MCValues      == {7, 8}
MCOneValue    == {7}
MCAnyCapacity == {0, 1, 2}
MCCapacityOne == {1}
MCCapacityTwo == {2}
=============================================================================
