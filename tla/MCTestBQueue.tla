---------------------------- MODULE MCTestBQueue ----------------------------
(* Values of TestBQueue's constants for TLC. *)
EXTENDS TestBQueue

MCSleepArgs  == {1}
MCCalls      == {"spawn", "wait", "exit", "shutdown", "bq_create",
                 "bq_delete", "bq_put", "bq_get", "bq_dump"}
MCQueues     == {1, 2}
MCValues     == {111, 222, 777}
MCCapacities == {1, 2}
MCPointer    == {1}
=============================================================================
