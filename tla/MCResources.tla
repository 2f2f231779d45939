---------------------------- MODULE MCResources ----------------------------
(* Values of Resources' constants for TLC. *)
EXTENDS Resources, TLC

CONSTANTS i1, i2, i3, t1, t2

MCSleepArgs == {1}
MCResCalls  == {"spawn", "wait", "exit", "open", "close", "destroy"}
MCIds       == {i1, i2, i3}
MCTypes     == {t1, t2}

\* Ids and types are only compared for equality.
MCSymmetry == Permutations(MCIds) \cup Permutations(MCTypes)

\* Every variable but ret.  No step reads ret, and FailedOpenIsClean reads only
\* the answer the step itself gives, so states that differ in the answers to
\* earlier calls have the same steps.
MCView == <<kernel, running, lists, family, status, syscall, resources>>

\* DSOS_READ, DSOS_WRITE and an exclusive DSOS_READ.
MCModes == {2, 3, 6}
=============================================================================
