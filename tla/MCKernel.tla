------------------------------ MODULE MCKernel ------------------------------
(* Values of Kernel's constants for TLC. *)
EXTENDS KernelClaims

MCSleepArgs == {0, 2}

\* A program of the classical UNIX kind, and two that sleep.
MCProcessCalls == {"preempt", "unused", "spawn", "fork", "wait", "exit", "shutdown"}
MCSleepCalls   == {"preempt", "spawn", "wait", "sleep", "exit"}
MCSleepOnly    == {"spawn", "sleep"}
=============================================================================
