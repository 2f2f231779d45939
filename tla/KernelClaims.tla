---------------------------- MODULE KernelClaims ----------------------------
(***************************************************************************)
(* What a comment of timerInterrupt says of an idle CPU and the context    *)
(* the interrupt returns into makes false.                                 *)
(***************************************************************************)
EXTENDS Kernel

\* With nobody ready the timer handler just retries at the next tick:
\* "restiamo nell'handler; al prossimo tick riproveremo a svegliare qualcuno"
\* (disastrOS.c:97).  In particular an idle CPU creates no process.
IdleOnlyRetries == [][running = NoProc => lastPid' = lastPid]_vars
=============================================================================
