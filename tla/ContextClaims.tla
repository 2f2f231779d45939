--------------------------- MODULE ContextClaims ---------------------------
(***************************************************************************)
(* What a comment of disastrOS_start says and a pending alarm makes false. *)
(***************************************************************************)
EXTENDS Context

\* The timer handler does not run on top of the trap: SIGALRM is in the mask of
\* trap_context, "this disables alarm during system trap" (disastrOS.c:262).
AlarmOffInTrap == frames[1] \in {"trap", "trapExit"} => Len(frames) = 1
=============================================================================
