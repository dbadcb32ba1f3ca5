-------------------------------- MODULE MCAio -------------------------------
(* More requests than twice the kernel's places, so that the queue builds  *)
(* up while events are reaped.                                             *)
EXTENDS AioLoop
=============================================================================
