----------------------------- MODULE MCWatchdog -----------------------------
(* Two watchdogs on one thread, nested in either order.                    *)
EXTENDS Watchdog
=============================================================================
