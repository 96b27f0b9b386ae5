--------------------------- MODULE MCMutexClients ---------------------------
(* Small instances of MutexClients.                                        *)
EXTENDS MutexClients

\* A timeout shorter than the deadline of a call and not a multiple of Delay.
TimedOrNot == {3, NoTimeout}
=============================================================================
