---------------------------- MODULE MCForkGuard ----------------------------
(* Four processes: a child, a grandchild and siblings.                     *)
EXTENDS ForkGuard
============================================================================
