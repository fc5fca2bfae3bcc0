---------------------------- MODULE MCLifecycle ----------------------------
(* Lifecycle with a few worker threads.                                    *)
EXTENDS Lifecycle
=============================================================================
