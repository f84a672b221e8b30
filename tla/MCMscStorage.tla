----------------------------- MODULE MCMscStorage -----------------------------
(***************************************************************************)
(* MscStorage for TLC.  One application task is enough to be in the way of *)
(* a transition: the tasks do not interact with each other but through     *)
(* storage_io_mutex.  The liveness run has none and so checks the movers.  *)
(***************************************************************************)
EXTENDS MscStorage

CONSTANT config_task      \* the task that saves the configuration
SomeApps == {config_task}
NoApps   == {}
=============================================================================
