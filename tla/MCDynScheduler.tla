--------------------------- MODULE MCDynScheduler ---------------------------
EXTENDS DynSchedulerInv
=============================================================================
