----------------------------- MODULE MCManagedRun -----------------------------
EXTENDS ManagedRun, TLC

===============================================================================
