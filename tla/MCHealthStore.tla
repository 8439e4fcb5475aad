-------------------------- MODULE MCHealthStore --------------------------
EXTENDS HealthStore
=============================================================================
