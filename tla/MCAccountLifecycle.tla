---------------------------- MODULE MCAccountLifecycle -------------------------
EXTENDS AccountLifecycle
CONSTANTS t1, t2
================================================================================
