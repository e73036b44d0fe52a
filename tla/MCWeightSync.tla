---------------------------- MODULE MCWeightSync ----------------------------
EXTENDS WeightSyncInv

waiting(s) == [syncer |-> s, noWait |-> FALSE, early |-> FALSE]
background(s, e) == [syncer |-> s, noWait |-> TRUE, early |-> e]

Sound == {waiting("buffered"), waiting("patch"), waiting("patch_init"),
          background("instant", TRUE), background("patch_init", FALSE)}
Instant == {waiting("instant")}
InitEarly == {background("patch_init", TRUE)}
=============================================================================
