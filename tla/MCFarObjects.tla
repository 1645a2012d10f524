---------------------------- MODULE MCFarObjects ----------------------------
EXTENDS FarObjects
=============================================================================
