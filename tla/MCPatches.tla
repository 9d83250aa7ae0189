----------------------------- MODULE MCPatches -----------------------------
EXTENDS Patches
=============================================================================
