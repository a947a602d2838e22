----------------------------- MODULE MCDebDeps -----------------------------
EXTENDS DebDeps

CONSTANTS a, b, c
=============================================================================
