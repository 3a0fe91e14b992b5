----------------------------- MODULE MCCentral -----------------------------
EXTENDS Central
CONSTANTS a, p0, lg
=============================================================================
