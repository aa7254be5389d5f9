---------------------------- MODULE MCQueryView ----------------------------
EXTENDS QueryView
=============================================================================
