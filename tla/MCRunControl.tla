----------------------------- MODULE MCRunControl ----------------------------
EXTENDS RunControl
=============================================================================
