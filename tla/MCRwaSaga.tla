----------------------------- MODULE MCRwaSaga ------------------------------
EXTENDS RwaSaga

CONSTANTS l1, l2, w, a
=============================================================================
