---------------------------- MODULE MCCleanupFlow ----------------------------
EXTENDS CleanupFlow
=============================================================================
