---------------------------- MODULE MCTestBridge ----------------------------
EXTENDS TestBridge
CONSTANTS t
=============================================================================
