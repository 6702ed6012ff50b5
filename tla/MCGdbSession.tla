---------------------------- MODULE MCGdbSession ----------------------------
EXTENDS GdbSession
============================================================================
