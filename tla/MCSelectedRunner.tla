-------------------------- MODULE MCSelectedRunner --------------------------
EXTENDS SelectedRunner
============================================================================
