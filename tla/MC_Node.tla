------------------------------- MODULE MC_Node -------------------------------
EXTENDS Node

MCAllCalls == Calls

\* Every call that can fail without stranding a detach.
MCRetryableCalls == {"Connect", "MkdirAll", "Create", "Encode", "FormatAndMount",
                     "List", "Unmount", "Remove"}
=============================================================================
