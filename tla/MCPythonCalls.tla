--------------------------- MODULE MCPythonCalls ---------------------------
(* The main thread and one other.                                          *)
EXTENDS PythonCalls
============================================================================
