-------------------------- MODULE MCPausableStream --------------------------
(* PausableStream on small instances.                                      *)
EXTENDS PausableStream
=============================================================================
