--------------------------- MODULE MCPauseSuspends ---------------------------
(* PausableStream on small instances, with a history of when it was paused. *)
EXTENDS PausableStream

VARIABLE readAtPause  \* messages received when the stream was last paused

HInit == PInit /\ readAtPause = 0
HNext ==
  /\ PNext
  /\ readAtPause' = IF lock # "paused" /\ lock' = "paused" THEN rcvd ELSE readAtPause

HSpec == HInit /\ [][HNext]_<<allVars, readAtPause>>

=============================================================================
