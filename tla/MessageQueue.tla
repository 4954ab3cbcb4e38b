---------------------------- MODULE MessageQueue ----------------------------
(***************************************************************************)
(* What the framing of messages promises, without its bytes: the messages  *)
(* a server says come out of receive_message one at a time, in order, none *)
(* of them altered, lost in the middle or made up.                         *)
(***************************************************************************)
EXTENDS Naturals, Sequences

CONSTANT Messages
VARIABLES said,  \* what the server has said
          got    \* what receive_message has returned

Init == said = <<>> /\ got = <<>>

Say == \E m \in Messages : said' = Append(said, m) /\ UNCHANGED got

Get ==
  /\ Len(got) < Len(said)
  /\ got' = Append(got, said[Len(got) + 1])
  /\ UNCHANGED said

Spec == Init /\ [][Say \/ Get]_<<said, got>>
=============================================================================
