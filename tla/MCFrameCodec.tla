---------------------------- MODULE MCFrameCodec ----------------------------
(* Three frames of five kinds: no body, a body of zeros, the longest body  *)
(* there may be, one that is too long, and a tag that does not exist.      *)
EXTENDS FrameCodec

MCFrames ==
    {[tag |-> 1, body |-> <<>>], [tag |-> 2, body |-> <<0>>], [tag |-> 1, body |-> <<2, 1>>],
     [tag |-> 1, body |-> <<0, 0, 0>>], [tag |-> 0, body |-> <<1>>]}
=============================================================================
