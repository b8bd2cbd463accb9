--------------------------- MODULE MCSocketFrames ---------------------------
EXTENDS SocketFrames

\* An empty message, the largest that fits, one that is too large, one whose
\* frame length wraps to zero, and a null payload with a length.
MCInputs ==
  {[payload |-> p, length |-> Len(p)] :
     p \in {<<>>, <<{0, 5, 6}, {1, 7}>>, <<{1}, {}, {}>>, <<{}, {}, {}, {}, {}, {}, {}>>}}
  \cup {[payload |-> <<>>, length |-> 2]}

\* A bit in each half of a byte, and the whole of it.
MCFlips == {{3}, {4}, 0 .. 7}
=============================================================================
