------------------------- MODULE MCChannelRegistry --------------------------
EXTENDS ChannelRegistry

CONSTANTS p1, p2, a, b, c

\* b is used by both processes; three channels contend for two entries.
MCUses == {<<p1, a>>, <<p1, b>>, <<p2, b>>, <<p2, c>>}
=============================================================================
