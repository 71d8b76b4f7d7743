----------------------------- MODULE MCTpmExchange -----------------------------
EXTENDS TpmExchange
\* No byte, one, and more than two commands accept.
MCBlobs == {<<>>, <<9>>, <<0, 1, 2>>}
\* None, the first and last bits of the bytes of a selection, the last PCR and one too many.
MCPcrLists == {<<>>, <<0>>, <<7, 8>>, <<23, 16>>, <<1, 24>>}
=============================================================================
