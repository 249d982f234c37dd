----------------------------- MODULE MCFpgaTransfer -----------------------------
\* A small interconnect, for TLC: a transfer of two chunks, the second of one word, with an
\* empty beat behind AXI, and one that begins within a block.
EXTENDS FpgaTransfer

MCExtra    == [load \in BOOLEAN |-> IF load THEN 0 ELSE 1]
MCAccesses == {[load |-> TRUE, addr |-> 0, size |-> 12], [load |-> FALSE, addr |-> 4, size |-> 8]}

=============================================================================
