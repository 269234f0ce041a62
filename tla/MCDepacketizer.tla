--------------------------- MODULE MCDepacketizer ---------------------------
EXTENDS Depacketizer
=============================================================================
