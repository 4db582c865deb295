--------------------------- MODULE MCRingbuffer ---------------------------
EXTENDS Ringbuffer
CONSTANTS v1, v2, v3, v4
MCValues == {v1, v2, v3, v4}
=============================================================================
