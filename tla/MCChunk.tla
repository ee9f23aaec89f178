-------------------------------- MODULE MCChunk --------------------------------
EXTENDS Chunk
================================================================================
