-------------------------- MODULE MCChunkAllocator --------------------------
\* Instances of ChunkAllocator for TLC.
EXTENDS ChunkAllocator
=============================================================================
