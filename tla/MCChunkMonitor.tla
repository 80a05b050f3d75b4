--------------------------- MODULE MCChunkMonitor ---------------------------
(***************************************************************************)
(* ChunkMonitor on four buffers: the smallest number on which the first    *)
(* chunk returned to the free queue can be other than chunk 0 with one     *)
(* chunk of history (chunk 0 is sent, chunk 1 follows it, chunk 2 is       *)
(* pushed out of the history by chunk 3).                                  *)
(***************************************************************************)
EXTENDS ChunkMonitor

=============================================================================
