--------------------------- MODULE MCRequestPipeline ---------------------------
(* A small instance of RequestPipeline: a two-byte limit, chunks of 0 to 3    *)
(* bytes, so that a body ends below, at, and over the limit in one message or *)
(* across several, and lengths on both sides of the limit.                    *)
EXTENDS RequestPipeline

MCChunkSizes  == 0..3
MCLengths     == 0..3
MCAppStatuses == {200, 503}
================================================================================
