-------------------------- MODULE MCChunkSchedule --------------------------
(***************************************************************************)
(* Every call of Schedule::build with a total up to 24, a cap up to 6 and  *)
(* room for up to 5 chunks: each branch of the loop, first and later in    *)
(* it, with and without room.                                              *)
(***************************************************************************)
EXTENDS ChunkSchedule

SmallArgs == [total : 0..24, min : 0..6, max : 0..6, count : 0..5]
=============================================================================
