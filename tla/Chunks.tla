------------------------------- MODULE Chunks -------------------------------
(***************************************************************************)
(* How the threads handle splits the rows [0, len) (parallel.ts,           *)
(* splitChunks).  A byte of a bitmap holds the validity of eight rows, so  *)
(* a chunk starts at a multiple of eight.                                  *)
(***************************************************************************)
EXTENDS Bitmaps, Sequences

\* Rounded up to whole bytes of a bitmap.
ChunkSize(len, numWorkers) == 8 * BytesFor((len + numWorkers - 1) \div numWorkers)

\* Chunks of size cs, <<first row, end>> each; the last ends with the rows.
Split(len, cs) ==
  [k \in 1 .. (len + cs - 1) \div cs |-> <<cs * (k - 1), IF cs * k < len THEN cs * k ELSE len>>]

\* Mutant: chunks of equal size, wherever they start.
splitChunksUnaligned(len, numWorkers) ==
  IF len = 0 \/ numWorkers <= 0 THEN << >> ELSE Split(len, (len + numWorkers - 1) \div numWorkers)

splitChunks(len, numWorkers) ==
  IF len = 0 \/ numWorkers <= 0 THEN << >> ELSE Split(len, ChunkSize(len, numWorkers))

ChunkRows(chunk) == chunk[1] .. chunk[2] - 1
=============================================================================
