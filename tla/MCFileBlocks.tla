---------------------------- MODULE MCFileBlocks ----------------------------
(***************************************************************************)
(* Two files: calls on one are several blocks long and not aligned, calls  *)
(* on the other, the root directory, move a single word.                   *)
(***************************************************************************)
EXTENDS FileBlocks

CONSTANTS i1, i2

LongAndShort == [ip \in {i1, i2} |-> IF ip = i1 THEN {9} ELSE {1}]

\* ".", ".." and one file of one and a half blocks.
OneFile == <<<<i2, 1>>, <<i2, 1>>, <<i2, 1>>, <<i1, 2>>, <<i1, 1>>>>

\* A root directory that fills its blocks: rounding its size up adds a block
\* that bmap() has yet to allocate, and FilesAreArrays fails.
FullRoot == <<<<i2, 1>>, <<i2, 1>>>>
=============================================================================
