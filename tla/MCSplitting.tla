----------------------------- MODULE MCSplitting -----------------------------
(* Small documents for TLC: up to three pages, which share a font and a     *)
(* picture in every way.                                                    *)
EXTENDS Splitting

CONSTANTS font, picture

SizeOf == [o \in Objects |-> IF o = font THEN 1 ELSE 3]

DocumentsOf(n) == [own : {[p \in 1..n |-> 1]}, needs : [1..n -> SUBSET Objects]]

SmallDocuments == UNION {DocumentsOf(n) : n \in 1..3}

SizesAndCounts == [by : {"size"}, n : {4, 8}] \cup [by : {"pages"}, n : {2}]
=============================================================================
