---------------------------- MODULE MCHippocampus ----------------------------
(* A small instance of Hippocampus for TLC: two files of one name and one  *)
(* content, as when a file is put down again.                              *)
EXTENDS Hippocampus

CONSTANTS
    a,       \* what both files are called and say
    c, d,    \* concepts
    r        \* a relation

MCFile == 1..2
MCOf == <<a, a>>

(* A label without an edge, which no decay spares, and one linked to       *)
(* itself.                                                                 *)
MCLinks == << <<2, r, 2>> >>
MCReadings == {<<c, d>>}
===============================================================================
