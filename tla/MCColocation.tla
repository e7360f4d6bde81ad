---------------------------- MODULE MCColocation ----------------------------
(* The ring of the recipes with a teacher or a critic between inference and*)
(* trainer: the smallest in which "the next member" and "the member the    *)
(* token came from" differ.                                                *)
EXTENDS Colocation

CONSTANTS infer, teacher, train

ThreeRing == <<infer, teacher, train>>

EvenWindows   == [s \in {teacher, train} |-> 2]
UnevenWindows == [s \in {teacher, train} |-> IF s = train THEN 2 ELSE 1]
=============================================================================
