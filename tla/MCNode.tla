------------------------------- MODULE MCNode -------------------------------
(***************************************************************************)
(* Node for a program that changes between two accounts of its own and,    *)
(* where b is a client too, a second program with another account.         *)
(***************************************************************************)
EXTENDS Node

CONSTANTS b, ann, anna, bob

MCLogin == {ann, anna, bob}

MCOwn == [n \in Client |-> IF n = b THEN {bob} ELSE {ann, anna}]
=============================================================================
