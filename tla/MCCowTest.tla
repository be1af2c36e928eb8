------------------------------ MODULE MCCowTest ------------------------------
(* CopyOnWriteTest.c over a small VM instance for TLC. *)
EXTENDS CowTest

MCCowProcs == {G, C1, P, C2}
MCCowData  == {0, 2222, 8888, 9999999}
=============================================================================
