------------------------------ MODULE MCShmTest ------------------------------
(* The test program with two model-value processes and messages of two    *)
(* lengths, so that a read overlapping a write can mix them.              *)
EXTENDS ShmTest

MCTestProcs == {Parent, Child}
MCParentMsg == <<2, 2>>
MCChildMsg  == <<3>>
MCTestMsgs  == {MCParentMsg, MCChildMsg}
=============================================================================
