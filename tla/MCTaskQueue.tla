---------------------------- MODULE MCTaskQueue ----------------------------
(* Small instances of TaskQueue for TLC.                                    *)
EXTENDS TaskQueue

CONSTANTS t1, t2, s1, s2

=============================================================================
