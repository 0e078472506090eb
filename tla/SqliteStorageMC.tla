-------------------------- MODULE SqliteStorageMC --------------------------
(* Instances of SqliteStorage for TLC.                                     *)
EXTENDS SqliteStorage, TLC

CONSTANTS t1, t2, t3, p1, p2

\* Two threads share a process and its write lock, the third is elsewhere.
ThreeThreads == t1 :> p1 @@ t2 :> p1 @@ t3 :> p2
OneThread == t1 :> p1
=============================================================================
