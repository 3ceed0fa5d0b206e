-------------------------- MODULE MCConnectionPool --------------------------
(* Small instances of ConnectionPool: the kinds of command of each run.    *)
EXTENDS ConnectionPool

AllKinds == {"retrieval", "storage", "noreply", "broadcast", "quit"}
NoreplyKinds == {"noreply"}
AnsweredKinds == {"retrieval", "storage"}
=============================================================================
