----------------------------- MODULE MCLockPool -----------------------------
(* Small instances of LockPool.                                            *)
EXTENDS LockPool

CONSTANTS t1, t2, t3, t4

ThreeThreads == {t1, t2, t3}
FourThreads == {t1, t2, t3, t4}
=============================================================================
