---------------------------- MODULE MCClientPool ----------------------------
(* Small instances of ClientPool.                                          *)
EXTENDS ClientPool

CONSTANTS u1, u2, u3, hostsA, hostsB

TwoUsers == {u1, u2}
ThreeUsers == {u1, u2, u3}
Lists == {hostsA, hostsB}
SameSize == [l \in Lists \cup {NoServers} |-> IF l = NoServers THEN 0 ELSE 2]

OnlyUpdates == {"updateServers"}
MaxOption == {"CFG_MAX_CLIENTS"}
AllCalls == AllOps
NoCalls == {}
=============================================================================
