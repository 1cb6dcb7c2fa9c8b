--------------------------- MODULE MCRonghuaClient ---------------------------
(* Instances of RonghuaClient for TLC.                                     *)
EXTENDS RonghuaClient, TLC

\* One operation of each shape the client has.
AllOps == {getHistory, getTransaction, ping, getHistoryBulk(3),
           getTransactionBulk(3), getHistoryBulk(0), getServerPeers}
\* Operations that overlap in every way the locks allow.
MixedOps == {getBlockHeader, scripthashSubscribe, getHistoryBulk(2)}

CallerSymmetry == Permutations(Callers)
=============================================================================
