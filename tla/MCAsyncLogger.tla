---------------------------- MODULE MCAsyncLogger ----------------------------
(* AsyncLogger with a few clients, for TLC.                                *)
EXTENDS AsyncLoggerProperties

CONSTANTS a, b, s    \* two producers and the owner that stops the logger

OneCallEach == [t \in Clients |-> 1]
TwoCallsOfA == [t \in Clients |-> IF t = a THEN 2 ELSE 1]
ThreeCallsOfA == [t \in Clients |-> IF t = a THEN 3 ELSE 1]

Setup(policy, auto, throw) ==
    [policy |-> policy, autoFlush |-> auto, sinkMayThrow |-> throw]

BlockReliable     == {Setup("Block", FALSE, FALSE)}
BlockUnreliable   == {Setup("Block", FALSE, TRUE)}
BlockAutoFlush    == {Setup("Block", TRUE, TRUE)}
BlockAndDrop      == {Setup("Block", FALSE, TRUE), Setup("DropNewest", FALSE, FALSE)}
===============================================================================
