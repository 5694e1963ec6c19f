---------------------------- MODULE MCArtPlugin ----------------------------
(* Two processes, one list, two places for the heap.                       *)
EXTENDS ArtPluginProps, TLC

CONSTANTS p1, p2, codelist, a1, a2

MCPids == {p1, p2}
MCLists == {codelist}
MCListSize == codelist :> 2
MCHeapAddrs == {a1, a2}
=============================================================================
