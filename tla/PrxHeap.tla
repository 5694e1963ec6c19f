------------------------------ MODULE PrxHeap ------------------------------
(***************************************************************************)
(* The plugin's private heap (ArtemisPS3-PRX/mem.c): one 64 KB block taken *)
(* from the running game's memory container and a bump pointer into it.    *)
(*                                                                         *)
(* A heap value records the two globals of mem.c and, beside them, the     *)
(* kernel's ledger of the blocks that are really allocated to the plugin:  *)
(*   heap_mem  base of the block asked for last (never cleared)            *)
(*   prx_heap  the bump pointer, Null when there is no heap                *)
(*   mapped    the blocks allocated and not yet freed                      *)
(* The operators are pure; ArtPlugin composes them with the thread.        *)
(***************************************************************************)
EXTENDS Naturals, FiniteSets

CONSTANTS
    HeapAddrs,      \* the block addresses the kernel may hand out
    NoAddr,         \* address 0
    HeapSize,       \* bytes in a block, 64 * 1024 in the code
    AllocMayFail    \* whether the game's container may be exhausted

ASSUME HeapAssumption ==
    /\ HeapAddrs # {}
    /\ NoAddr \notin HeapAddrs
    /\ HeapSize \in Nat
    /\ AllocMayFail \in BOOLEAN

Addrs == HeapAddrs \cup {NoAddr}
Ptrs == [base : Addrs, off : Nat]
Heaps == [heap_mem : Addrs, prx_heap : Ptrs, mapped : SUBSET HeapAddrs]

PtrTo(a) == [base |-> a, off |-> 0]
Null == PtrTo(NoAddr)

NoHeap == [heap_mem |-> NoAddr, prx_heap |-> Null, mapped |-> {}]

(***************************************************************************)
(* create_heap: the result of sys_memory_allocate_from_container is not    *)
(* looked at, so on failure prx_heap is set to whatever heap_mem held.     *)
(***************************************************************************)
create_heap(h) ==
    {[heap_mem |-> a, prx_heap |-> PtrTo(a), mapped |-> h.mapped \cup {a}] :
        a \in HeapAddrs \ h.mapped}
    \cup
    (IF AllocMayFail THEN {[h EXCEPT !.prx_heap = PtrTo(h.heap_mem)]} ELSE {})

\* Mutated: the pointer to the block that was freed stays.
destroy_heap_keeps_pointer(h) ==
    IF h.prx_heap # Null THEN [h EXCEPT !.mapped = @ \ {h.heap_mem}] ELSE h

destroy_heap(h) ==
    IF h.prx_heap # Null
    THEN [h EXCEPT !.mapped = @ \ {h.heap_mem}, !.prx_heap = Null]
    ELSE h

\* Mutated: the bump pointer keeps growing.
reset_heap_noop(h) == h

reset_heap(h) ==
    IF h.prx_heap # Null THEN [h EXCEPT !.prx_heap = PtrTo(h.heap_mem)] ELSE h

(***************************************************************************)
(* mem_alloc returns the bump pointer and advances it: there is no bound   *)
(* check, so the next heap and the returned pointer always exist.          *)
(***************************************************************************)
mem_alloc(h, size) == [h EXCEPT !.prx_heap.off = @ + size]

\* Bytes [p, p + n) lie inside a block the plugin owns.
Mapped(h, p, n) == p.base \in h.mapped /\ p.off + n <= HeapSize
=============================================================================
