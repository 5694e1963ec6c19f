--------------------------- MODULE ArtPluginProps ---------------------------
(***************************************************************************)
(* What is claimed of the plugin thread: the properties that ArtPlugin is  *)
(* checked for and that ArtPluginProofs proves.                            *)
(***************************************************************************)
EXTENDS ArtPlugin

-----------------------------------------------------------------------------
(* The session the thread is in, as ArtSession sees it.                    *)

NoSession == [pid |-> NoPid, text |-> NoText]

\* A list is in force from the end of its forced pass.
Loading == pc \in {"size", "read"} \/ (pc = "pass" /\ doForceWrite)
Leaving == pc \in {"exiting", "exited"}

session ==
    IF attachedPID = NoPid \/ Loading \/ Leaving \/ pc = "crashed" THEN NoSession
    ELSE [pid |-> attachedPID, text |-> text]

Session == INSTANCE ArtSession WITH stopped <- Leaving

\* The plugin implements ArtSession: between two presses of START every pass of
\* the constant codes writes the list the last START loaded, to the process it
\* attached to, whatever the GUI does to art.txt, whichever process runs now and
\* whatever became of the heap (main.c:963-1002, 1101-1152).
ImplementsSession == Session!Spec

-----------------------------------------------------------------------------
(* The heap.                                                               *)

\* No block is lost and none is freed twice: prx_heap says "no heap" exactly when
\* the kernel counts no block, and otherwise heap_mem names the one block it counts -
\* over any sequence of attach, detach, exit and failed allocation (mem.c).  Only
\* between a failed allocation and the memset that follows is the pointer stale.
HeapLedger ==
    /\ heap.mapped \subseteq {heap.heap_mem}
    /\ heap.prx_heap = Null => heap.mapped = {}
    /\ heap.prx_heap # Null /\ pc \notin {"size", "crashed"} =>
        heap.heap_mem \in heap.mapped

\* From the memset on, the list being loaded or applied lies inside the block the
\* plugin owns, although userCodes is not cleared when the block is freed and
\* reset_heap keeps a list that has become stale (main.c:970-999).
CodesMapped ==
    pc \in {"read", "pass"} => Mapped(heap, userCodes, fileSize + 2)

\* Loading a list touches memory the plugin does not own only if it owns none, the
\* container being exhausted: a block, once there, always has room for the next list,
\* however often lists are loaded into it (main.c:970-982, create_heap's ignored result).
NoCrash == pc = "crashed" => AllocMayFail /\ heap.mapped = {}

\* When art_stop returns nothing of the plugin's heap is left behind in the
\* game's container, wherever the thread was when it was told to stop.
StoppedClean == stopper = "stopped" => heap.mapped = {} /\ pc \in {"exiting", "exited"}

-----------------------------------------------------------------------------
(* Loading.                                                                *)

\* A forced pass applies a list that was on disk since START was seen: never the
\* one of an earlier attachment, still in the heap (main.c:969-975).
ActivationFresh == [][pc = "pass" /\ pc' = "held" => text.list \in seen]_vars

\* What a read of the whole file f leaves in memory.
Whole(f) == [list |-> f, len |-> Size(f)]

\* A forced pass applies the list on disk from its first line to its last, although
\* the size and the bytes come from two opens of art.txt: a list that is cut off or
\* missing reaches the game only if the GUI rewrote the file after START was seen
\* (main.c:979-993).
WholeUnlessRewritten ==
    [][pc = "pass" /\ pc' = "held" => \A f \in Files : seen = {f} => text = Whole(f)]_vars

-----------------------------------------------------------------------------
(* Liveness, under FairSpec.                                               *)

\* art_stop returns once the player lets go of START for good.
StopReturns ==
    <>[](~pad.START) => (stopper = "waiting" ~> stopper = "stopped" \/ pc = "crashed")

\* With the turnoff flag gone the plugin lets go of the process again and again
\* (a START between two looks at the flag may attach it anew).
TurnoffDetaches ==
    <>[](~turnoff /\ ~pad.START) /\ [](stopper = "running" /\ pc # "crashed")
        => <>[](attachedPID = NoPid)

\* START held over a running process gets its codes written, unless the press has
\* been spent on a process that ended while it was answered: the thread then waits
\* for START to be let go of.
StartActivates ==
    \A p \in Pids :
        <>[](game = p /\ turnoff /\ pad.START) /\ [](stopper = "running" /\ pc # "crashed")
            => \/ <>(attachedPID = p /\ wrote.pid = p)
               \/ <>[](pc = "held" /\ attachedPID # p)
=============================================================================
