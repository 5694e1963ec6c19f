-------------------------- MODULE ArtPluginProofs --------------------------
(***************************************************************************)
(* The safety properties of ArtPlugin, for every set of processes, lists   *)
(* and block addresses, whether or not allocation can fail.                *)
(***************************************************************************)
EXTENDS ArtPluginProps, TLAPS

-----------------------------------------------------------------------------
(* The inductive invariant, by concern.                                    *)

\* The kernel's ledger, heap_mem and the bump pointer tell the same story.
HeapInv ==
    /\ HeapLedger
    /\ heap.prx_heap # Null => heap.prx_heap.base = heap.heap_mem

\* Where a list is loaded, and what must be true for the load to be safe.
LoadInv ==
    /\ pc \notin {"size", "crashed"} /\ userCodes = Null => heap.prx_heap = Null
    /\ pc = "size" =>
        /\ heap.prx_heap = PtrTo(heap.heap_mem)
        /\ ~AllocMayFail => heap.heap_mem \in heap.mapped
    /\ attachedPID # NoPid /\ pc \notin {"size", "crashed", "exiting", "exited"} =>
        /\ userCodes = PtrTo(heap.heap_mem)
        /\ Mapped(heap, userCodes, fileSize + 2)

\* Which locations belong to an attachment and which to a forced pass.
ControlInv ==
    /\ pc \in {"size", "read", "pass", "held"} => attachedPID # NoPid
    /\ pc \in {"size", "read"} => doForceWrite
    /\ doForceWrite => pc \in {"size", "read", "pass", "crashed"}
    /\ pc \notin {"poll", "exiting", "exited"} => GameProcessID # NoPid

\* The list being loaded is one that was on disk since START.
FreshInv ==
    /\ doForceWrite => art \in seen
    /\ pc = "read" /\ fileSize = 0 => NoList \in seen
    /\ pc = "pass" /\ doForceWrite => text.list \in seen

\* The exitThread handshake.
StopInv ==
    /\ exitThread => stopper = "waiting"
    /\ Leaving => stopper # "running" /\ ~exitThread /\ heap.mapped = {}
    /\ stopper # "running" /\ ~exitThread => Leaving

IInv == TypeOK /\ HeapInv /\ LoadInv /\ ControlInv /\ FreshInv /\ StopInv
            /\ NoCrash

USE HeapAssumption, PluginAssumption, ListsFitAssumption

-----------------------------------------------------------------------------
(* Facts about mem.c.                                                      *)

\* The distinguished values are well typed.
LEMMA NullType == Null \in Ptrs /\ NoText \in Texts /\ NoHeap \in Heaps /\ NoWrite \in Writes
BY DEF Null, PtrTo, Ptrs, Addrs, NoText, Texts, Files, NoHeap, Heaps, NoWrite, Writes, Processes

\* A pointer to the start of a block is null exactly when the block is.
LEMMA PtrToType == ASSUME NEW a \in Addrs PROVE PtrTo(a) \in Ptrs /\ (PtrTo(a) = Null <=> a = NoAddr)
BY DEF PtrTo, Ptrs, Null

\* destroy_heap leaves no block behind when the ledger and heap_mem agree.
LEMMA DestroyHeap ==
    ASSUME NEW h \in Heaps,
           h.mapped \subseteq {h.heap_mem}, h.prx_heap = Null => h.mapped = {}
    PROVE  /\ destroy_heap(h) \in Heaps
           /\ destroy_heap(h).mapped = {}
           /\ destroy_heap(h).prx_heap = Null
BY NullType DEF destroy_heap, Heaps

\* reset_heap rewinds the bump pointer and gives no block away.
LEMMA ResetHeap ==
    ASSUME NEW h \in Heaps
    PROVE  /\ reset_heap(h) \in Heaps
           /\ reset_heap(h).mapped = h.mapped
           /\ reset_heap(h).heap_mem = h.heap_mem
           /\ h.prx_heap = Null => reset_heap(h).prx_heap = Null
           /\ h.prx_heap # Null => reset_heap(h).prx_heap = PtrTo(h.heap_mem)
BY PtrToType DEF reset_heap, Heaps

\* create_heap points prx_heap at heap_mem, into an owned block unless it failed.
LEMMA CreateHeap ==
    ASSUME NEW h \in Heaps, h.mapped = {}, NEW g \in create_heap(h)
    PROVE  /\ g \in Heaps
           /\ g.prx_heap = PtrTo(g.heap_mem)
           /\ g.mapped \subseteq {g.heap_mem}
           /\ g.mapped = {} \/ g.heap_mem \in g.mapped
           /\ ~AllocMayFail => g.heap_mem \in g.mapped
           /\ g.heap_mem = h.heap_mem \/ g.heap_mem \in g.mapped
<1>1. CASE \E a \in HeapAddrs \ h.mapped :
            g = [heap_mem |-> a, prx_heap |-> PtrTo(a), mapped |-> h.mapped \cup {a}]
  BY <1>1, PtrToType DEF Heaps, Addrs
<1>2. CASE AllocMayFail /\ g = [h EXCEPT !.prx_heap = PtrTo(h.heap_mem)]
  BY <1>2, PtrToType DEF Heaps, Addrs
<1>3. QED
  BY <1>1, <1>2 DEF create_heap

\* mem_alloc moves the bump pointer inside its block and owns nothing new.
LEMMA MemAlloc ==
    ASSUME NEW h \in Heaps, NEW n \in Nat
    PROVE  /\ mem_alloc(h, n) \in Heaps
           /\ mem_alloc(h, n).mapped = h.mapped
           /\ mem_alloc(h, n).heap_mem = h.heap_mem
           /\ mem_alloc(h, n).prx_heap.base = h.prx_heap.base
BY DEF mem_alloc, Heaps, Ptrs

-----------------------------------------------------------------------------
(* IInv is inductive.                                                      *)

\* The initial states satisfy it: nothing is loaded and nothing is owned.
LEMMA InitInv == Init => IInv
<1> SUFFICES ASSUME Init PROVE IInv
  OBVIOUS
<1>1. TypeOK
  <2>1. pad \in Pads /\ data \in Pads
    BY DEF Init, Pads
  <2>2. heap \in Heaps /\ userCodes \in Ptrs /\ text \in Texts /\ wrote \in Writes
    BY NullType DEF Init
  <2>3. check_turnoff_delay \in 0 .. CheckTurnoffDelayMax /\ fileSize \in Nat
    BY DEF Init
  <2>4. /\ game \in Processes /\ GameProcessID \in Processes
        /\ attachedPID \in Processes
        /\ art \in Files /\ seen \in SUBSET Files /\ pc \in Locations
        /\ stopper \in {"running", "waiting", "stopped"}
    BY DEF Init, Processes, Locations
  <2>5. /\ turnoff \in BOOLEAN /\ exitThread \in BOOLEAN
        /\ doForceWrite \in BOOLEAN /\ isDEX \in BOOLEAN /\ isCCAPI \in BOOLEAN
    BY DEF Init
  <2>6. QED
    BY <2>1, <2>2, <2>3, <2>4, <2>5 DEF TypeOK
<1>2. HeapInv /\ LoadInv
  BY DEF Init, HeapInv, HeapLedger, LoadInv, NoHeap
<1>3. ControlInv /\ FreshInv /\ StopInv /\ NoCrash
  BY DEF Init, ControlInv, FreshInv, StopInv, Leaving, NoCrash
<1>4. QED
  BY <1>1, <1>2, <1>3 DEF IInv

\* A step of the console disturbs only what the plugin has not read yet.
LEMMA ConsoleInv == IInv /\ Console => IInv'
<1> SUFFICES ASSUME IInv, Console PROVE IInv'
  OBVIOUS
<1> USE DEF IInv, stopVars, loopVars, apiVars, codeVars
<1>1. game' \in Processes /\ pad' \in Pads /\ art' \in Files /\ turnoff' \in BOOLEAN
  BY DEF Console, TypeOK, ProcessStarts, ProcessExits, PadMoves, ArtFileChanges,
         TurnoffChanges, Processes
<1>2. /\ seen' \in SUBSET Files /\ seen \subseteq seen'
      /\ art \in seen => art' \in seen'
  BY <1>1 DEF Console, TypeOK, ProcessStarts, ProcessExits, PadMoves, ArtFileChanges,
         TurnoffChanges
<1>3. TypeOK'
  BY <1>1, <1>2 DEF Console, TypeOK
<1>4. FreshInv'
  BY <1>2 DEF Console, FreshInv
<1>5. HeapInv' /\ LoadInv' /\ ControlInv' /\ StopInv' /\ NoCrash'
  BY DEF Console, HeapInv, HeapLedger, LoadInv, ControlInv, StopInv, NoCrash, Leaving, Mapped
<1>6. QED
  BY <1>3, <1>4, <1>5

\* What the end of an iteration writes is well typed.
LEMMA EndTypes == NoButtons \in Pads /\ NoWrite \in Writes
BY NullType DEF Pads

\* What destroy_heap does to a state of the plugin.
LEMMA DropHeapFacts ==
    ASSUME IInv, DropHeap
    PROVE  /\ heap' \in Heaps /\ heap'.mapped = {} /\ heap'.prx_heap = Null
           /\ text' \in Texts
           /\ userCodes' = userCodes /\ fileSize' = fileSize
BY DestroyHeap, NullType DEF IInv, TypeOK, HeapInv, HeapLedger, DropHeap

\* While attached, art_process(0) finds a list in memory and does not load one.
LEMMA PadReadWithList ==
    ASSUME IInv, ReadPad
    PROVE  pc' = IF attachedPID = NoPid THEN "buttons" ELSE "pass"
<1>1. attachedPID # NoPid => userCodes # Null
  BY PtrToType DEF IInv, TypeOK, Heaps, LoadInv, Mapped, Null, PtrTo, ReadPad
<1>2. QED
  BY <1>1 DEF ReadPad

\* The steps of the thread that move through the loop without touching the heap.
LEMMA LoopInv ==
    IInv /\ (PollGame \/ TurnoffNotChecked \/ TurnoffPresent \/ NoPadData \/ ReadPad
             \/ NothingPressed \/ StartReleased \/ ThreadGone) => IInv'
<1> USE EndTypes DEF envVars, stopVars, loopVars, apiVars, codeVars, passVars,
                     EndIteration
<1>1. ASSUME IInv, PollGame PROVE IInv'
  <2>1. TypeOK'
    BY <1>1 DEF IInv, TypeOK, PollGame, Locations, Processes
  <2>2. HeapInv' /\ LoadInv'
    BY <1>1 DEF IInv, HeapInv, HeapLedger, LoadInv, Mapped, ControlInv, PollGame
  <2>3. ControlInv' /\ FreshInv' /\ StopInv' /\ NoCrash'
    BY <1>1 DEF IInv, TypeOK, LoadInv, Mapped, ControlInv, FreshInv, StopInv, Leaving,
              NoCrash, PollGame
  <2>4. QED
    BY <2>1, <2>2, <2>3 DEF IInv
<1>2. ASSUME IInv, TurnoffNotChecked PROVE IInv'
  <2>1. TypeOK'
    BY <1>2 DEF IInv, TypeOK, TurnoffNotChecked, Locations, Processes
  <2>2. HeapInv' /\ LoadInv'
    BY <1>2 DEF IInv, HeapInv, HeapLedger, LoadInv, Mapped, ControlInv, TurnoffNotChecked
  <2>3. ControlInv' /\ FreshInv' /\ StopInv' /\ NoCrash'
    BY <1>2 DEF IInv, TypeOK, LoadInv, Mapped, ControlInv, FreshInv, StopInv, Leaving,
              NoCrash, TurnoffNotChecked
  <2>4. QED
    BY <2>1, <2>2, <2>3 DEF IInv
<1>3. ASSUME IInv, TurnoffPresent PROVE IInv'
  <2>1. TypeOK'
    BY <1>3 DEF IInv, TypeOK, TurnoffPresent, Locations, Processes
  <2>2. HeapInv' /\ LoadInv'
    BY <1>3 DEF IInv, HeapInv, HeapLedger, LoadInv, Mapped, ControlInv, TurnoffPresent
  <2>3. ControlInv' /\ FreshInv' /\ StopInv' /\ NoCrash'
    BY <1>3 DEF IInv, TypeOK, LoadInv, Mapped, ControlInv, FreshInv, StopInv, Leaving,
              NoCrash, TurnoffPresent
  <2>4. QED
    BY <2>1, <2>2, <2>3 DEF IInv
<1>4. ASSUME IInv, NoPadData PROVE IInv'
  <2>1. TypeOK'
    BY <1>4 DEF IInv, TypeOK, NoPadData, Locations, Processes
  <2>2. HeapInv' /\ LoadInv'
    BY <1>4 DEF IInv, HeapInv, HeapLedger, LoadInv, Mapped, ControlInv, NoPadData
  <2>3. ControlInv' /\ FreshInv' /\ StopInv' /\ NoCrash'
    BY <1>4 DEF IInv, TypeOK, LoadInv, Mapped, ControlInv, FreshInv, StopInv, Leaving,
              NoCrash, NoPadData
  <2>4. QED
    BY <2>1, <2>2, <2>3 DEF IInv
<1>5. ASSUME IInv, ReadPad PROVE IInv'
  <2>2. pc' = IF attachedPID = NoPid THEN "buttons" ELSE "pass"
    BY <1>5, PadReadWithList
  <2>3. TypeOK'
    BY <1>5, <2>2 DEF IInv, TypeOK, ReadPad, Locations, Processes
  <2>4. HeapInv' /\ LoadInv'
    BY <1>5, <2>2 DEF IInv, HeapInv, HeapLedger, LoadInv, Mapped, ReadPad
  <2>5. ControlInv' /\ FreshInv' /\ StopInv' /\ NoCrash'
    BY <1>5, <2>2 DEF IInv, ControlInv, FreshInv, StopInv, Leaving, NoCrash, ReadPad
  <2>6. QED
    BY <2>3, <2>4, <2>5 DEF IInv
<1>6. ASSUME IInv, NothingPressed PROVE IInv'
  <2>1. TypeOK'
    BY <1>6 DEF IInv, TypeOK, NothingPressed, Locations, Processes
  <2>2. HeapInv' /\ LoadInv'
    BY <1>6 DEF IInv, HeapInv, HeapLedger, LoadInv, Mapped, ControlInv, NothingPressed
  <2>3. ControlInv' /\ FreshInv' /\ StopInv' /\ NoCrash'
    BY <1>6 DEF IInv, TypeOK, LoadInv, Mapped, ControlInv, FreshInv, StopInv, Leaving,
              NoCrash, NothingPressed
  <2>4. QED
    BY <2>1, <2>2, <2>3 DEF IInv
<1>7. ASSUME IInv, StartReleased PROVE IInv'
  <2>1. TypeOK'
    BY <1>7 DEF IInv, TypeOK, StartReleased, Locations, Processes
  <2>2. HeapInv' /\ LoadInv'
    BY <1>7 DEF IInv, HeapInv, HeapLedger, LoadInv, Mapped, ControlInv, StartReleased
  <2>3. ControlInv' /\ FreshInv' /\ StopInv' /\ NoCrash'
    BY <1>7 DEF IInv, TypeOK, LoadInv, Mapped, ControlInv, FreshInv, StopInv, Leaving,
              NoCrash, StartReleased
  <2>4. QED
    BY <2>1, <2>2, <2>3 DEF IInv
<1>8. ASSUME IInv, ThreadGone PROVE IInv'
  <2>1. TypeOK'
    BY <1>8 DEF IInv, TypeOK, ThreadGone, Locations, Processes
  <2>2. HeapInv' /\ LoadInv'
    BY <1>8 DEF IInv, HeapInv, HeapLedger, LoadInv, Mapped, ControlInv, ThreadGone
  <2>3. ControlInv' /\ FreshInv' /\ StopInv' /\ NoCrash'
    BY <1>8 DEF IInv, TypeOK, LoadInv, Mapped, ControlInv, FreshInv, StopInv, Leaving,
              NoCrash, ThreadGone
  <2>4. QED
    BY <2>1, <2>2, <2>3 DEF IInv
<1>9. QED
  BY <1>1, <1>2, <1>3, <1>4, <1>5, <1>6, <1>7, <1>8

\* The steps that give the heap back.
LEMMA DropInv == IInv /\ (PollNoGame \/ TurnedOff \/ ThreadExits) => IInv'
<1> USE EndTypes DEF envVars, stopVars, loopVars, apiVars, codeVars, passVars,
                     EndIteration
<1>1. ASSUME IInv, PollNoGame PROVE IInv'
  <2>1. TypeOK'
    BY <1>1, DropHeapFacts DEF IInv, TypeOK, PollNoGame, Locations, Processes
  <2>2. HeapInv' /\ LoadInv'
    BY <1>1, DropHeapFacts DEF IInv, HeapInv, HeapLedger, LoadInv, PollNoGame
  <2>3. ControlInv' /\ FreshInv' /\ StopInv' /\ NoCrash'
    BY <1>1, DropHeapFacts DEF IInv, ControlInv, FreshInv, StopInv, Leaving, NoCrash,
              PollNoGame
  <2>4. QED
    BY <2>1, <2>2, <2>3 DEF IInv
<1>2. ASSUME IInv, TurnedOff PROVE IInv'
  <2>1. TypeOK'
    BY <1>2, DropHeapFacts DEF IInv, TypeOK, TurnedOff, Locations, Processes
  <2>2. HeapInv' /\ LoadInv'
    BY <1>2, DropHeapFacts DEF IInv, HeapInv, HeapLedger, LoadInv, TurnedOff
  <2>3. ControlInv' /\ FreshInv' /\ StopInv' /\ NoCrash'
    BY <1>2, DropHeapFacts DEF IInv, ControlInv, FreshInv, StopInv, Leaving, NoCrash,
              TurnedOff
  <2>4. QED
    BY <2>1, <2>2, <2>3 DEF IInv
<1>3. ASSUME IInv, ThreadExits PROVE IInv'
  <2>1. TypeOK'
    <3>1. /\ heap' \in Heaps /\ text' \in Texts
          /\ userCodes' = userCodes /\ fileSize' = fileSize
      BY <1>3, DropHeapFacts DEF ThreadExits
    <3>2. exitThread' \in BOOLEAN /\ pc' \in Locations
      BY <1>3 DEF ThreadExits, Locations
    <3>3. QED
      BY <1>3, <3>1, <3>2 DEF IInv, TypeOK, ThreadExits
  <2>2. HeapInv' /\ LoadInv'
    <3>1. DropHeap /\ pc' = "exiting" /\ attachedPID' = attachedPID
      BY <1>3 DEF ThreadExits
    <3>2. QED
      BY <1>3, <3>1, DropHeapFacts DEF HeapInv, HeapLedger, LoadInv
  <2>3. ControlInv' /\ FreshInv' /\ StopInv' /\ NoCrash'
    BY <1>3, DropHeapFacts DEF IInv, ControlInv, FreshInv, StopInv, Leaving, NoCrash,
              ThreadExits
  <2>4. QED
    BY <2>1, <2>2, <2>3 DEF IInv
<1>4. QED
  BY <1>1, <1>2, <1>3

\* START: whatever the heap was before, SizeFile finds the bump pointer at its base.
LEMMA StartInv == IInv /\ StartPressed => IInv'
<1> SUFFICES ASSUME IInv, StartPressed PROVE IInv'
  OBVIOUS
<1> USE DEF envVars, stopVars, loopVars, apiVars, codeVars, passVars
<1>1. PICK h \in (IF heap.prx_heap = Null THEN create_heap(heap) ELSE {heap}) :
        heap' = IF userCodes # Null THEN reset_heap(h) ELSE h
  BY DEF StartPressed
<1>2. /\ h \in Heaps
      /\ h.mapped \subseteq {h.heap_mem}
      /\ h.prx_heap = Null => h.mapped = {}
      /\ h.prx_heap # Null => h.prx_heap.base = h.heap_mem
      /\ ~AllocMayFail => h.heap_mem \in h.mapped
  <2>1. CASE heap.prx_heap = Null
    <3>1. heap \in Heaps /\ heap.mapped = {} /\ h \in create_heap(heap)
      BY <1>1, <2>1 DEF IInv, TypeOK, HeapInv, HeapLedger
    <3>2. /\ h \in Heaps /\ h.prx_heap = PtrTo(h.heap_mem)
          /\ h.mapped \subseteq {h.heap_mem}
          /\ ~AllocMayFail => h.heap_mem \in h.mapped
      BY <3>1, CreateHeap
    <3>3. h.prx_heap = Null => h.mapped = {}
      BY <3>2, HeapAssumption, PtrToType DEF Heaps
    <3>4. QED
      BY <3>2, <3>3 DEF PtrTo
  <2>2. CASE heap.prx_heap # Null
    BY <1>1, <2>2 DEF IInv, TypeOK, HeapInv, HeapLedger, StartPressed
  <2>3. QED
    BY <2>1, <2>2
<1>3. heap.prx_heap = Null => h.prx_heap = PtrTo(h.heap_mem)
  BY <1>1, CreateHeap DEF IInv, TypeOK, HeapInv, HeapLedger
<1>4. heap.prx_heap # Null => userCodes # Null
  BY DEF IInv, LoadInv, StartPressed
<1>5. /\ heap' \in Heaps
      /\ heap'.mapped = h.mapped /\ heap'.heap_mem = h.heap_mem
      /\ heap'.prx_heap = PtrTo(h.heap_mem)
  <2>1. CASE userCodes # Null
    BY <1>1, <1>2, <1>3, <2>1, ResetHeap
  <2>2. CASE userCodes = Null
    BY <1>1, <1>2, <1>3, <1>4, <2>2
  <2>3. QED
    BY <2>1, <2>2
<1>6. isDEX' \in BOOLEAN /\ isCCAPI' \in BOOLEAN
  BY DEF StartPressed, check_syscall_api, ElfSeen, IInv, TypeOK
<1>7. TypeOK'
  <2>1. userCodes' \in Ptrs /\ wrote' \in Writes /\ seen' \in SUBSET Files
    BY NullType DEF StartPressed, IInv, TypeOK
  <2>2. pc' \in Locations /\ doForceWrite' \in BOOLEAN /\ attachedPID' \in Processes
    BY DEF StartPressed, Locations, IInv, TypeOK
  <2>3. QED
    BY <1>5, <1>6, <2>1, <2>2 DEF StartPressed, IInv, TypeOK
<1>8. HeapInv'
  <2>1. heap'.prx_heap = Null => heap'.mapped = {}
    BY <1>2, <1>5, HeapAssumption, PtrToType DEF Heaps
  <2>2. heap'.prx_heap.base = heap'.heap_mem
    BY <1>5 DEF PtrTo
  <2>3. QED
    BY <1>2, <1>5, <2>1, <2>2 DEF HeapInv, HeapLedger, StartPressed
<1>9. LoadInv'
  BY <1>2, <1>5 DEF LoadInv, StartPressed
<1>10. ControlInv' /\ FreshInv' /\ StopInv' /\ NoCrash'
  BY DEF StartPressed, IInv, ControlInv, FreshInv, StopInv, Leaving, NoCrash
<1>11. QED
  BY <1>6, <1>7, <1>8, <1>9, <1>10 DEF IInv

\* SELECT rewinds the heap and leaves the block where it is.
LEMMA SelectInv == IInv /\ SelectPressed => IInv'
<1> SUFFICES ASSUME IInv, SelectPressed PROVE IInv'
  OBVIOUS
<1> USE EndTypes DEF envVars, stopVars, loopVars, apiVars, codeVars, passVars,
                     EndIteration
<1>1. /\ heap' \in Heaps /\ heap'.mapped = heap.mapped /\ heap'.heap_mem = heap.heap_mem
      /\ heap.prx_heap = Null => heap'.prx_heap = Null
      /\ heap.prx_heap # Null => heap'.prx_heap = PtrTo(heap.heap_mem)
  BY ResetHeap DEF SelectPressed, IInv, TypeOK
<1>2. TypeOK'
  BY <1>1 DEF SelectPressed, IInv, TypeOK, Locations, Processes
<1>3. HeapInv'
  <2>1. heap'.prx_heap = Null => heap.mapped = {}
    BY <1>1, HeapAssumption, PtrToType DEF SelectPressed, IInv, TypeOK, Heaps, HeapInv,
       HeapLedger
  <2>2. heap'.prx_heap # Null => heap.prx_heap # Null /\ heap'.prx_heap.base = heap'.heap_mem
    BY <1>1 DEF PtrTo
  <2>3. QED
    BY <1>1, <2>1, <2>2 DEF SelectPressed, IInv, HeapInv, HeapLedger
<1>4. LoadInv'
  BY <1>1 DEF SelectPressed, IInv, LoadInv
<1>5. ControlInv' /\ FreshInv' /\ StopInv' /\ NoCrash'
  BY <1>1 DEF SelectPressed, IInv, ControlInv, FreshInv, StopInv, Leaving, NoCrash
<1>6. QED
  BY <1>2, <1>3, <1>4, <1>5 DEF IInv

\* A list's size is a number, the block has room for it, and only no list has none.
LEMMA SizeType == ASSUME NEW f \in Files
                  PROVE  /\ Size(f) \in Nat /\ Size(f) + 2 <= HeapSize
                         /\ Size(f) = 0 <=> f = NoList
BY DEF Files, Size

\* Sizing the file: the whole list fits the block, if there is one.
LEMMA SizeFileInv == IInv /\ SizeFile => IInv'
<1> SUFFICES ASSUME IInv, SizeFile PROVE IInv'
  OBVIOUS
<1> USE DEF envVars, stopVars, loopVars, apiVars, codeVars, passVars
<1>1. Size(art) \in Nat /\ Size(art) + 2 <= HeapSize /\ (Size(art) = 0 <=> art = NoList)
  BY SizeType DEF IInv, TypeOK
<1>2. /\ heap' \in Heaps /\ heap'.mapped = heap.mapped /\ heap'.heap_mem = heap.heap_mem
      /\ heap'.prx_heap.base = heap.prx_heap.base
  <2>1. heap \in Heaps /\ Size(art) + 2 \in Nat
    BY <1>1 DEF IInv, TypeOK
  <2>2. heap' = mem_alloc(heap, Size(art) + 2)
    BY DEF SizeFile
  <2>3. QED
    BY <2>1, <2>2, MemAlloc
<1>3. heap.prx_heap = PtrTo(heap.heap_mem) /\ heap.prx_heap \in Ptrs
  BY DEF SizeFile, IInv, LoadInv, TypeOK, Heaps
<1>4. heap.prx_heap.base = heap.heap_mem /\ heap.prx_heap.off = 0
  BY <1>3 DEF PtrTo
<1>5. Mapped(heap, heap.prx_heap, Size(art) + 2) <=> heap.heap_mem \in heap.mapped
  BY <1>1, <1>4 DEF Mapped
<1>6. pc' = IF heap.heap_mem \in heap.mapped THEN "read" ELSE "crashed"
  BY <1>5 DEF SizeFile
<1>7. TypeOK'
  BY <1>1, <1>2, <1>3, <1>6, NullType DEF SizeFile, IInv, TypeOK, Locations
<1>8. heap'.prx_heap = Null => heap.heap_mem \notin heap.mapped
  BY <1>2, <1>4, HeapAssumption DEF Null, PtrTo, IInv, TypeOK, Heaps
<1>9. HeapInv'
  BY <1>2, <1>4, <1>6, <1>8 DEF IInv, HeapInv, HeapLedger
<1>10. LoadInv'
  <2>1. CASE heap.heap_mem \in heap.mapped
    <3>1. userCodes' = PtrTo(heap'.heap_mem) /\ pc' = "read"
      BY <1>2, <1>3, <1>6, <2>1 DEF SizeFile
    <3>2. Mapped(heap', userCodes', fileSize' + 2)
      BY <1>1, <1>2, <1>4, <2>1 DEF SizeFile, Mapped
    <3>3. userCodes' # Null
      BY <2>1, <3>1, <1>2, HeapAssumption, PtrToType DEF IInv, TypeOK, Heaps
    <3>4. QED
      BY <3>1, <3>2, <3>3 DEF LoadInv
  <2>2. CASE heap.heap_mem \notin heap.mapped
    BY <1>6, <2>2 DEF LoadInv
  <2>3. QED
    BY <2>1, <2>2
<1>11. ControlInv' /\ NoCrash'
  <2>1. ControlInv'
    BY <1>6 DEF SizeFile, IInv, ControlInv
  <2>2. pc' = "crashed" => heap.heap_mem \notin heap.mapped /\ AllocMayFail
    BY <1>6 DEF SizeFile, IInv, LoadInv
  <2>3. heap.mapped \subseteq {heap.heap_mem}
    BY DEF IInv, HeapInv, HeapLedger
  <2>4. NoCrash'
    BY <1>2, <2>2, <2>3 DEF NoCrash
  <2>5. QED
    BY <2>1, <2>4
<1>12. FreshInv'
  BY <1>1, <1>6 DEF SizeFile, IInv, FreshInv, ControlInv
<1>13. StopInv'
  BY <1>2, <1>6 DEF SizeFile, IInv, StopInv, Leaving
<1>14. QED
  BY <1>7, <1>9, <1>10, <1>11, <1>12, <1>13 DEF IInv

\* Reading the file: at most the bytes that were asked for.
LEMMA ReadFileInv == IInv /\ ReadFile => IInv'
<1> SUFFICES ASSUME IInv, ReadFile PROVE IInv'
  OBVIOUS
<1> USE DEF envVars, stopVars, loopVars, apiVars, codeVars, passVars
<1>1. Size(art) \in Nat /\ Size(art) + 2 <= HeapSize /\ (Size(art) = 0 <=> art = NoList)
  BY SizeType DEF IInv, TypeOK
<1>2. text' \in Texts
  BY <1>1, NullType DEF ReadFile, IInv, TypeOK, Texts
<1>3. text'.list = art \/ (text'.list = NoList /\ (art = NoList \/ fileSize = 0))
  BY <1>1 DEF ReadFile, NoText
<1>4. doForceWrite /\ art \in seen /\ (fileSize = 0 => NoList \in seen)
  BY DEF ReadFile, IInv, ControlInv, FreshInv
<1>5. TypeOK'
  BY <1>2 DEF ReadFile, IInv, TypeOK, Locations
<1>6. HeapInv' /\ LoadInv'
  BY DEF ReadFile, IInv, HeapInv, HeapLedger, LoadInv, Mapped
<1>7. FreshInv'
  BY <1>3, <1>4 DEF ReadFile, FreshInv
<1>8. ControlInv' /\ StopInv' /\ NoCrash'
  BY DEF ReadFile, IInv, ControlInv, StopInv, Leaving, NoCrash
<1>9. QED
  BY <1>5, <1>6, <1>7, <1>8 DEF IInv

\* A pass over the list ends the forced write and leaves the heap alone.
LEMMA ConvertCodesInv == IInv /\ ConvertCodes => IInv'
<1> SUFFICES ASSUME IInv, ConvertCodes PROVE IInv'
  OBVIOUS
<1> USE DEF envVars, stopVars, loopVars, apiVars, codeVars, passVars
<1>1. TypeOK'
  BY DEF ConvertCodes, IInv, TypeOK, Locations, Writes
<1>2. HeapInv' /\ LoadInv'
  BY DEF ConvertCodes, IInv, HeapInv, HeapLedger, LoadInv, Mapped
<1>3. ControlInv' /\ FreshInv' /\ StopInv' /\ NoCrash'
  BY DEF ConvertCodes, IInv, ControlInv, FreshInv, StopInv, Leaving, NoCrash
<1>4. QED
  BY <1>1, <1>2, <1>3 DEF IInv

\* art_stop raises exitThread and waits; it returns once the thread lowered it.
LEMMA StopperInv == IInv /\ (ArtStop \/ ArtStopReturns) => IInv'
<1> SUFFICES ASSUME IInv, ArtStop \/ ArtStopReturns PROVE IInv'
  OBVIOUS
<1> USE DEF envVars, stopVars, loopVars, apiVars, codeVars, passVars
<1>1. TypeOK'
  BY DEF ArtStop, ArtStopReturns, IInv, TypeOK
<1>2. HeapInv' /\ LoadInv' /\ ControlInv' /\ FreshInv' /\ NoCrash'
  BY DEF ArtStop, ArtStopReturns, IInv, HeapInv, HeapLedger, LoadInv, Mapped, ControlInv,
         FreshInv, NoCrash
<1>3. StopInv'
  BY DEF ArtStop, ArtStopReturns, IInv, StopInv, Leaving
<1>4. QED
  BY <1>1, <1>2, <1>3 DEF IInv

\* Every step of the plugin and of its console preserves the invariant.
LEMMA NextInv == IInv /\ [Next]_vars => IInv'
<1> SUFFICES ASSUME IInv, [Next]_vars PROVE IInv'
  OBVIOUS
<1>1. CASE ArtThread
  BY <1>1, LoopInv, DropInv, StartInv, SelectInv, SizeFileInv, ReadFileInv, ConvertCodesInv
     DEF ArtThread
<1>2. CASE ArtStop \/ ArtStopReturns
  BY <1>2, StopperInv
<1>3. CASE Console
  BY <1>3, ConsoleInv
<1>4. CASE UNCHANGED vars
  BY <1>4 DEF vars, envVars, stopVars, loopVars, apiVars, codeVars, passVars, IInv, TypeOK,
      HeapInv, HeapLedger, LoadInv, Mapped, ControlInv, FreshInv, StopInv, Leaving, NoCrash
<1>5. QED
  BY <1>1, <1>2, <1>3, <1>4 DEF Next

-----------------------------------------------------------------------------
(* The results.                                                            *)

\* The invariant holds throughout every behaviour of the plugin and its console.
THEOREM Invariance == Spec => []IInv
BY InitInv, NextInv, PTL DEF Spec

\* Every variable stays in its type: in particular the list in memory is never
\* longer than the block and the turnoff counter never passes its maximum.
THEOREM TypeCorrect == Spec => []TypeOK
<1>1. IInv => TypeOK
  BY DEF IInv
<1>2. QED
  BY <1>1, Invariance, PTL

\* Whatever the order of attaching, detaching, exits and failed allocations, no
\* block of the game's container is lost and none is freed twice (mem.c).
THEOREM HeapLedgerExact == Spec => []HeapLedger
<1>1. IInv => HeapLedger
  BY DEF IInv, HeapInv
<1>2. QED
  BY <1>1, Invariance, PTL

\* The list ConvertCodes walks lies inside the plugin's block, for every list that
\* fits one, although userCodes dangles after a detach (main.c:970-999).
THEOREM ListStaysMapped == Spec => []CodesMapped
<1>1. IInv => CodesMapped
  BY DEF IInv, ControlInv, LoadInv, CodesMapped
<1>2. QED
  BY <1>1, Invariance, PTL

\* Loading takes the shell down only when the container had no room for any block.
THEOREM NeverCrashes == Spec => []NoCrash
<1>1. IInv => NoCrash
  BY DEF IInv
<1>2. QED
  BY <1>1, Invariance, PTL

\* art_stop returns to a console the plugin has given everything back to.
THEOREM StopLeavesNothing == Spec => []StoppedClean
<1>1. IInv => StoppedClean
  BY DEF IInv, StopInv, StoppedClean, Leaving
<1>2. QED
  BY <1>1, Invariance, PTL

\* A press of START applies a list that was on disk since that press.
THEOREM ActivationsFresh == Spec => ActivationFresh
<1>1. IInv /\ [Next]_vars => [pc = "pass" /\ pc' = "held" => text.list \in seen]_vars
  <2> SUFFICES ASSUME IInv, Next, pc = "pass", pc' = "held" PROVE text.list \in seen
    OBVIOUS
  <2>1. ConvertCodes
    BY DEF Next, ArtThread, ArtStop, ArtStopReturns, Console, PollGame, PollNoGame,
        TurnoffNotChecked, TurnoffPresent, TurnedOff, NoPadData, ReadPad, StartPressed,
        SelectPressed, NothingPressed, StartReleased, SizeFile, ReadFile, ThreadExits,
        ThreadGone
  <2>2. doForceWrite
    BY <2>1 DEF ConvertCodes
  <2>3. QED
    BY <2>2 DEF IInv, FreshInv
<1>2. QED
  BY <1>1, Invariance, PTL DEF Spec, ActivationFresh

\* The list loaded from a file that did not change since START is the whole of it.
WholeInv ==
    /\ seen # {} => doForceWrite
    /\ \A f \in Files : seen = {f} =>
        /\ pc = "read" => fileSize = Size(f)
        /\ pc = "pass" => text = Whole(f)

\* Outside a load no content of art.txt is on record, and no step starts one.
LEMMA WholeOutside ==
    ASSUME IInv, WholeInv, pc \notin {"size", "read", "pass", "crashed"}, seen' = seen
    PROVE  WholeInv'
BY DEF IInv, ControlInv, WholeInv

\* The steps of a load: the file is sized, read and applied.
LEMMA WholeLoading ==
    ASSUME IInv, WholeInv, StartPressed \/ SizeFile \/ ReadFile \/ ConvertCodes
    PROVE  WholeInv'
<1> USE DEF passVars
<1>1. doForceWrite => \A f \in Files : seen = {f} => art = f
  BY DEF IInv, FreshInv
<1>2. CASE StartPressed
  BY <1>2 DEF StartPressed, WholeInv
<1>3. CASE SizeFile
  <2>1. doForceWrite /\ doForceWrite' = doForceWrite /\ seen' = seen /\ fileSize' = Size(art)
        /\ pc' # "pass"
    BY <1>3 DEF SizeFile, IInv, ControlInv
  <2>2. QED
    BY <1>1, <2>1 DEF WholeInv
<1>4. CASE ReadFile
  <2>1. /\ doForceWrite /\ doForceWrite' = doForceWrite /\ seen' = seen
        /\ pc = "read" /\ pc' = "pass" /\ art \in Files
    BY <1>4 DEF ReadFile, IInv, ControlInv, TypeOK
  <2>2. Size(art) \in Nat /\ (Size(art) = 0 <=> art = NoList)
    BY <2>1, SizeType
  <2>3. fileSize = Size(art) => text' = Whole(art)
    BY <1>4, <2>2 DEF ReadFile, NoText, Whole
  <2>4. QED
    BY <1>1, <2>1, <2>3 DEF WholeInv
<1>5. CASE ConvertCodes
  BY <1>5 DEF ConvertCodes, WholeInv
<1>6. QED
  BY <1>2, <1>3, <1>4, <1>5

\* The console: a file that changes during a load has had two contents.
LEMMA WholeConsole == ASSUME IInv, WholeInv, Console PROVE WholeInv'
<1>1. /\ pc' = pc /\ doForceWrite' = doForceWrite /\ fileSize' = fileSize /\ text' = text
  BY DEF Console, codeVars
<1>2. CASE ArtFileChanges
  <2>1. /\ art' # art
        /\ seen' = IF seen = {} THEN {} ELSE seen \cup {art'}
    BY <1>2 DEF ArtFileChanges
  <2>2. seen # {} => art \in seen
    BY DEF IInv, FreshInv, WholeInv
  <2>3. \A f \in Files : seen' # {f}
    BY <2>1, <2>2
  <2>4. QED
    BY <1>1, <2>1, <2>3 DEF WholeInv
<1>3. CASE seen' = seen
  BY <1>1, <1>3 DEF WholeInv
<1>4. QED
  BY <1>2, <1>3 DEF Console, ProcessStarts, ProcessExits, PadMoves, TurnoffChanges

\* Every step keeps it.
LEMMA WholeStep == IInv /\ WholeInv /\ [Next]_vars => WholeInv'
<1> SUFFICES ASSUME IInv, WholeInv, [Next]_vars PROVE WholeInv'
  OBVIOUS
<1> USE DEF envVars, stopVars, loopVars, apiVars, codeVars, passVars
<1>1. CASE StartPressed \/ SizeFile \/ ReadFile \/ ConvertCodes
  BY <1>1, WholeLoading
<1>2. CASE \/ PollGame \/ PollNoGame \/ TurnoffNotChecked \/ TurnoffPresent \/ TurnedOff
           \/ NoPadData \/ ReadPad \/ SelectPressed \/ NothingPressed \/ StartReleased
           \/ ThreadExits \/ ThreadGone
  <2>1. pc \notin {"size", "read", "pass", "crashed"} /\ seen' = seen
    BY <1>2 DEF PollGame, PollNoGame, TurnoffNotChecked, TurnoffPresent, TurnedOff, NoPadData,
        ReadPad, SelectPressed, NothingPressed, StartReleased, ThreadExits, ThreadGone
  <2>2. QED
    BY <2>1, WholeOutside
<1>3. CASE ArtStop \/ ArtStopReturns \/ UNCHANGED vars
  BY <1>3 DEF ArtStop, ArtStopReturns, vars, WholeInv
<1>4. CASE Console
  BY <1>4, WholeConsole
<1>5. QED
  BY <1>1, <1>2, <1>3, <1>4 DEF Next, ArtThread

\* A forced pass applies the whole of art.txt, for every list and size, unless the GUI
\* rewrote the file between the press of START and the read (main.c:979-993).
THEOREM ListsAppliedWhole == Spec => WholeUnlessRewritten
<1>1. Init => WholeInv
  BY DEF Init, WholeInv
<1>2. IInv /\ WholeInv /\ [Next]_vars
        => [pc = "pass" /\ pc' = "held" =>
                \A f \in Files : seen = {f} => text = Whole(f)]_vars
  BY DEF WholeInv
<1>3. Spec => []WholeInv
  BY <1>1, WholeStep, Invariance, PTL DEF Spec
<1>4. QED
  BY <1>2, <1>3, Invariance, PTL DEF Spec, WholeUnlessRewritten

-----------------------------------------------------------------------------
(* Refinement.                                                             *)

\* The session is over or goes on untouched in every step but a pass.
LEMMA LoopStepRefines ==
    ASSUME IInv,
           \/ PollGame \/ TurnoffNotChecked \/ TurnoffPresent \/ NoPadData \/ ReadPad
           \/ NothingPressed \/ StartReleased \/ PollNoGame \/ TurnedOff
           \/ StartPressed \/ SelectPressed \/ SizeFile \/ ReadFile
    PROVE  /\ session' = NoSession \/ session' = session
           /\ wrote' = NoWrite \/ (wrote' = wrote /\ session' = session)
           /\ Leaving' = Leaving
<1> USE DEF envVars, stopVars, loopVars, apiVars, codeVars, passVars, EndIteration
<1>1. CASE PollGame
  BY <1>1 DEF PollGame, session, NoSession, Loading, Leaving, IInv, ControlInv
<1>2. CASE PollNoGame
  BY <1>2 DEF PollNoGame, session, NoSession, Loading, Leaving, IInv, ControlInv, DropHeap
<1>3. CASE TurnoffNotChecked
  BY <1>3 DEF TurnoffNotChecked, session, NoSession, Loading, Leaving, IInv, ControlInv
<1>4. CASE TurnoffPresent
  BY <1>4 DEF TurnoffPresent, session, NoSession, Loading, Leaving, IInv, ControlInv
<1>5. CASE TurnedOff
  BY <1>5 DEF TurnedOff, session, NoSession, Loading, Leaving, IInv, ControlInv, DropHeap
<1>6. CASE NoPadData
  BY <1>6 DEF NoPadData, session, NoSession, Loading, Leaving, IInv, ControlInv
<1>7. CASE ReadPad
  <2>1. CASE attachedPID = NoPid
    BY <1>7, <2>1, PadReadWithList DEF ReadPad, session, Leaving
  <2>2. CASE attachedPID # NoPid
    <3>1. pc = "pad" /\ pc' = "pass" /\ ~doForceWrite' /\ UNCHANGED <<attachedPID, text, wrote>>
      BY <1>7, <2>2, PadReadWithList DEF ReadPad
    <3>2. QED
      BY <3>1 DEF session, Loading, Leaving
  <2>3. QED
    BY <2>1, <2>2
<1>8. CASE StartPressed
  BY <1>8 DEF StartPressed, session, NoSession, Loading, Leaving, IInv, ControlInv
<1>9. CASE SelectPressed
  BY <1>9 DEF SelectPressed, session, NoSession, Loading, Leaving, IInv, ControlInv
<1>10. CASE NothingPressed
  BY <1>10 DEF NothingPressed, session, NoSession, Loading, Leaving, IInv, ControlInv
<1>11. CASE StartReleased
  BY <1>11 DEF StartReleased, session, NoSession, Loading, Leaving, IInv, ControlInv
<1>12. CASE SizeFile
  BY <1>12 DEF SizeFile, session, NoSession, Loading, Leaving, IInv, ControlInv
<1>13. CASE ReadFile
  BY <1>13 DEF ReadFile, session, NoSession, Loading, Leaving, IInv, ControlInv
<1>14. QED
  BY <1>1, <1>2, <1>3, <1>4, <1>5, <1>6, <1>7, <1>8, <1>9, <1>10, <1>11, <1>12, <1>13

\* ThreadExits closes the shop; what is left of the thread changes nothing.
LEMMA ExitRefines ==
    ASSUME IInv, ThreadExits \/ ThreadGone \/ ArtStop \/ ArtStopReturns \/ Console
                    \/ UNCHANGED vars
    PROVE  /\ wrote' = wrote
           /\ \/ session' = session /\ Leaving' = Leaving
              \/ session' = NoSession /\ Leaving'
<1> USE DEF vars, envVars, stopVars, loopVars, apiVars, codeVars, passVars
<1>1. CASE ThreadExits
  BY <1>1 DEF ThreadExits, session, NoSession, Leaving
<1>2. CASE ThreadGone
  BY <1>2 DEF ThreadGone, session, NoSession, Leaving
<1>3. CASE ArtStop \/ ArtStopReturns
  BY <1>3 DEF ArtStop, ArtStopReturns, session, NoSession, Loading, Leaving
<1>4. CASE Console
  BY <1>4 DEF Console, session, NoSession, Loading, Leaving
<1>5. CASE UNCHANGED vars
  BY <1>5 DEF session, NoSession, Loading, Leaving
<1>6. QED
  BY <1>1, <1>2, <1>3, <1>4, <1>5

\* A forced pass opens the session it writes; a constant one repeats it.
LEMMA PassRefines == ASSUME IInv, ConvertCodes PROVE Session!Next
<1> USE DEF stopVars, passVars, codeVars
<1>1. attachedPID \in Pids /\ text \in Texts /\ ~Leaving /\ Leaving' = Leaving
  BY DEF ConvertCodes, IInv, TypeOK, ControlInv, Processes, Leaving
<1>2. session' = [pid |-> attachedPID, text |-> text]
  BY <1>1 DEF ConvertCodes, session, Loading, Leaving
<1>3. CASE doForceWrite
  <2>1. session = NoSession
    BY <1>3 DEF ConvertCodes, session, Loading
  <2>2. Session!Activate(attachedPID, text)
    BY <1>1, <1>2, <1>3, <2>1 DEF ConvertCodes, Session!Activate
  <2>3. QED
    BY <1>1, <2>2 DEF Session!Next
<1>4. CASE ~doForceWrite
  <2>1. session = [pid |-> attachedPID, text |-> text]
    BY <1>1, <1>4 DEF ConvertCodes, session, Loading, Leaving
  <2>2. session # NoSession
    BY <1>1, <2>1 DEF NoSession
  <2>3. wrote' = [pid |-> attachedPID, text |-> text, force |-> FALSE]
    BY <1>4 DEF ConvertCodes, IInv, TypeOK
  <2>4. Session!Repeat
    BY <1>1, <1>2, <2>1, <2>2, <2>3 DEF Session!Repeat
  <2>5. QED
    BY <2>4 DEF Session!Next
<1>5. QED
  BY <1>3, <1>4

\* The plugin implements ArtSession: every behaviour of the thread and its console is
\* one of sessions that write one list to one process and end.
THEOREM PluginImplementsSession == Spec => ImplementsSession
<1>1. Init => Session!Init
  BY DEF Init, Session!Init, session, Leaving
<1>2. IInv /\ [Next]_vars => [Session!Next]_(Session!vars)
  <2> SUFFICES ASSUME IInv, [Next]_vars PROVE [Session!Next]_(Session!vars)
    OBVIOUS
  <2>1. CASE ConvertCodes
    BY <2>1, PassRefines
  <2>2. CASE ThreadExits \/ ThreadGone \/ ArtStop \/ ArtStopReturns \/ Console
                \/ UNCHANGED vars
    BY <2>2, ExitRefines DEF Session!Next, Session!vars, Session!Stop
  <2>3. CASE \/ PollGame \/ TurnoffNotChecked \/ TurnoffPresent \/ NoPadData \/ ReadPad
             \/ NothingPressed \/ StartReleased \/ PollNoGame \/ TurnedOff
             \/ StartPressed \/ SelectPressed \/ SizeFile \/ ReadFile
    BY <2>3, LoopStepRefines DEF Session!Next, Session!vars, Session!Rest, Session!End
  <2>4. QED
    BY <2>1, <2>2, <2>3 DEF Next, ArtThread
<1>3. QED
  BY <1>1, <1>2, Invariance, PTL DEF Spec, ImplementsSession, Session!Spec
=============================================================================
