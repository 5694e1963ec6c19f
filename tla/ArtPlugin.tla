----------------------------- MODULE ArtPlugin -----------------------------
(***************************************************************************)
(* The Artemis plugin thread (ArtemisPS3-PRX/main.c, mem.c): art_thread    *)
(* polls the console for a running process and the pad, attaches on START, *)
(* loads /dev_hdd0/tmp/art.txt into its heap and writes the codes, repeats *)
(* the constant ones at every poll and detaches on SELECT, on process exit *)
(* and when the console goes down; art_stop makes it exit.                 *)
(*                                                                         *)
(* One action per stretch of art_thread between two points where the rest  *)
(* of the console can change what it reads next.  The environment starts   *)
(* and ends processes, moves the pad, rewrites art.txt and removes the     *)
(* turnoff flag at any moment.                                             *)
(***************************************************************************)
EXTENDS PrxHeap

CONSTANTS
    Pids,                   \* process ids of games (and of the Artemis GUI)
    NoPid,                  \* GetGameProcessID() = 0, attachedPID = 0
    Lists,                  \* contents the GUI may write to art.txt
    NoList,                 \* art.txt missing or empty
    ListSize,               \* bytes of each list
    CheckTurnoffDelayMax,   \* check_turnoff_delay_max, 10 in the code
    DexAvail, CcapiAvail    \* memory syscalls this firmware implements

ASSUME PluginAssumption ==
    /\ NoPid \notin Pids
    /\ NoList \notin Lists
    /\ ListSize \in [Lists -> Nat \ {0}]
    /\ CheckTurnoffDelayMax \in Nat
    /\ DexAvail \in BOOLEAN
    /\ CcapiAvail \in BOOLEAN

\* The GUI builds art.txt in two 5000 byte buffers, far below one block.
ASSUME ListsFitAssumption ==
    /\ HeapSize >= 2
    /\ \A l \in Lists : ListSize[l] + 2 <= HeapSize

Processes == Pids \cup {NoPid}
Files == Lists \cup {NoList}
Size(f) == IF f = NoList THEN 0 ELSE ListSize[f]
NoButtons == [data |-> FALSE, START |-> FALSE, SELECT |-> FALSE]
Pads == {NoButtons} \cup [data : {TRUE}, START : BOOLEAN, SELECT : BOOLEAN]
Texts == [list : Files, len : 0 .. HeapSize]
NoText == [list |-> NoList, len |-> 0]

VARIABLES
    \* the rest of the console
    game,               \* the process GetGameProcessID() sees
    pad,                \* controller port 0 as cellPadGetData reports it
    art,                \* /dev_hdd0/tmp/art.txt
    turnoff,            \* /dev_hdd0/tmp/turnoff exists
    stopper,            \* the thread that runs art_stop
    \* art_thread
    pc,
    GameProcessID,
    data,               \* the pad sample of this iteration
    attachedPID, doForceWrite, exitThread, check_turnoff_delay,
    isDEX, isCCAPI,
    heap,               \* mem.c
    userCodes, fileSize,
    text,               \* what the bytes at userCodes hold
    \* history
    seen,               \* contents art.txt had since START, while it loads
    wrote               \* the pass of ConvertCodes just made, or NoWrite

envVars == <<game, pad, art, turnoff>>
stopVars == <<stopper, exitThread>>
loopVars == <<GameProcessID, check_turnoff_delay>>
apiVars == <<isDEX, isCCAPI>>
codeVars == <<heap, userCodes, fileSize, text>>
passVars == <<doForceWrite, seen, wrote>>
vars == <<envVars, stopVars, pc, data, attachedPID,
          loopVars, apiVars, codeVars, passVars>>

Locations == {"poll", "turnoff", "pad", "buttons", "size", "read", "pass",
              "held", "exiting", "exited", "crashed"}
NoWrite == [pid |-> NoPid, text |-> NoText, force |-> FALSE]
Writes == [pid : Processes, text : Texts, force : BOOLEAN]

TypeOK ==
    /\ game \in Processes /\ GameProcessID \in Processes
    /\ attachedPID \in Processes
    /\ pad \in Pads /\ data \in Pads
    /\ art \in Files /\ seen \in SUBSET Files
    /\ turnoff \in BOOLEAN /\ exitThread \in BOOLEAN
    /\ doForceWrite \in BOOLEAN /\ isDEX \in BOOLEAN /\ isCCAPI \in BOOLEAN
    /\ stopper \in {"running", "waiting", "stopped"}
    /\ pc \in Locations
    /\ check_turnoff_delay \in 0 .. CheckTurnoffDelayMax
    /\ heap \in Heaps /\ userCodes \in Ptrs /\ fileSize \in Nat
    /\ text \in Texts /\ wrote \in Writes

Init ==
    /\ game \in Processes /\ pad \in Pads /\ art \in Files /\ turnoff = TRUE
    /\ stopper = "running" /\ exitThread = FALSE
    /\ pc = "poll" /\ data = NoButtons
    /\ GameProcessID = NoPid
    /\ attachedPID = NoPid
    /\ check_turnoff_delay = 0
    /\ isDEX = FALSE /\ isCCAPI = FALSE
    /\ heap = NoHeap /\ userCodes = Null /\ fileSize = 0 /\ text = NoText
    /\ doForceWrite = FALSE /\ seen = {} /\ wrote = NoWrite

-----------------------------------------------------------------------------
(* Pieces of the loop body.                                                *)

\* The bottom of the loop, back to the top.
EndIteration ==
    /\ pc' = "poll"
    /\ data' = NoButtons /\ wrote' = NoWrite

\* destroy_heap() with the bytes userCodes still points to.
DropHeap ==
    /\ heap' = destroy_heap(heap)
    /\ text' = IF heap.prx_heap # Null THEN NoText ELSE text
    /\ UNCHANGED <<userCodes, fileSize>>

-----------------------------------------------------------------------------
(* art_thread: the top of the loop.                                        *)

PollGame ==
    /\ pc = "poll" /\ ~exitThread
    /\ game # NoPid
    /\ GameProcessID' = game
    /\ pc' = "turnoff"
    /\ UNCHANGED <<envVars, stopVars, data, attachedPID,
                   check_turnoff_delay, apiVars, codeVars, passVars>>

PollNoGame ==
    /\ pc = "poll" /\ ~exitThread
    /\ game = NoPid
    /\ GameProcessID' = NoPid
    /\ IF attachedPID # NoPid THEN DropHeap ELSE UNCHANGED codeVars
    /\ attachedPID' = NoPid
    /\ EndIteration
    /\ UNCHANGED <<envVars, stopVars, check_turnoff_delay, apiVars,
                   doForceWrite, seen>>

\* Mutated: the counter is compared after it was increased.
TurnoffNotChecked_OneMore ==
    /\ pc = "turnoff"
    /\ check_turnoff_delay <= CheckTurnoffDelayMax
    /\ check_turnoff_delay' = check_turnoff_delay + 1
    /\ pc' = "pad"
    /\ UNCHANGED <<envVars, stopVars, data, attachedPID, GameProcessID,
                   apiVars, codeVars, passVars>>

(***************************************************************************)
(* check_turnoff: only every CheckTurnoffDelayMax + 1 calls look at the    *)
(* flag; in between the answer is "on".                                    *)
(***************************************************************************)
TurnoffNotChecked ==
    /\ pc = "turnoff"
    /\ check_turnoff_delay < CheckTurnoffDelayMax
    /\ check_turnoff_delay' = check_turnoff_delay + 1
    /\ pc' = "pad"
    /\ UNCHANGED <<envVars, stopVars, data, attachedPID, GameProcessID,
                   apiVars, codeVars, passVars>>

TurnoffPresent ==
    /\ pc = "turnoff"
    /\ check_turnoff_delay >= CheckTurnoffDelayMax
    /\ turnoff
    /\ check_turnoff_delay' = 0
    /\ pc' = "pad"
    /\ UNCHANGED <<envVars, stopVars, data, attachedPID, GameProcessID,
                   apiVars, codeVars, passVars>>

\* Mutated: the heap goes, the target stays.
TurnedOff_KeepsTarget ==
    /\ pc = "turnoff"
    /\ check_turnoff_delay >= CheckTurnoffDelayMax
    /\ ~turnoff
    /\ check_turnoff_delay' = 0
    /\ DropHeap
    /\ EndIteration
    /\ UNCHANGED <<envVars, stopVars, attachedPID, GameProcessID,
                   apiVars, doForceWrite, seen>>

TurnedOff ==
    /\ pc = "turnoff"
    /\ check_turnoff_delay >= CheckTurnoffDelayMax
    /\ ~turnoff
    /\ check_turnoff_delay' = 0
    /\ DropHeap
    /\ attachedPID' = NoPid
    /\ EndIteration
    /\ UNCHANGED <<envVars, stopVars, GameProcessID, apiVars, doForceWrite, seen>>

-----------------------------------------------------------------------------
(* art_thread: the pad.                                                    *)

NoPadData ==
    /\ pc = "pad" /\ ~pad.data
    /\ EndIteration
    /\ UNCHANGED <<envVars, stopVars, attachedPID, GameProcessID,
                   check_turnoff_delay, apiVars, codeVars, doForceWrite, seen>>

\* While attached, art_process(0) runs before the buttons are looked at.
ReadPad ==
    /\ pc = "pad" /\ pad.data
    /\ data' = pad
    /\ doForceWrite' = FALSE
    /\ pc' = CASE attachedPID = NoPid -> "buttons"
               [] attachedPID # NoPid /\ userCodes = Null -> "size"
               [] OTHER -> "pass"
    /\ UNCHANGED <<envVars, stopVars, attachedPID, loopVars, apiVars, codeVars,
                   seen, wrote>>

(***************************************************************************)
(* check_syscall_api: reads four bytes of the process through DEX, then    *)
(* CCAPI.  The buffer is uninitialised, so a syscall that exists but fails *)
(* (the process is gone) leaves the ELF test to whatever the stack holds.  *)
(* isCCAPI is not touched when DEX answers.  With neither, memory is        *)
(* accessed through ps3mapi or MAMBA, which are taken to be there.         *)
(***************************************************************************)
ElfSeen(pid) == IF pid = game THEN {TRUE} ELSE BOOLEAN

check_syscall_api(pid) ==
    \E dex \in ElfSeen(pid), ccapi \in ElfSeen(pid) :
        /\ isDEX' = (DexAvail /\ dex)
        /\ isCCAPI' = IF isDEX' THEN isCCAPI ELSE CcapiAvail /\ ccapi

\* Mutated: a list that is already loaded is not thrown away on START.
StartPressed_KeepsCodes ==
    /\ pc = "buttons" /\ data.START
    /\ attachedPID' = GameProcessID
    /\ check_syscall_api(GameProcessID)
    /\ heap' \in (IF heap.prx_heap = Null THEN create_heap(heap) ELSE {heap})
    /\ userCodes' = userCodes
    /\ doForceWrite' = TRUE
    /\ seen' = {art}
    /\ wrote' = NoWrite
    /\ pc' = IF userCodes = Null THEN "size" ELSE "pass"
    /\ UNCHANGED <<envVars, stopVars, data, loopVars, fileSize, text>>

\* Mutated: a press of START with the other button held is dropped.
StartPressed_NotSelect ==
    /\ pc = "buttons" /\ data.START /\ ~data.SELECT
    /\ attachedPID' = GameProcessID
    /\ check_syscall_api(GameProcessID)
    /\ \E h \in (IF heap.prx_heap = Null THEN create_heap(heap) ELSE {heap}) :
        heap' = IF userCodes # Null THEN reset_heap(h) ELSE h
    /\ userCodes' = Null
    /\ doForceWrite' = TRUE
    /\ seen' = {art}
    /\ wrote' = NoWrite
    /\ pc' = "size"
    /\ UNCHANGED <<envVars, stopVars, data, loopVars, fileSize, text>>

(***************************************************************************)
(* START: attach to the process this iteration saw and enter               *)
(* art_process(1), which throws away a list loaded before.                 *)
(***************************************************************************)
StartPressed ==
    /\ pc = "buttons" /\ data.START
    /\ attachedPID' = GameProcessID
    /\ check_syscall_api(GameProcessID)
    /\ \E h \in (IF heap.prx_heap = Null THEN create_heap(heap) ELSE {heap}) :
        heap' = IF userCodes # Null THEN reset_heap(h) ELSE h
    /\ userCodes' = Null
    /\ doForceWrite' = TRUE
    /\ seen' = {art}
    /\ wrote' = NoWrite
    /\ pc' = "size"
    /\ UNCHANGED <<envVars, stopVars, data, loopVars, fileSize, text>>

\* SELECT: detach; the heap and userCodes stay for the next attachment.
SelectPressed ==
    /\ pc = "buttons" /\ ~data.START
    /\ data.SELECT /\ attachedPID # NoPid
    /\ heap' = reset_heap(heap)
    /\ attachedPID' = NoPid
    /\ EndIteration
    /\ UNCHANGED <<envVars, stopVars, GameProcessID, check_turnoff_delay,
                   apiVars, userCodes, fileSize, text, doForceWrite, seen>>

NothingPressed ==
    /\ pc = "buttons" /\ ~data.START
    /\ ~(data.SELECT /\ attachedPID # NoPid)
    /\ EndIteration
    /\ UNCHANGED <<envVars, stopVars, attachedPID, GameProcessID,
                   check_turnoff_delay, apiVars, codeVars, doForceWrite, seen>>

\* The loop after a forced pass: one look at the pad a second until START is up.
StartReleased ==
    /\ pc = "held" /\ ~(pad.data /\ pad.START)
    /\ EndIteration
    /\ UNCHANGED <<envVars, stopVars, attachedPID, GameProcessID,
                   check_turnoff_delay, apiVars, codeVars, doForceWrite, seen>>

-----------------------------------------------------------------------------
(* art_process.                                                            *)

\* Mutated: room and bytes for the list, but not for its last one.
SizeFile_LosesLast ==
    /\ pc = "size"
    /\ fileSize' = IF Size(art) = 0 THEN 0 ELSE Size(art) - 1
    /\ userCodes' = heap.prx_heap
    /\ heap' = mem_alloc(heap, Size(art) + 2)
    /\ text' = NoText
    /\ pc' = IF Mapped(heap, heap.prx_heap, Size(art) + 2) THEN "read" ELSE "crashed"
    /\ UNCHANGED <<envVars, stopVars, data, attachedPID, loopVars, apiVars, passVars>>

(***************************************************************************)
(* getFileSize, mem_alloc and memset: the size is taken from one open of   *)
(* the file.  With no block behind prx_heap the memset takes the console's *)
(* shell down.                                                             *)
(***************************************************************************)
SizeFile ==
    /\ pc = "size"
    /\ fileSize' = Size(art)
    /\ userCodes' = heap.prx_heap
    /\ heap' = mem_alloc(heap, Size(art) + 2)
    /\ text' = NoText
    /\ pc' = IF Mapped(heap, heap.prx_heap, Size(art) + 2) THEN "read" ELSE "crashed"
    /\ UNCHANGED <<envVars, stopVars, data, attachedPID, loopVars, apiVars, passVars>>

\* cellFsOpen and cellFsRead: at most fileSize bytes of what the file holds now.
ReadFile ==
    /\ pc = "read"
    /\ text' = IF Size(art) = 0 \/ fileSize = 0 THEN NoText
               ELSE [list |-> art,
                     len |-> IF Size(art) <= fileSize THEN Size(art) ELSE fileSize]
    /\ pc' = "pass"
    /\ UNCHANGED <<envVars, stopVars, data, attachedPID, loopVars, apiVars, heap,
                   userCodes, fileSize, passVars>>

\* Mutated: constant passes go to the process of this iteration, not the attached one.
ConvertCodes_CurrentGame ==
    /\ pc = "pass"
    /\ wrote' = [pid |-> GameProcessID, text |-> text, force |-> doForceWrite]
    /\ doForceWrite' = FALSE /\ seen' = {}
    /\ pc' = IF doForceWrite THEN "held" ELSE "buttons"
    /\ UNCHANGED <<envVars, stopVars, data, attachedPID, loopVars, apiVars, codeVars>>

\* One pass of ConvertCodes over the list (CodeEngine models what it writes).
ConvertCodes ==
    /\ pc = "pass"
    /\ wrote' = [pid |-> attachedPID, text |-> text, force |-> doForceWrite]
    /\ doForceWrite' = FALSE /\ seen' = {}
    /\ pc' = IF doForceWrite THEN "held" ELSE "buttons"
    /\ UNCHANGED <<envVars, stopVars, data, attachedPID, loopVars, apiVars, codeVars>>

-----------------------------------------------------------------------------
(* Stopping the plugin.                                                    *)

\* Mutated: the thread leaves without giving its heap back.
ThreadExits_KeepsHeap ==
    /\ pc = "poll" /\ exitThread
    /\ exitThread' = FALSE
    /\ pc' = "exiting"
    /\ UNCHANGED <<envVars, stopper, data, attachedPID, loopVars, apiVars, codeVars,
                   passVars>>

\* Mutated: art_stop is not told.
ThreadExits_KeepsFlag ==
    /\ pc = "poll" /\ exitThread
    /\ DropHeap
    /\ exitThread' = exitThread
    /\ pc' = "exiting"
    /\ UNCHANGED <<envVars, stopper, data, attachedPID, loopVars, apiVars, passVars>>

\* exitThread is cleared before sys_ppu_thread_exit ends the thread.
ThreadExits ==
    /\ pc = "poll" /\ exitThread
    /\ DropHeap
    /\ exitThread' = FALSE
    /\ pc' = "exiting"
    /\ UNCHANGED <<envVars, stopper, data, attachedPID, loopVars, apiVars, passVars>>

ThreadGone ==
    /\ pc = "exiting"
    /\ pc' = "exited"
    /\ UNCHANGED <<envVars, stopVars, data, attachedPID, loopVars, apiVars, codeVars,
                   passVars>>

ArtStop ==
    /\ stopper = "running"
    /\ stopper' = "waiting"
    /\ exitThread' = TRUE
    /\ UNCHANGED <<envVars, pc, data, attachedPID, loopVars, apiVars, codeVars, passVars>>

ArtStopReturns ==
    /\ stopper = "waiting" /\ ~exitThread
    /\ stopper' = "stopped"
    /\ UNCHANGED <<envVars, exitThread, pc, data, attachedPID, loopVars, apiVars,
                   codeVars, passVars>>

-----------------------------------------------------------------------------
(* The rest of the console.                                                *)

ProcessStarts ==
    /\ game = NoPid
    /\ game' \in Pids
    /\ UNCHANGED <<pad, art, turnoff, seen>>

ProcessExits ==
    /\ game # NoPid
    /\ game' = NoPid
    /\ UNCHANGED <<pad, art, turnoff, seen>>

PadMoves ==
    /\ pad' \in Pads \ {pad}
    /\ UNCHANGED <<game, art, turnoff, seen>>

\* writeFile in the GUI: fopen "w" empties the file, the text follows later.
ArtFileChanges ==
    /\ art' \in Files \ {art}
    /\ art = NoList \/ art' = NoList
    /\ seen' = IF seen = {} THEN {} ELSE seen \cup {art'}
    /\ UNCHANGED <<game, pad, turnoff>>

TurnoffChanges ==
    /\ turnoff' = ~turnoff
    /\ UNCHANGED <<game, pad, art, seen>>

Console ==
    /\ \/ ProcessStarts \/ ProcessExits \/ PadMoves
       \/ ArtFileChanges \/ TurnoffChanges
    /\ UNCHANGED <<stopVars, pc, data, attachedPID, loopVars, apiVars, codeVars,
                   doForceWrite, wrote>>

ArtThread ==
    \/ PollGame \/ PollNoGame
    \/ TurnoffNotChecked \/ TurnoffPresent \/ TurnedOff
    \/ NoPadData \/ ReadPad \/ StartPressed \/ SelectPressed \/ NothingPressed
    \/ StartReleased
    \/ SizeFile \/ ReadFile \/ ConvertCodes
    \/ ThreadExits \/ ThreadGone

Next == ArtThread \/ ArtStop \/ ArtStopReturns \/ Console

Spec == Init /\ [][Next]_vars

(***************************************************************************)
(* The thread keeps being scheduled (it sleeps and yields, but nothing     *)
(* preempts it for ever) and so does the caller of art_stop.  Nothing is   *)
(* assumed of the console or of the player.                                *)
(***************************************************************************)
FairSpec == Spec /\ WF_vars(ArtThread) /\ WF_vars(ArtStopReturns)
=============================================================================
