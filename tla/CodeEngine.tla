----------------------------- MODULE CodeEngine -----------------------------
(***************************************************************************)
(* The code engine of the plugin (ArtemisPS3-PRX/main.c: ConvertCodes,     *)
(* ParseLine): one pass over a loaded list, line by line, while the game   *)
(* whose memory it reads and writes keeps running.                         *)
(*                                                                         *)
(* A list is a sequence of lines.  A line keeps what the engine tells      *)
(* apart: its first character (op), and for a code line "TN AAAAAAAA       *)
(* VVVVVVVV" the numbers N, A and V (n, addr, val).  Names are "N" lines,  *)
(* "" is an empty line and "/" a line of one or two characters, which the  *)
(* GUI's ShrinkCode leaves in.  Memory is made of words; a code of four    *)
(* bytes writes one.                                                       *)
(***************************************************************************)
EXTENDS Integers, Sequences, FiniteSets

CONSTANTS
    Games,          \* of each game: the lists the GUI may write for it, the memories it
                    \* may start with, the values it writes itself, and the bound of the
                    \* model on how often START is pressed
    LinesOf,        \* the lines of the lists
    Cells,          \* addresses of the words mapped in the game
    NVals,          \* words are 0 .. NVals - 1
    Bits            \* Bits[1], Bits[2], Bits[3]: bitwise or, and, xor of words

Vals == 0 .. NVals - 1
CodeOps == {"0", "1", "2", "4", "6", "A", "B", "D", "E", "F"}
Ops == CodeOps \cup {"#", "N", "", "/", "T"}
Lines == [op : Ops, n : Nat, addr : Nat, val : Vals]
Mems == [Cells -> Vals]

ASSUME EngineAssumption ==
    /\ NVals \in Nat \ {0}
    /\ Cells \subseteq Nat \ {0} /\ IsFiniteSet(Cells)
    /\ \A g \in DOMAIN Games :
         /\ Games[g].lists \subseteq DOMAIN LinesOf /\ Games[g].lists # {}
         /\ Games[g].mems \subseteq Mems /\ Games[g].writes \subseteq Vals
         /\ Games[g].loads \in Nat
    /\ \A l \in DOMAIN LinesOf : LinesOf[l] \in Seq(Lines)
    /\ Bits \in [1 .. 3 -> [Vals \X Vals -> Vals]]

\* The GUI writes "#" behind every code (codes.c:1580-1589, AppendCode).
ASSUME ListsAssumption ==
    \A l \in DOMAIN LinesOf : LinesOf[l] # <<>> => LinesOf[l][Len(LinesOf[l])].op = "#"

VARIABLES
    game,               \* the one of Games that is attached
    mem,                \* its memory
    list, pc,
    pos,                \* line ConvertCodes is at
    lineNum,            \* 0 name, 1 constant write, 2 codes (and beyond)
    fresh,              \* lineCharInd = 0: lineBuf is taken from this line
    isConstantWrite, doForceWrite,
    skip, ptrAddr,
    typeA,              \* typeA_Copy and typeA_Size
    buf,                \* buf1: words read and not yet written, by target address
    \* history of this pass
    before,             \* memory and typeA when it began (if the game is quiet)
    parsed, ran,        \* lines handed to ParseLine, lines it executed
    guards,             \* executed lines that made skip grow, and by how much
    loads               \* presses of START so far

passVars == <<pos, lineNum, fresh, isConstantWrite, skip>>
history == <<before, parsed, ran, guards>>
vars == <<game, mem, list, pc, passVars, doForceWrite, ptrAddr, typeA, buf, history, loads>>

Text == LinesOf[list]
Line == Text[pos]
NoCopy == [loaded |-> FALSE, val |-> 0, size |-> 0]
Copies == [loaded : BOOLEAN, val : Vals, size : Nat]

\* The words of f written over memory m; writes outside the mapped words fail.
Poke(m, f) == [c \in Cells |-> IF c \in DOMAIN f THEN f[c] ELSE m[c]]

\* The line behind line p, or an empty one behind the last.  Where it is none of a code,
\* the source takes the numbers from the text that follows, over blank lines and marks;
\* here they are 0.
Second(p) == IF p < Len(Text) THEN Text[p + 1] ELSE [op |-> "", n |-> 0, addr |-> 0, val |-> 0]

TypeOK ==
    /\ game \in DOMAIN Games /\ mem \in Mems /\ list \in Games[game].lists
    /\ pc \in {"unloaded", "idle", "line", "store"}
    /\ pos \in 1 .. Len(Text) + 1 /\ lineNum \in 0 .. 2 /\ fresh \in BOOLEAN
    /\ isConstantWrite \in BOOLEAN /\ doForceWrite \in BOOLEAN
    /\ skip \in Nat /\ ptrAddr \in Nat /\ typeA \in Copies
    /\ \A a \in DOMAIN buf : buf[a] \in Vals
    /\ before \in [mem : Mems, typeA : Copies]
    /\ parsed \subseteq 1 .. Len(Text) /\ ran \subseteq parsed
    /\ guards \subseteq [at : ran, span : Nat]
    /\ loads \in 0 .. Games[game].loads

Init ==
    /\ game \in DOMAIN Games /\ mem \in Games[game].mems
    /\ list = (CHOOSE l \in Games[game].lists : TRUE) /\ pc = "unloaded"
    /\ pos = 1 /\ lineNum = 0 /\ fresh = TRUE
    /\ isConstantWrite = FALSE /\ doForceWrite = FALSE
    /\ skip = 0 /\ ptrAddr = 0 /\ typeA = NoCopy /\ buf = <<>>
    /\ before = [mem |-> mem, typeA |-> NoCopy]
    /\ parsed = {} /\ ran = {} /\ guards = {} /\ loads = 0

-----------------------------------------------------------------------------
(* A pass begins and ends.                                                 *)

(***************************************************************************)
(* art_process(force): START loads a list, whose text may lie over the     *)
(* word typeA_Copy still points to.  art_process(0) repeats what is loaded. *)
(***************************************************************************)
BeginPass(force) ==
    /\ doForceWrite' = force
    /\ pos' = 1 /\ lineNum' = 0 /\ fresh' = TRUE /\ skip' = 0
    /\ pc' = "line"
    /\ before' = IF Games[game].writes = {} THEN [mem |-> mem, typeA |-> typeA'] ELSE before
    /\ parsed' = {} /\ ran' = {} /\ guards' = {}
    /\ UNCHANGED <<game, mem, isConstantWrite, ptrAddr, buf>>

ForcedPass ==
    /\ pc \in {"unloaded", "idle"}
    /\ loads < Games[game].loads /\ loads' = loads + 1
    /\ list' \in Games[game].lists
    /\ IF typeA.loaded THEN \E v \in Vals : typeA' = [typeA EXCEPT !.val = v]
                       ELSE typeA' = typeA
    /\ BeginPass(TRUE)

RepeatedPass ==
    /\ pc = "idle"
    /\ UNCHANGED <<list, typeA, loads>>
    /\ BeginPass(FALSE)

EndPass ==
    /\ pc = "line" /\ pos > Len(Text)
    /\ pc' = "idle"
    /\ parsed' = {} /\ ran' = {} /\ guards' = {}
    /\ UNCHANGED <<game, mem, list, passVars, doForceWrite, ptrAddr, typeA, buf, before, loads>>

-----------------------------------------------------------------------------
(* ConvertCodes: the lines it deals with itself.                           *)

AtLine == pc = "line" /\ pos <= Len(Text)

Separator ==
    /\ AtLine /\ Line.op = "#"
    /\ pos' = pos + 1 /\ lineNum' = 0 /\ fresh' = TRUE
    /\ isConstantWrite' = FALSE /\ skip' = 0
    /\ UNCHANGED <<game, mem, list, pc, doForceWrite, ptrAddr, typeA, buf, history, loads>>

Name ==
    /\ AtLine /\ Line.op # "#" /\ lineNum = 0
    /\ pos' = pos + 1 /\ lineNum' = 1 /\ fresh' = TRUE
    /\ UNCHANGED <<game, mem, list, pc, isConstantWrite, doForceWrite, skip, ptrAddr, typeA,
                   buf, history, loads>>

\* The first "#" from p on, or the end of the list.
NextSeparator(p) ==
    CHOOSE q \in p .. Len(Text) + 1 :
        /\ q = Len(Text) + 1 \/ Text[q].op = "#"
        /\ \A r \in p .. q - 1 : Text[r].op # "#"

\* The whole code is passed over unless it is constant or START asked for it.
ConstantWrite ==
    /\ AtLine /\ Line.op # "#" /\ lineNum = 1
    /\ fresh' = TRUE
    /\ isConstantWrite' = IF Line.op = "" THEN isConstantWrite ELSE Line.op \in {"1", "T"}
    /\ IF Line.op # "" /\ ~isConstantWrite' /\ ~doForceWrite
       THEN pos' = NextSeparator(pos) /\ UNCHANGED lineNum
       ELSE pos' = pos + 1 /\ lineNum' = 2
    /\ UNCHANGED <<game, mem, list, pc, doForceWrite, skip, ptrAddr, typeA, buf, history, loads>>

(***************************************************************************)
(* lineBuf is validated, and taken from a line only when lineCharInd is 0. *)
(* ParseLine returns the index of the newline, which the loop then steps   *)
(* over without counting it: until an empty line or "#" every line is      *)
(* judged by the lineBuf of the first.  Left out are lines that pass for a *)
(* code of a type no case of the switch has, "#" within a line, and lines  *)
(* of one or two characters that begin as a code does.                     *)
(***************************************************************************)
AtCode == AtLine /\ lineNum = 2 /\ Line.op # "#"
Parseable == AtCode /\ Line.op # "" /\ (fresh => Line.op \in CodeOps)

\* Mutated: skip counts lines that are no codes.
NotACode_Counts ==
    /\ AtCode /\ ~Parseable
    /\ pos' = pos + 1 /\ fresh' = TRUE
    /\ skip' = IF skip > 0 THEN skip - 1 ELSE 0
    /\ UNCHANGED <<game, mem, list, pc, lineNum, isConstantWrite, doForceWrite, ptrAddr,
                   typeA, buf, history, loads>>

NotACode ==
    /\ AtCode /\ ~Parseable
    /\ pos' = pos + 1 /\ fresh' = TRUE
    /\ UNCHANGED <<game, mem, list, pc, lineNum, isConstantWrite, doForceWrite, skip, ptrAddr,
                   typeA, buf, history, loads>>

-----------------------------------------------------------------------------
(* ParseLine.                                                              *)

Enabled == isConstantWrite \/ doForceWrite
Executable == Parseable /\ Enabled /\ skip <= 0

\* A line that skip passes over, or of a code that is not to be written.
PassOver ==
    /\ Parseable /\ (skip > 0 \/ ~Enabled)
    /\ skip' = IF Enabled THEN skip - 1 ELSE skip
    /\ pos' = pos + 1 /\ fresh' = FALSE
    /\ parsed' = parsed \cup {pos}
    /\ UNCHANGED <<game, mem, list, pc, lineNum, isConstantWrite, doForceWrite, ptrAddr, typeA,
                   buf, before, ran, guards, loads>>

\* The address the line works on: ptrAddr serves one line and is gone.
addr == IF ptrAddr # 0 THEN ptrAddr ELSE Line.addr

\* Mutated: ptrAddr is not cleared by the line it serves.
Execute_KeepsPointer(k, p) ==
    /\ skip' = k /\ ptrAddr' = IF p = 0 THEN ptrAddr ELSE p
    /\ pos' = pos + 1 /\ fresh' = FALSE
    /\ parsed' = parsed \cup {pos} /\ ran' = ran \cup {pos}
    /\ guards' = IF k > 0 THEN guards \cup {[at |-> pos, span |-> k]} ELSE guards
    /\ UNCHANGED <<game, list, lineNum, isConstantWrite, doForceWrite, before, loads>>

\* The line is executed: it tells ParseLine to skip k lines, and leaves pointer p.
Execute(k, p) ==
    /\ skip' = k /\ ptrAddr' = p
    /\ pos' = pos + 1 /\ fresh' = FALSE
    /\ parsed' = parsed \cup {pos} /\ ran' = ran \cup {pos}
    /\ guards' = IF k > 0 THEN guards \cup {[at |-> pos, span |-> k]} ELSE guards
    /\ UNCHANGED <<game, list, lineNum, isConstantWrite, doForceWrite, before, loads>>

Simple == Execute(0, 0) /\ UNCHANGED <<pc, buf>>
Store(f) == mem' = Poke(mem, f)

\* '0' (plain) and '1': the value, or the text, goes to the address.
WriteBytes ==
    /\ (Line.op = "0" /\ Line.n \notin 1 .. 3) \/ Line.op = "1"
    /\ Simple
    /\ Store([a \in {addr} |-> Line.val])
    /\ UNCHANGED typeA

\* '0' with 1, 2 or 3: reads the word now, writes it back combined later.
CombineBytes ==
    /\ Line.op = "0" /\ Line.n \in 1 .. 3
    /\ Execute(0, 0)
    /\ \E v \in (IF addr \in Cells THEN {mem[addr]} ELSE Vals) :
        buf' = [a \in {addr} |-> Bits[Line.n][<<v, Line.val>>]]
    /\ pc' = "store"
    /\ UNCHANGED <<mem, typeA>>

\* 'F': reads n words now, writes them to the other address later.
CopyBytes ==
    /\ Line.op = "F"
    /\ Execute(0, 0)
    /\ \E w \in (IF \A i \in 0 .. Line.n - 1 : addr + i \in Cells
                 THEN {[i \in 0 .. Line.n - 1 |-> mem[addr + i]]}
                 ELSE [0 .. Line.n - 1 -> Vals]) :
        buf' = [a \in Line.val .. Line.val + Line.n - 1 |-> w[a - Line.val]]
    /\ pc' = "store"
    /\ UNCHANGED <<mem, typeA>>

WriteBack ==
    /\ pc = "store"
    /\ Store(buf)
    /\ pc' = "line" /\ buf' = <<>>
    /\ UNCHANGED <<game, list, passVars, doForceWrite, ptrAddr, typeA, history, loads>>

(***************************************************************************)
(* '2': the float's four bytes are written as far as the digits of its     *)
(* text are many (n): fewer than four leave the word's tail, more than     *)
(* four run on into the next word with what the stack holds.               *)
(***************************************************************************)
WriteFloat ==
    /\ Line.op = "2"
    /\ Simple
    /\ \E junk \in Vals :
        Store([a \in {addr} \cup (IF Line.n > 4 THEN {addr + 1} ELSE {}) |->
                IF a = addr /\ Line.n >= 4 THEN Line.val ELSE junk])
    /\ UNCHANGED typeA

\* Mutated: the increment is added without wrapping.
WriteCondensed_NoWrap ==
    /\ Line.op = "4"
    /\ Execute(1, 0)
    /\ LET snd == Second(pos)
           Times(a) == {k \in 0 .. snd.val - 1 : a = addr + k * snd.addr}
           Last(K) == CHOOSE k \in K : \A j \in K : j <= k
       IN  Store([a \in {c \in Cells : Times(c) # {}} |->
                    Line.val + Last(Times(a)) * snd.n])
    /\ UNCHANGED <<pc, typeA, buf>>

(***************************************************************************)
(* '4' with its second line: val of it times, addr of it apart, each n of  *)
(* it more than the last.  The second line is then skipped.                *)
(***************************************************************************)
WriteCondensed ==
    /\ Line.op = "4"
    /\ Execute(1, 0)
    /\ LET snd == Second(pos)
           Times(a) == {k \in 0 .. snd.val - 1 : a = addr + k * snd.addr}
           Last(K) == CHOOSE k \in K : \A j \in K : j <= k
       IN  Store([a \in {c \in Cells : Times(c) # {}} |->
                    (Line.val + Last(Times(a)) * snd.n) % NVals])
    /\ UNCHANGED <<pc, typeA, buf>>

\* Mutated: the offset is not added.
WritePointer_NoOffset ==
    /\ Line.op = "6"
    /\ Execute(0, IF addr \in Cells THEN mem[addr] ELSE Line.val)
    /\ UNCHANGED <<mem, pc, typeA, buf>>

\* '6': a read that fails leaves the offset in the buffer the pointer is taken from.
WritePointer ==
    /\ Line.op = "6"
    /\ Execute(0, (IF addr \in Cells THEN mem[addr] ELSE Line.val) + Line.val)
    /\ UNCHANGED <<mem, pc, typeA, buf>>

(***************************************************************************)
(* 'A': A1 keeps one word, and the number of bytes asked for; a read that  *)
(* fails keeps what the heap holds there.  A2 writes that many bytes from  *)
(* there: the words behind the first are whatever follows in the heap.     *)
(***************************************************************************)
CopyPaste ==
    /\ Line.op = "A" /\ Line.n # 2
    /\ Simple
    /\ IF Line.n = 1
       THEN \E v \in (IF addr \in Cells THEN {mem[addr]} ELSE Vals) :
              typeA' = [loaded |-> TRUE, val |-> v, size |-> Line.val]
       ELSE UNCHANGED typeA
    /\ UNCHANGED mem

Paste ==
    /\ Line.op = "A" /\ Line.n = 2
    /\ Simple
    /\ IF typeA.loaded /\ typeA.size > 0
       THEN \E rest \in Vals :
              Store([a \in addr .. addr + typeA.size - 1 |->
                        IF a = addr THEN typeA.val ELSE rest])
       ELSE UNCHANGED mem
    /\ UNCHANGED typeA

(***************************************************************************)
(* 'B' with its second line: words equal to addr of it between the two     *)
(* addresses of the first become val of it, n of them at most (0: all).    *)
(* Flipping the addresses leaves the higher one in the counter, temp.      *)
(* Only when START asked for the pass; otherwise the second line is not    *)
(* even skipped, and as a 'B' line does nothing in its turn.               *)
(***************************************************************************)
FindReplace ==
    /\ Line.op = "B"
    /\ Execute(IF doForceWrite THEN 1 ELSE 0, 0)
    /\ IF doForceWrite
       THEN LET snd == Second(pos)
                flip == Line.val < addr
                Range == IF flip THEN Line.val .. addr - 1 ELSE addr .. Line.val - 1
                Found == {c \in Cells \cap Range : mem[c] = snd.addr}
                Count(c) == (IF flip THEN addr ELSE 0) + Cardinality({d \in Found : d < c})
                Hits == {c \in Found : Line.n = 0 \/ Count(c) < Line.n}
            IN  Store([c \in Hits |-> snd.val])
       ELSE UNCHANGED mem
    /\ UNCHANGED <<pc, typeA, buf>>

\* 'D' and 'E': the next n lines run only if the word equals, or has the bits of, val.
Condition(l, a) ==
    /\ a \in Cells
    /\ IF l.op = "D" THEN mem[a] = l.val ELSE Bits[2][<<mem[a], l.val>>] = l.val

Conditional ==
    /\ Line.op \in {"D", "E"}
    /\ Execute(IF Condition(Line, addr) THEN 0 ELSE Line.n, 0)
    /\ UNCHANGED <<mem, pc, typeA, buf>>

\* A line that is no code, taken for one because of a stale lineBuf.
NoSuchCode ==
    /\ Line.op \in Ops \ CodeOps
    /\ Simple
    /\ UNCHANGED <<mem, typeA>>

ParseLine ==
    /\ Executable
    /\ \/ WriteBytes \/ CombineBytes \/ CopyBytes \/ WriteFloat \/ WriteCondensed
       \/ WritePointer \/ CopyPaste \/ Paste \/ FindReplace \/ Conditional \/ NoSuchCode

-----------------------------------------------------------------------------
(* The game, and the whole.                                                *)

GameRuns ==
    /\ \E c \in Cells, v \in Games[game].writes : v # mem[c] /\ mem' = [mem EXCEPT ![c] = v]
    /\ UNCHANGED <<game, list, pc, passVars, doForceWrite, ptrAddr, typeA, buf, history, loads>>

Engine ==
    \/ ForcedPass \/ RepeatedPass \/ EndPass
    \/ Separator \/ Name \/ ConstantWrite \/ NotACode
    \/ PassOver \/ ParseLine \/ WriteBack

Next == Engine \/ GameRuns

Spec == Init /\ [][Next]_vars
=============================================================================
