-------------------------- MODULE CodeEngineProofs --------------------------
(***************************************************************************)
(* For any lists the GUI may write and any game: the state of a pass keeps *)
(* its types, a line is executed exactly when no guard before it in its    *)
(* code covers it, and a pointer serves one line.                          *)
(***************************************************************************)
EXTENDS CodeEngineProps, NatLemmas, FiniteSetTheorems, TLAPS

-----------------------------------------------------------------------------
(* Lists and the codes in a list.                                          *)

\* A list is a sequence of lines, and the last of them is a "#".
LEMMA TextLines ==
  ASSUME list \in Games[game].lists, game \in DOMAIN Games
  PROVE  /\ Text \in Seq(Lines) /\ Len(Text) \in Nat /\ DOMAIN Text = 1 .. Len(Text)
         /\ \A p \in 1 .. Len(Text) : Text[p] \in Lines
         /\ Len(Text) > 0 => Text[Len(Text)].op = "#"
<1>1. list \in DOMAIN LinesOf
  BY EngineAssumption
<1>2. Text \in Seq(Lines)
  BY <1>1, EngineAssumption DEF Text
<1>3. Text # <<>> => Text[Len(Text)].op = "#"
  BY <1>1, ListsAssumption DEF Text
<1> QED BY <1>2, <1>3

\* What the fields of a line are.
LEMMA LineFields ==
  ASSUME NEW l \in Lines
  PROVE  l.op \in Ops /\ l.n \in Nat /\ l.addr \in Nat /\ l.val \in Vals /\ l.val \in Nat
BY EngineAssumption DEF Lines, Vals

\* Words written over a memory leave a memory.
LEMMA PokeMems ==
  ASSUME NEW m \in Mems, NEW f, \A c \in Cells \cap DOMAIN f : f[c] \in Vals
  PROVE  Poke(m, f) \in Mems
BY DEF Poke, Mems

\* The code of line p starts with the list or behind a "#", and holds none up to p.
LEMMA CodeStartIs ==
  ASSUME NEW p \in Nat \ {0}
  PROVE  /\ CodeStart(p) \in 1 .. p
         /\ CodeStart(p) = 1 \/ Text[CodeStart(p) - 1].op = "#"
         /\ \A q \in CodeStart(p) .. p - 1 : Text[q].op # "#"
<1> DEFINE T == {s \in 1 .. p : s = 1 \/ Text[s - 1].op = "#"}
<1>1. T \subseteq 0 .. p /\ 1 \in T
  OBVIOUS
<1>2. PICK s \in T : \A y \in T : y <= s
  BY <1>1, GreatestBelow
<1>3. ASSUME NEW q \in s .. p - 1 PROVE Text[q].op # "#"
  <2>1. q + 1 \in 1 .. p /\ q + 1 > s /\ q + 1 - 1 = q
    OBVIOUS
  <2>2. q + 1 \notin T
    BY <2>1, <1>2
  <2> QED BY <2>1, <2>2
<1>4. \E t \in 1 .. p : /\ t = 1 \/ Text[t - 1].op = "#"
                       /\ \A q \in t .. p - 1 : Text[q].op # "#"
  BY <1>3
<1> QED BY <1>4 DEF CodeStart

\* It is the only line of which that is true.
LEMMA CodeStartOnly ==
  ASSUME NEW p \in Nat \ {0}, NEW s \in 1 .. p, s = 1 \/ Text[s - 1].op = "#",
         \A q \in s .. p - 1 : Text[q].op # "#"
  PROVE  CodeStart(p) = s
<1> DEFINE t == CodeStart(p)
<1>1. /\ t \in 1 .. p
      /\ t = 1 \/ Text[t - 1].op = "#"
      /\ \A q \in t .. p - 1 : Text[q].op # "#"
  BY CodeStartIs
<1> HIDE DEF t
<1>2. ~(s < t)
  <2> SUFFICES ASSUME s < t PROVE FALSE
    OBVIOUS
  <2>1. t - 1 \in s .. p - 1 /\ t # 1
    BY <1>1
  <2> QED BY <2>1, <1>1
<1>3. ~(t < s)
  <2> SUFFICES ASSUME t < s PROVE FALSE
    OBVIOUS
  <2>1. s - 1 \in t .. p - 1 /\ s # 1
    BY <1>1
  <2> QED BY <2>1, <1>1
<1>4. t = s
  BY <1>1, <1>2, <1>3
<1> QED BY <1>4 DEF t

\* Up to the next "#" lines are of one code.
LEMMA CodeGoesOn ==
  ASSUME NEW p \in Nat \ {0}, NEW r \in Nat, r >= p, \A q \in p .. r - 1 : Text[q].op # "#"
  PROVE  CodeStart(r) = CodeStart(p)
<1> DEFINE s == CodeStart(p)
<1>1. /\ s \in 1 .. p
      /\ s = 1 \/ Text[s - 1].op = "#"
      /\ \A q \in s .. p - 1 : Text[q].op # "#"
  BY CodeStartIs
<1> HIDE DEF s
<1>2. \A q \in s .. r - 1 : Text[q].op # "#"
  <2> SUFFICES ASSUME NEW q \in s .. r - 1 PROVE Text[q].op # "#"
    OBVIOUS
  <2>1. q \in s .. p - 1 \/ q \in p .. r - 1
    BY <1>1
  <2> QED BY <2>1, <1>1
<1>3. r \in Nat \ {0} /\ s \in 1 .. r
  BY <1>1
<1> QED BY <1>1, <1>2, <1>3, CodeStartOnly DEF s

\* Behind a "#" another code begins.
LEMMA CodeBegins ==
  ASSUME NEW p \in Nat \ {0}, Text[p].op = "#"
  PROVE  CodeStart(p + 1) = p + 1
<1>1. p + 1 \in Nat \ {0} /\ p + 1 \in 1 .. p + 1 /\ p + 1 - 1 = p
  OBVIOUS
<1>2. \A q \in p + 1 .. p + 1 - 1 : Text[q].op # "#"
  OBVIOUS
<1> QED BY <1>1, <1>2, CodeStartOnly

\* While the list stays, so do its lines and its codes.
LEMMA SameText ==
  ASSUME UNCHANGED list
  PROVE  Text' = Text /\ \A p : CodeStart(p)' = CodeStart(p)
BY DEF Text, CodeStart

\* NextSeparator finds the first "#", or the end (codes passed over, main.c:852-860).
LEMMA NextSeparatorIs ==
  ASSUME NEW p \in 1 .. Len(Text), Len(Text) \in Nat
  PROVE  /\ NextSeparator(p) \in p .. Len(Text) + 1
         /\ NextSeparator(p) = Len(Text) + 1 \/ Text[NextSeparator(p)].op = "#"
         /\ \A r \in p .. NextSeparator(p) - 1 : Text[r].op # "#"
<1> DEFINE n == Len(Text)
           T == {q \in p .. n + 1 : q = n + 1 \/ Text[q].op = "#"}
<1>1. T \subseteq Nat /\ n + 1 \in T
  OBVIOUS
<1>2. PICK q \in T : \A y \in T : q <= y
  BY <1>1, LeastNat
<1>3. ASSUME NEW r \in p .. q - 1 PROVE Text[r].op # "#"
  <2>1. r \in p .. n + 1 /\ ~(q <= r)
    OBVIOUS
  <2> QED BY <2>1, <1>2
<1>4. \E t \in p .. n + 1 : /\ t = n + 1 \/ Text[t].op = "#"
                           /\ \A r \in p .. t - 1 : Text[r].op # "#"
  BY <1>3
<1> QED BY <1>4 DEF NextSeparator

-----------------------------------------------------------------------------
(* ParseLine.                                                              *)

\* What ParseLine does to the state of the pass, whatever the code: only '6'
\* leaves a pointer, and it skips nothing and keeps no words to write.
Executed(k, p) == Execute(k, p) /\ (p # 0 => Line.op = "6" /\ k = 0 /\ pc' = pc)

\* The words read and not yet written.
BufOK == \A a \in DOMAIN buf : buf[a] \in Vals

\* What every case of ParseLine comes to.
Outcome ==
  /\ \E k \in Nat, p \in Nat : Executed(k, p)
  /\ mem' \in Mems /\ typeA' \in Copies /\ BufOK' /\ pc' \in {"line", "store"}

\* What a line is, and the words it reads.
LEMMA LineRead ==
  ASSUME TypeOK, Executable
  PROVE  /\ Line \in Lines /\ Line.n \in Nat /\ Line.val \in Vals /\ Line.val \in Nat
         /\ addr \in Nat /\ Second(pos) \in Lines
         /\ mem \in Mems /\ typeA \in Copies /\ BufOK /\ pc = "line" /\ pos \in 1 .. Len(Text)
         /\ \A c \in Cells : mem[c] \in Vals /\ mem[c] \in Nat
         /\ 0 \in Vals /\ NVals \in Nat \ {0}
<1>1. /\ Text \in Seq(Lines) /\ Len(Text) \in Nat
      /\ \A p \in 1 .. Len(Text) : Text[p] \in Lines
  BY TextLines DEF TypeOK
<1>2. pos \in 1 .. Len(Text) /\ pc = "line"
  <2>1. pos \in 1 .. Len(Text) + 1
    BY Zenon DEF TypeOK
  <2>2. pos <= Len(Text) /\ pc = "line"
    BY Zenon DEF Executable, Parseable, AtCode, AtLine
  <2> QED BY <2>1, <2>2, <1>1
<1>3. Line \in Lines
  BY <1>1, <1>2 DEF Line
<1>4. 0 \in Vals /\ NVals \in Nat \ {0} /\ Vals \subseteq Nat
  BY EngineAssumption DEF Vals
<1>5. Second(pos) \in Lines
  <2>1. CASE pos < Len(Text)
    <3>1. pos + 1 \in 1 .. Len(Text)
      BY <1>1, <1>2, <2>1
    <3> QED BY <3>1, <1>1, <2>1 DEF Second
  <2>2. CASE ~(pos < Len(Text))
    BY <2>2, <1>4 DEF Second, Lines, Ops
  <2> QED BY <2>1, <2>2
<1>6. addr \in Nat
  BY <1>3, LineFields DEF TypeOK, addr
<1>7. \A c \in Cells : mem[c] \in Vals /\ mem[c] \in Nat
  BY <1>4 DEF TypeOK, Mems
<1> QED BY <1>2, <1>3, <1>4, <1>5, <1>6, <1>7, LineFields DEF TypeOK, BufOK

\* A case that skips nothing, leaves no pointer and reads nothing ahead.
LEMMA SimpleOutcome ==
  ASSUME TypeOK, Executable, Simple, mem' \in Mems, typeA' \in Copies
  PROVE  Outcome
<1>1. Executed(0, 0)
  BY Zenon DEF Simple, Executed
<1>2. BufOK' /\ pc' = "line"
  BY LineRead DEF Simple, BufOK
<1> QED BY <1>1, <1>2 DEF Outcome

\* Codes '0', '1' and '2' write words.
LEMMA WritesOutcome == ASSUME TypeOK, Executable, WriteBytes \/ WriteFloat PROVE Outcome
<1>1. mem' \in Mems
  <2>1. CASE WriteBytes
    <3> DEFINE f == [a \in {addr} |-> Line.val]
    <3>1. \A c \in Cells \cap DOMAIN f : f[c] \in Vals
      BY LineRead
    <3>2. mem' = Poke(mem, f)
      BY <2>1 DEF WriteBytes, Store
    <3> HIDE DEF f
    <3> QED BY <3>1, <3>2, LineRead, PokeMems
  <2>2. CASE WriteFloat
    <3>1. PICK junk \in Vals :
            Store([a \in {addr} \cup (IF Line.n > 4 THEN {addr + 1} ELSE {}) |->
                    IF a = addr /\ Line.n >= 4 THEN Line.val ELSE junk])
      BY <2>2 DEF WriteFloat
    <3> DEFINE f == [a \in {addr} \cup (IF Line.n > 4 THEN {addr + 1} ELSE {}) |->
                      IF a = addr /\ Line.n >= 4 THEN Line.val ELSE junk]
    <3>2. \A c \in DOMAIN f : f[c] \in Vals
      BY LineRead
    <3>3. mem' = Poke(mem, f)
      BY <3>1 DEF Store
    <3> HIDE DEF f
    <3> QED BY <3>2, <3>3, LineRead, PokeMems
  <2> QED BY <2>1, <2>2
<1>2. typeA' = typeA /\ Simple
  BY DEF WriteBytes, WriteFloat
<1> QED BY <1>1, <1>2, LineRead, SimpleOutcome

\* '0' with 1, 2 or 3 keeps one word to write.
LEMMA CombineOutcome == ASSUME TypeOK, Executable, CombineBytes PROVE Outcome
<1>1. Executed(0, 0)
  BY DEF CombineBytes, Executed
<1>2. PICK v \in Vals : buf' = [a \in {addr} |-> Bits[Line.n][<<v, Line.val>>]]
  BY LineRead DEF CombineBytes
<1>3. Bits[Line.n][<<v, Line.val>>] \in Vals
  BY LineRead, EngineAssumption DEF CombineBytes
<1>4. BufOK'
  BY <1>2, <1>3 DEF BufOK
<1> QED BY <1>1, <1>4, LineRead DEF Outcome, CombineBytes

\* 'F' keeps the words to write.
LEMMA CopyOutcome == ASSUME TypeOK, Executable, CopyBytes PROVE Outcome
<1>1. Executed(0, 0)
  BY DEF CopyBytes, Executed
<1>2. PICK w \in [0 .. Line.n - 1 -> Vals] :
        buf' = [a \in Line.val .. Line.val + Line.n - 1 |-> w[a - Line.val]]
  <2>1. CASE \A i \in 0 .. Line.n - 1 : addr + i \in Cells
    <3>1. [i \in 0 .. Line.n - 1 |-> mem[addr + i]] \in [0 .. Line.n - 1 -> Vals]
      BY <2>1, LineRead
    <3> QED BY <3>1, <2>1 DEF CopyBytes
  <2>2. CASE ~ \A i \in 0 .. Line.n - 1 : addr + i \in Cells
    BY <2>2, Zenon DEF CopyBytes
  <2> QED BY <2>1, <2>2
<1>3. \A a \in Line.val .. Line.val + Line.n - 1 : a - Line.val \in 0 .. Line.n - 1
  BY LineRead
<1>4. BufOK'
  BY <1>2, <1>3 DEF BufOK
<1> QED BY <1>1, <1>4, LineRead DEF Outcome, CopyBytes

\* '4' writes words: what is added is taken modulo the word.
LEMMA CondensedOutcome == ASSUME TypeOK, Executable, WriteCondensed PROVE Outcome
<1>1. Executed(1, 0)
  BY DEF WriteCondensed, Executed
<1> DEFINE snd == Second(pos)
           Times(a) == {k \in 0 .. snd.val - 1 : a = addr + k * snd.addr}
           Last(K) == CHOOSE k \in K : \A j \in K : j <= k
           f == [a \in {c \in Cells : Times(c) # {}} |->
                    (Line.val + Last(Times(a)) * snd.n) % NVals]
<1>2. mem' = Poke(mem, f)
  BY Zenon DEF WriteCondensed, Store
<1>3. snd.val \in Nat /\ snd.n \in Nat
  BY LineRead, LineFields
<1>4. ASSUME NEW c \in Cells, Times(c) # {} PROVE Last(Times(c)) \in Nat
  <2>1. Times(c) \subseteq 0 .. snd.val
    BY <1>3
  <2>2. \E k \in Times(c) : \A j \in Times(c) : j <= k
    BY <2>1, <1>3, <1>4, GreatestBelow
  <2> HIDE DEF Times
  <2>3. Last(Times(c)) \in Times(c)
    BY <2>2
  <2> QED BY <2>1, <2>3, <1>3
<1> HIDE DEF Last, Times
<1>5. \A c \in Cells \cap DOMAIN f : f[c] \in Vals
  <2> SUFFICES ASSUME NEW c \in Cells, Times(c) # {} 
               PROVE  (Line.val + Last(Times(c)) * snd.n) % NVals \in Vals
    BY Zenon
  <2>1. Last(Times(c)) \in Nat
    BY <1>4
  <2>2. \A x, y, z, m \in Nat : m # 0 => (x + y * z) % m \in 0 .. m - 1
    OBVIOUS
  <2> QED BY <2>1, <2>2, <1>3, LineRead DEF Vals
<1> HIDE DEF f
<1>6. mem' \in Mems
  BY <1>2, <1>5, LineRead, PokeMems
<1>7. BufOK'
  BY LineRead DEF WriteCondensed, BufOK
<1> QED BY <1>1, <1>6, <1>7, LineRead DEF Outcome, WriteCondensed

\* '6' leaves a number as pointer.
LEMMA PointerOutcome == ASSUME TypeOK, Executable, WritePointer PROVE Outcome
<1> DEFINE p == (IF addr \in Cells THEN mem[addr] ELSE Line.val) + Line.val
<1>1. p \in Nat
  BY LineRead
<1>2. Executed(0, p)
  BY LineRead DEF WritePointer, Executed
<1>3. BufOK'
  BY LineRead DEF WritePointer, BufOK
<1> HIDE DEF p
<1> QED BY <1>1, <1>2, <1>3, LineRead DEF Outcome, WritePointer

\* 'A' keeps a word, or writes it.
LEMMA PasteOutcome == ASSUME TypeOK, Executable, CopyPaste \/ Paste PROVE Outcome
<1>1. Simple
  BY DEF CopyPaste, Paste
<1>2. mem' \in Mems
  <2>1. CASE CopyPaste
    BY <2>1, LineRead DEF CopyPaste
  <2>2. CASE Paste /\ ~(typeA.loaded /\ typeA.size > 0)
    BY <2>2, LineRead DEF Paste
  <2>3. CASE Paste /\ typeA.loaded /\ typeA.size > 0
    <3>1. PICK rest \in Vals :
            Store([a \in addr .. addr + typeA.size - 1 |-> IF a = addr THEN typeA.val ELSE rest])
      BY <2>3 DEF Paste
    <3> DEFINE f == [a \in addr .. addr + typeA.size - 1 |-> IF a = addr THEN typeA.val ELSE rest]
    <3>2. typeA.val \in Vals
      BY LineRead DEF Copies
    <3>3. \A c \in DOMAIN f : f[c] \in Vals
      BY <3>2
    <3>4. mem' = Poke(mem, f)
      BY <3>1 DEF Store
    <3> HIDE DEF f
    <3> QED BY <3>3, <3>4, LineRead, PokeMems
  <2> QED BY <2>1, <2>2, <2>3
<1>3. typeA' \in Copies
  <2>1. CASE typeA' = typeA
    BY <2>1, LineRead
  <2>2. CASE \E v \in Vals : typeA' = [loaded |-> TRUE, val |-> v, size |-> Line.val]
    <3>1. PICK v \in Vals : typeA' = [loaded |-> TRUE, val |-> v, size |-> Line.val]
      BY <2>2
    <3> QED BY <3>1, LineRead DEF Copies
  <2>3. CASE CopyPaste /\ Line.n = 1
    <3>1. \A v \in (IF addr \in Cells THEN {mem[addr]} ELSE Vals) : v \in Vals
      BY LineRead
    <3>2. \E v \in (IF addr \in Cells THEN {mem[addr]} ELSE Vals) :
            typeA' = [loaded |-> TRUE, val |-> v, size |-> Line.val]
      BY <2>3, Zenon DEF CopyPaste
    <3> QED BY <3>1, <3>2, <2>2, Zenon
  <2> QED BY <2>1, <2>3 DEF CopyPaste, Paste
<1> QED BY <1>1, <1>2, <1>3, SimpleOutcome

\* 'B' writes words, and skips one line or none.
LEMMA ReplaceOutcome == ASSUME TypeOK, Executable, FindReplace PROVE Outcome
<1>1. PICK k \in {0, 1} : Executed(k, 0)
  BY DEF FindReplace, Executed
<1>2. mem' \in Mems
  <2>1. CASE doForceWrite
    <3> DEFINE snd == Second(pos)
               flip == Line.val < addr
               Span == IF flip THEN Line.val .. addr - 1 ELSE addr .. Line.val - 1
               Found == {c \in Cells \cap Span : mem[c] = snd.addr}
               Count(c) == (IF flip THEN addr ELSE 0) + Cardinality({d \in Found : d < c})
               Hits == {c \in Found : Line.n = 0 \/ Count(c) < Line.n}
               f == [c \in Hits |-> snd.val]
    <3>1. mem' = Poke(mem, f)
      BY <2>1, Zenon DEF FindReplace, Store
    <3> HIDE DEF Hits
    <3>2. \A c \in DOMAIN f : f[c] \in Vals
      BY LineRead, LineFields
    <3> HIDE DEF f
    <3> QED BY <3>1, <3>2, LineRead, PokeMems
  <2>2. CASE ~doForceWrite
    BY <2>2, LineRead DEF FindReplace
  <2> QED BY <2>1, <2>2
<1>3. BufOK' /\ pc' = "line" /\ typeA' \in Copies
  BY LineRead DEF FindReplace, BufOK
<1> QED BY <1>1, <1>2, <1>3 DEF Outcome

\* 'D' and 'E' skip as many lines as they say; what is no code does nothing.
LEMMA ConditionOutcome == ASSUME TypeOK, Executable, Conditional \/ NoSuchCode PROVE Outcome
<1>1. CASE Conditional
  <2>1. PICK k \in Nat : Executed(k, 0)
    BY <1>1, LineRead DEF Conditional, Executed
  <2>2. BufOK' /\ pc' = "line" /\ typeA' \in Copies /\ mem' \in Mems
    BY <1>1, LineRead DEF Conditional, BufOK
  <2> QED BY <2>1, <2>2 DEF Outcome
<1>2. CASE NoSuchCode
  BY <1>2, LineRead, SimpleOutcome DEF NoSuchCode
<1> QED BY <1>1, <1>2

\* ParseLine does to its own state what Execute says, and leaves words.
LEMMA ParseOutcome == ASSUME TypeOK, ParseLine PROVE Outcome
BY WritesOutcome, CombineOutcome, CopyOutcome, CondensedOutcome, PointerOutcome, PasteOutcome,
   ReplaceOutcome, ConditionOutcome, Zenon DEF ParseLine

-----------------------------------------------------------------------------
(* Types.                                                                  *)

\* The first state has the types.
LEMMA TypeInit == Init => TypeOK
<1> SUFFICES ASSUME Init PROVE TypeOK
  OBVIOUS
<1>1. /\ game \in DOMAIN Games /\ Games[game].lists # {} /\ Games[game].mems \subseteq Mems
      /\ Games[game].loads \in Nat /\ 0 \in Vals
  BY EngineAssumption DEF Init, Vals
<1>2. list \in Games[game].lists
  BY <1>1 DEF Init
<1>3. Len(Text) \in Nat
  BY <1>1, <1>2, TextLines
<1>4. mem \in Mems /\ NoCopy \in Copies
  BY <1>1 DEF Init, NoCopy, Copies
<1>5. before \in [mem : Mems, typeA : Copies]
  BY <1>4 DEF Init
<1>6. 1 \in 1 .. Len(Text) + 1 /\ 0 \in 0 .. Games[game].loads
  BY <1>1, <1>3
<1>7. (\A a \in DOMAIN buf : buf[a] \in Vals) /\ skip \in Nat /\ ptrAddr \in Nat
  BY DEF Init
<1>8. /\ guards \subseteq [at : ran, span : Nat]
      /\ ran \subseteq parsed /\ parsed \subseteq 1 .. Len(Text)
  BY DEF Init
<1>9. /\ pc \in {"unloaded", "idle", "line", "store"} /\ lineNum \in 0 .. 2 /\ fresh \in BOOLEAN
      /\ isConstantWrite \in BOOLEAN /\ doForceWrite \in BOOLEAN
      /\ typeA = NoCopy /\ pos = 1 /\ loads = 0
  <2>1. fresh = TRUE /\ isConstantWrite = FALSE /\ doForceWrite = FALSE
    BY DEF Init
  <2>2. fresh \in BOOLEAN /\ isConstantWrite \in BOOLEAN /\ doForceWrite \in BOOLEAN
    BY <2>1
  <2>3. /\ pc \in {"unloaded", "idle", "line", "store"} /\ lineNum \in 0 .. 2
        /\ typeA = NoCopy /\ pos = 1 /\ loads = 0
    BY DEF Init
  <2> QED BY <2>2, <2>3
<1> QED BY <1>1, <1>2, <1>4, <1>5, <1>6, <1>7, <1>8, <1>9, Zenon DEF TypeOK

\* What a step keeps if it is one within a pass.
PassTyped ==
  /\ pos \in 1 .. Len(Text) + 1 /\ lineNum \in 0 .. 2 /\ fresh \in BOOLEAN
  /\ isConstantWrite \in BOOLEAN /\ skip \in Nat /\ ptrAddr \in Nat
  /\ parsed \subseteq 1 .. Len(Text) /\ ran \subseteq parsed
  /\ guards \subseteq [at : ran, span : Nat]

\* The memory, what was copied from it, and where the pass stands.
WordsTyped ==
  /\ mem \in Mems /\ typeA \in Copies /\ BufOK
  /\ pc \in {"unloaded", "idle", "line", "store"}

\* What only the start of a pass changes.
StartTyped ==
  /\ game \in DOMAIN Games /\ list \in Games[game].lists /\ doForceWrite \in BOOLEAN
  /\ before \in [mem : Mems, typeA : Copies] /\ loads \in 0 .. Games[game].loads

\* The type invariant is these three.
LEMMA TypeParts == TypeOK <=> StartTyped /\ WordsTyped /\ PassTyped
BY DEF TypeOK, StartTyped, WordsTyped, PassTyped, BufOK

\* Types hold when a pass begins: nothing of the last one is left but what it keeps.
LEMMA TypeBegin == ASSUME TypeOK, ForcedPass \/ RepeatedPass PROVE TypeOK'
<1>0. StartTyped /\ WordsTyped /\ PassTyped
  BY TypeParts
<1>1. typeA' \in Copies
  <2>1. CASE typeA' = typeA
    BY <2>1, <1>0 DEF WordsTyped
  <2>2. CASE \E v \in Vals : typeA' = [typeA EXCEPT !.val = v]
    BY <2>2, <1>0 DEF WordsTyped, Copies
  <2> QED BY <2>1, <2>2 DEF ForcedPass, RepeatedPass
<1>2. PICK force \in BOOLEAN : BeginPass(force)
  BY DEF ForcedPass, RepeatedPass
<1>3. game' = game /\ game \in DOMAIN Games /\ list' \in Games[game].lists
  BY <1>0, <1>2 DEF ForcedPass, RepeatedPass, BeginPass, StartTyped
<1>4. loads' \in 0 .. Games[game].loads
  <2>1. Games[game].loads \in Nat
    BY <1>3, EngineAssumption
  <2>2. loads \in 0 .. Games[game].loads
    BY <1>0 DEF StartTyped
  <2>3. loads' = loads \/ (loads < Games[game].loads /\ loads' = loads + 1)
    BY Zenon DEF ForcedPass, RepeatedPass
  <2> QED BY <2>1, <2>2, <2>3
<1>5. before' \in [mem : Mems, typeA : Copies]
  BY <1>0, <1>1, <1>2 DEF BeginPass, StartTyped, WordsTyped
<1>6. StartTyped'
  BY <1>2, <1>3, <1>4, <1>5 DEF BeginPass, StartTyped
<1>7. WordsTyped'
  BY <1>0, <1>1, <1>2 DEF BeginPass, WordsTyped, BufOK
<1>8. Len(Text)' \in Nat
  <2>1. list' \in DOMAIN LinesOf
    BY <1>3, EngineAssumption
  <2>2. LinesOf[list'] \in Seq(Lines)
    BY <2>1, EngineAssumption
  <2> QED BY <2>2 DEF Text
<1>9. PassTyped'
  BY <1>0, <1>2, <1>8 DEF BeginPass, PassTyped
<1> QED BY <1>6, <1>7, <1>9, Zenon DEF TypeOK, StartTyped, WordsTyped, PassTyped, BufOK

\* A step within a pass keeps the types if the state of the pass keeps its own.
LEMMA TypeWithin ==
  ASSUME TypeOK, UNCHANGED <<game, list, doForceWrite, before, loads>>, WordsTyped',
         pos' \in 1 .. Len(Text) + 1, lineNum' \in 0 .. 2, fresh' \in BOOLEAN,
         isConstantWrite' \in BOOLEAN, skip' \in Nat, ptrAddr' \in Nat,
         parsed' \subseteq 1 .. Len(Text), ran' \subseteq parsed',
         guards' \subseteq [at : ran', span : Nat]
  PROVE  TypeOK'
<1>1. StartTyped /\ Text' = Text
  BY TypeParts, SameText
<1>2. StartTyped'
  BY <1>1 DEF StartTyped
<1>3. PassTyped'
  BY <1>1 DEF PassTyped
<1> QED BY <1>2, <1>3, Zenon DEF TypeOK, StartTyped, WordsTyped, PassTyped, BufOK

\* The lines ConvertCodes deals with itself keep the types.
LEMMA TypeLines ==
  ASSUME TypeOK, Separator \/ Name \/ ConstantWrite \/ NotACode
  PROVE  TypeOK'
<1>0. WordsTyped /\ PassTyped /\ Len(Text) \in Nat
  BY TypeParts, TextLines DEF TypeOK
<1>1. /\ UNCHANGED <<game, list, doForceWrite, before, loads>>
      /\ UNCHANGED <<mem, typeA, buf, pc, ptrAddr, parsed, ran, guards>>
  BY DEF Separator, Name, ConstantWrite, NotACode, history
<1>2. WordsTyped'
  BY <1>0, <1>1 DEF WordsTyped, BufOK
<1>3. pos \in 1 .. Len(Text)
  <2>1. pos <= Len(Text)
    BY Zenon DEF Separator, Name, ConstantWrite, NotACode, AtCode, AtLine
  <2> QED BY <2>1, <1>0 DEF PassTyped
<1>4. pos' \in 1 .. Len(Text) + 1
  <2>1. NextSeparator(pos) \in pos .. Len(Text) + 1
    BY <1>0, <1>3, NextSeparatorIs
  <2>2. pos' = pos + 1 \/ pos' = NextSeparator(pos)
    BY DEF Separator, Name, ConstantWrite, NotACode
  <2> QED BY <2>1, <2>2, <1>0, <1>3
<1>5. /\ lineNum' \in 0 .. 2 /\ fresh' \in BOOLEAN
      /\ isConstantWrite' \in BOOLEAN /\ skip' \in Nat
  <2>1. CASE Separator \/ Name \/ NotACode
    <3>1. lineNum' \in {0, 1, lineNum} /\ skip' \in {0, skip}
      BY <2>1 DEF Separator, Name, NotACode
    <3>2. fresh' = TRUE /\ isConstantWrite' \in {FALSE, isConstantWrite}
      BY <2>1 DEF Separator, Name, NotACode
    <3>3. isConstantWrite' \in BOOLEAN
      BY <3>2, <1>0, Zenon DEF PassTyped
    <3> QED BY <3>1, <3>2, <3>3, <1>0 DEF PassTyped
  <2>2. CASE ConstantWrite
    <3>1. fresh' = TRUE /\ skip' = skip /\ lineNum' \in {lineNum, 2}
      BY <2>2 DEF ConstantWrite
    <3>2. isConstantWrite' = IF Line.op = "" THEN isConstantWrite ELSE Line.op \in {"1", "T"}
      BY <2>2, Zenon DEF ConstantWrite
    <3>3. isConstantWrite' \in BOOLEAN
      <4>1. isConstantWrite \in BOOLEAN
        BY <1>0, Zenon DEF PassTyped
      <4>2. (Line.op \in {"1", "T"}) \in BOOLEAN
        OBVIOUS
      <4> QED BY <3>2, <4>1, <4>2, Zenon
    <3>4. lineNum \in 0 .. 2 /\ skip \in Nat
      BY <1>0 DEF PassTyped
    <3> QED BY <3>1, <3>3, <3>4
  <2> QED BY <2>1, <2>2
<1> QED BY <1>0, <1>1, <1>2, <1>4, <1>5, TypeWithin DEF PassTyped

\* The lines handed to ParseLine keep them: skip is not counted below 0.
LEMMA TypeParsed == ASSUME TypeOK, PassOver \/ ParseLine PROVE TypeOK'
<1>0. WordsTyped /\ PassTyped /\ Len(Text) \in Nat
  BY TypeParts, TextLines DEF TypeOK
<1>1. pos \in 1 .. Len(Text)
  <2>1. pos <= Len(Text)
    BY Zenon DEF PassOver, ParseLine, Executable, Parseable, AtCode, AtLine
  <2> QED BY <2>1, <1>0 DEF PassTyped
<1>2. CASE PassOver
  <2>1. skip' \in Nat
    <3>1. skip \in Nat /\ (Enabled => skip > 0)
      BY <1>0, <1>2 DEF PassOver, PassTyped
    <3> QED BY <3>1, <1>2 DEF PassOver
  <2>2. WordsTyped'
    BY <1>0, <1>2 DEF PassOver, WordsTyped, BufOK
  <2>3. /\ lineNum' = lineNum /\ fresh' = FALSE
        /\ isConstantWrite' = isConstantWrite /\ ptrAddr' = ptrAddr
    BY <1>2 DEF PassOver
  <2>4. /\ lineNum' \in 0 .. 2 /\ fresh' \in BOOLEAN
        /\ isConstantWrite' \in BOOLEAN /\ ptrAddr' \in Nat
    BY <2>3, <1>0, Zenon DEF PassTyped
  <2>5. parsed' = parsed \cup {pos} /\ ran' = ran /\ guards' = guards /\ pos' = pos + 1
    BY <1>2 DEF PassOver
  <2>6. /\ pos' \in 1 .. Len(Text) + 1 /\ parsed' \subseteq 1 .. Len(Text) /\ ran' \subseteq parsed'
        /\ guards' \subseteq [at : ran', span : Nat]
    BY <2>5, <1>0, <1>1 DEF PassTyped
  <2>7. UNCHANGED <<game, list, doForceWrite, before, loads>>
    BY <1>2 DEF PassOver
  <2> QED BY <2>1, <2>2, <2>4, <2>6, <2>7, TypeWithin
<1>3. CASE ParseLine
  <2>1. WordsTyped'
    BY <1>3, ParseOutcome DEF Outcome, WordsTyped
  <2>2. PICK k \in Nat, p \in Nat : Execute(k, p)
    BY <1>3, ParseOutcome DEF Outcome, Executed
  <2>3. guards' \subseteq [at : ran', span : Nat]
    <3>1. ran' = ran \cup {pos} /\ guards' \subseteq guards \cup {[at |-> pos, span |-> k]}
      BY <2>2 DEF Execute
    <3> QED BY <3>1, <1>0 DEF PassTyped
  <2>4. lineNum' = lineNum /\ fresh' = FALSE /\ isConstantWrite' = isConstantWrite
    BY <2>2 DEF Execute
  <2>5. lineNum' \in 0 .. 2 /\ fresh' \in BOOLEAN /\ isConstantWrite' \in BOOLEAN
    BY <2>4, <1>0, Zenon DEF PassTyped
  <2>6. parsed' = parsed \cup {pos} /\ ran' = ran \cup {pos} /\ pos' = pos + 1
    BY <2>2 DEF Execute
  <2>7. pos' \in 1 .. Len(Text) + 1 /\ parsed' \subseteq 1 .. Len(Text) /\ ran' \subseteq parsed'
    BY <2>6, <1>0, <1>1 DEF PassTyped
  <2>8. UNCHANGED <<game, list, doForceWrite, before, loads>> /\ skip' \in Nat /\ ptrAddr' \in Nat
    BY <2>2 DEF Execute
  <2> QED BY <2>1, <2>3, <2>5, <2>7, <2>8, TypeWithin
<1> QED BY <1>2, <1>3

\* The types are inductive.
LEMMA TypeNext == TypeOK /\ [Next]_vars => TypeOK'
<1> SUFFICES ASSUME TypeOK, [Next]_vars PROVE TypeOK'
  OBVIOUS
<1>0. StartTyped /\ WordsTyped /\ PassTyped
  BY TypeParts
<1>1. CASE EndPass
  <2>1. WordsTyped'
    BY <1>0, <1>1 DEF EndPass, WordsTyped, BufOK
  <2> QED BY <2>1, <1>0, <1>1, TypeWithin DEF EndPass, PassTyped, passVars
<1>2. CASE WriteBack
  <2>1. mem' \in Mems
    <3>1. mem' = Poke(mem, buf)
      BY <1>2 DEF WriteBack, Store
    <3> QED BY <3>1, <1>0, PokeMems DEF WordsTyped, BufOK
  <2>2. WordsTyped'
    BY <2>1, <1>0, <1>2 DEF WriteBack, WordsTyped, BufOK
  <2> QED BY <2>2, <1>0, <1>2, TypeWithin DEF WriteBack, PassTyped, passVars, history
<1>3. CASE GameRuns
  <2>1. mem' \in Mems
    <3>1. Games[game].writes \subseteq Vals
      BY <1>0, EngineAssumption DEF StartTyped
    <3>2. PICK c \in Cells, v \in Games[game].writes : mem' = [mem EXCEPT ![c] = v]
      BY <1>3 DEF GameRuns
    <3> QED BY <3>1, <3>2, <1>0 DEF WordsTyped, Mems
  <2>2. WordsTyped'
    BY <2>1, <1>0, <1>3 DEF GameRuns, WordsTyped, BufOK
  <2> QED BY <2>2, <1>0, <1>3, TypeWithin DEF GameRuns, PassTyped, passVars, history
<1>4. CASE UNCHANGED vars
  <2>1. WordsTyped'
    BY <1>0, <1>4 DEF vars, WordsTyped, BufOK
  <2> QED BY <2>1, <1>0, <1>4, TypeWithin DEF vars, PassTyped, passVars, history
<1> QED
  BY <1>1, <1>2, <1>3, <1>4, TypeBegin, TypeLines, TypeParsed, Zenon DEF Next, Engine

-----------------------------------------------------------------------------
(* Where a pass is.                                                        *)

\* Line p ends a code, or is behind the last.
Border(p) == p > Len(Text) \/ Text[p].op = "#"

\* What lineNum n and isConstantWrite c say of line p: 0 at the first line of a
\* code, 1 at its second (or at the border of a code passed over), 2 behind
\* that; and c is the constant flag of the code p lies in.
PlaceAt(p, n, c) ==
  /\ n = 0 <=> p = CodeStart(p)
  /\ n \in {0, 1} => ~c
  /\ n = 1 => p = CodeStart(p) + 1 \/ (p > CodeStart(p) /\ Border(p))
  /\ n = 2 => /\ p > CodeStart(p) + 1
              /\ c <=> ConstantCode(p)

\* isConstantWrite is static and no pass resets it: between passes it must be off.
PlaceInv ==
  IF pc \in {"line", "store"}
  THEN PlaceAt(pos, lineNum, isConstantWrite)
  ELSE ~isConstantWrite /\ parsed = {} /\ ran = {} /\ guards = {}

\* The code goes on behind a line that is no "#".
LEMMA Moves ==
  ASSUME TypeOK
  PROVE  /\ Len(Text) \in Nat /\ pos \in Nat \ {0} /\ pos <= Len(Text) + 1
         /\ CodeStart(pos) \in 1 .. pos
         /\ Text[pos].op # "#" => CodeStart(pos + 1) = CodeStart(pos)
         /\ Text[pos].op = "#" => CodeStart(pos + 1) = pos + 1
<1>1. Len(Text) \in Nat
  BY TextLines DEF TypeOK
<1>2. pos \in Nat \ {0} /\ pos <= Len(Text) + 1
  BY <1>1 DEF TypeOK
<1>3. Text[pos].op # "#" => CodeStart(pos + 1) = CodeStart(pos)
  <2> SUFFICES ASSUME Text[pos].op # "#" PROVE CodeStart(pos + 1) = CodeStart(pos)
    OBVIOUS
  <2>1. \A q \in pos .. pos + 1 - 1 : Text[q].op # "#"
    BY <1>2
  <2>2. pos + 1 \in Nat /\ pos + 1 >= pos
    BY <1>2
  <2> QED BY <2>1, <2>2, <1>2, CodeGoesOn
<1>4. CodeStart(pos) \in 1 .. pos
  BY <1>2, CodeStartIs
<1> QED BY <1>1, <1>2, <1>3, <1>4, CodeBegins

\* The first state is between passes.
LEMMA PlaceInit == Init => PlaceInv
BY DEF Init, PlaceInv

\* While the list stays, only the three variables matter.
LEMMA SamePlace ==
  ASSUME UNCHANGED list
  PROVE  PlaceAt(pos, lineNum, isConstantWrite)' <=> PlaceAt(pos', lineNum', isConstantWrite')
BY DEF PlaceAt, Border, ConstantCode, CodeStart, Text

\* A pass begins at the first line, with the flag off.
LEMMA FirstPlaceNext ==
  ASSUME pos' = 1, lineNum' = 0, ~isConstantWrite'
  PROVE  PlaceAt(pos, lineNum, isConstantWrite)'
<1>1. CodeStart(pos)' = 1
  <2>1. CodeStart(pos)' = CHOOSE s \in 1 .. pos' :
           /\ s = 1 \/ Text'[s - 1].op = "#"
           /\ \A q \in s .. pos' - 1 : Text'[q].op # "#"
    BY DEF CodeStart
  <2>2. \A s : s \in 1 .. 1 <=> s = 1
    OBVIOUS
  <2>3. \A q : q \notin 1 .. 1 - 1
    OBVIOUS
  <2> QED BY <2>1, <2>2, <2>3
<1>2. lineNum' # 1 /\ lineNum' # 2 /\ (lineNum' = 0 <=> pos' = CodeStart(pos)')
  BY <1>1
<1> QED BY <1>2, Zenon DEF PlaceAt

\* The lines ConvertCodes deals with itself keep lineNum and the flag true to the place.
LEMMA PlaceLines ==
  ASSUME TypeOK, PlaceInv, Separator \/ Name \/ ConstantWrite \/ NotACode
  PROVE  PlaceAt(pos', lineNum', isConstantWrite')
<1>0. /\ Len(Text) \in Nat /\ pos \in 1 .. Len(Text) /\ lineNum \in 0 .. 2
      /\ CodeStart(pos) \in 1 .. pos
      /\ Text[pos].op # "#" => CodeStart(pos + 1) = CodeStart(pos)
      /\ Text[pos].op = "#" => CodeStart(pos + 1) = pos + 1
  <2>1. pos <= Len(Text)
    BY Zenon DEF Separator, Name, ConstantWrite, NotACode, AtCode, AtLine
  <2>2. lineNum \in 0 .. 2
    BY Zenon DEF TypeOK
  <2> QED BY <2>1, <2>2, Moves
<1>1. PlaceAt(pos, lineNum, isConstantWrite) /\ isConstantWrite \in BOOLEAN
  <2>1. pc = "line"
    BY Zenon DEF Separator, Name, ConstantWrite, NotACode, AtCode, AtLine
  <2>2. isConstantWrite \in BOOLEAN
    BY Zenon DEF TypeOK
  <2> QED BY <2>1, <2>2 DEF PlaceInv
<1>2. CASE Separator
  <2>1. pos' = pos + 1 /\ lineNum' = 0 /\ CodeStart(pos + 1) = pos + 1 /\ ~isConstantWrite'
    BY <1>0, <1>2 DEF Separator, Line
  <2> QED BY <2>1 DEF PlaceAt
<1>3. CASE Name
  <2>1. pos' = pos + 1 /\ lineNum' = 1 /\ CodeStart(pos + 1) = CodeStart(pos)
    BY <1>0, <1>3 DEF Name, Line
  <2>2. lineNum = 0 /\ isConstantWrite' = isConstantWrite
    BY <1>3 DEF Name
  <2>3. CodeStart(pos) = pos
    BY <1>1, <2>2, Zenon DEF PlaceAt
  <2>4. ~isConstantWrite'
    BY <1>1, <2>2, Zenon DEF PlaceAt
  <2>5. pos + 1 = CodeStart(pos + 1) + 1 /\ pos + 1 # CodeStart(pos + 1)
    BY <1>0, <2>1, <2>3
  <2>6. lineNum' # 0 /\ lineNum' # 2
    BY <2>1
  <2> QED BY <2>1, <2>4, <2>5, <2>6, Zenon DEF PlaceAt
<1>4. CASE NotACode
  <2>1. pos' = pos + 1 /\ lineNum' = lineNum /\ lineNum = 2 /\ CodeStart(pos + 1) = CodeStart(pos)
    BY <1>0, <1>4 DEF NotACode, AtCode, Line
  <2>2. pos > CodeStart(pos) + 1
    BY <1>1, <2>1, Zenon DEF PlaceAt
  <2>3. isConstantWrite <=> ConstantCode(pos)
    BY <1>1, <2>1, Zenon DEF PlaceAt
  <2>4. ConstantCode(pos + 1) <=> ConstantCode(pos)
    BY <2>1, Zenon DEF ConstantCode
  <2>5. pos + 1 > CodeStart(pos + 1) + 1 /\ pos + 1 # CodeStart(pos + 1)
    BY <1>0, <2>1, <2>2
  <2>6. isConstantWrite' = isConstantWrite
    BY <1>4 DEF NotACode
  <2>7. lineNum' # 0 /\ lineNum' # 1 /\ lineNum' \notin {0, 1}
    BY <2>1
  <2> QED BY <2>1, <2>3, <2>4, <2>5, <2>6, <2>7, Zenon DEF PlaceAt
<1>5. CASE ConstantWrite
  <2>1. lineNum = 1 /\ Text[pos].op # "#"
    BY <1>5 DEF ConstantWrite, Line
  <2>2. pos = CodeStart(pos) + 1
    <3>1. ~Border(pos)
      BY <1>0, <2>1 DEF Border
    <3> QED BY <3>1, <1>1, <2>1, Zenon DEF PlaceAt
  <2>3. ~isConstantWrite
    BY <1>1, <2>1, Zenon DEF PlaceAt
  <2>4. isConstantWrite' = IF Line.op = "" THEN isConstantWrite ELSE Line.op \in {"1", "T"}
    BY <1>5, Zenon DEF ConstantWrite
  <2>5. isConstantWrite' <=> ConstantCode(pos)
    <3>1. ConstantCode(pos) <=> Line.op \in {"1", "T"}
      BY <2>2 DEF ConstantCode, Line
    <3>2. CASE Line.op = ""
      <4>1. ~ConstantCode(pos)
        BY <3>1, <3>2
      <4> QED BY <4>1, <3>2, <2>4, <2>3, Zenon
    <3>3. CASE Line.op # ""
      BY <3>1, <3>3, <2>4, Zenon
    <3> QED BY <3>2, <3>3
  <2>6. CASE Line.op # "" /\ ~isConstantWrite' /\ ~doForceWrite
    <3>1. pos' = NextSeparator(pos) /\ lineNum' = 1
      BY <1>5, <2>1, <2>6 DEF ConstantWrite
    <3> DEFINE n == NextSeparator(pos)
    <3>2. /\ n \in pos .. Len(Text) + 1 /\ (n = Len(Text) + 1 \/ Text[n].op = "#")
          /\ \A r \in pos .. n - 1 : Text[r].op # "#"
      BY <1>0, NextSeparatorIs
    <3> HIDE DEF n
    <3>3. CodeStart(n) = CodeStart(pos)
      <4>1. pos \in Nat \ {0} /\ n \in Nat /\ n >= pos
        BY <1>0, <3>2
      <4> QED BY <3>2, <4>1, CodeGoesOn
    <3>4. n > CodeStart(n) /\ n # CodeStart(n) /\ Border(n)
      BY <1>0, <2>2, <3>2, <3>3 DEF Border
    <3>5. lineNum' # 0 /\ lineNum' # 2 /\ pos' = n
      BY <3>1 DEF n
    <3> QED BY <2>6, <3>4, <3>5, Zenon DEF PlaceAt
  <2>7. CASE ~(Line.op # "" /\ ~isConstantWrite' /\ ~doForceWrite)
    <3>1. pos' = pos + 1 /\ lineNum' = 2 /\ CodeStart(pos + 1) = CodeStart(pos)
      BY <1>0, <1>5, <2>1, <2>7 DEF ConstantWrite
    <3>2. ConstantCode(pos + 1) <=> ConstantCode(pos)
      BY <3>1, Zenon DEF ConstantCode
    <3>3. pos + 1 > CodeStart(pos + 1) + 1 /\ pos + 1 # CodeStart(pos + 1)
      BY <1>0, <2>2, <3>1
    <3>4. lineNum' # 0 /\ lineNum' # 1 /\ lineNum' \notin {0, 1}
      BY <3>1
    <3> QED BY <2>5, <3>1, <3>2, <3>3, <3>4, Zenon DEF PlaceAt
  <2> QED BY <2>6, <2>7, Zenon
<1> QED BY <1>2, <1>3, <1>4, <1>5, Zenon

\* So do the lines handed to ParseLine.
LEMMA PlaceParsed ==
  ASSUME TypeOK, PlaceInv, PassOver \/ ParseLine
  PROVE  PlaceAt(pos', lineNum', isConstantWrite')
<1>1. pos' = pos + 1 /\ lineNum' = lineNum /\ isConstantWrite' = isConstantWrite
  <2>1. CASE PassOver
    BY <2>1, Zenon DEF PassOver
  <2>2. CASE ParseLine
    BY <2>2, ParseOutcome, Zenon DEF Outcome, Executed, Execute
  <2> QED BY <2>1, <2>2
<1>2. pc = "line" /\ lineNum = 2 /\ Text[pos].op # "#"
  BY Zenon DEF PassOver, ParseLine, Executable, Parseable, AtCode, AtLine, Line
<1>3. PlaceAt(pos, 2, isConstantWrite)
  BY <1>2 DEF PlaceInv
<1>4. CodeStart(pos + 1) = CodeStart(pos) /\ CodeStart(pos) \in 1 .. pos /\ pos \in Nat
  BY <1>2, Moves
<1>5. ConstantCode(pos + 1) <=> ConstantCode(pos)
  BY <1>4, Zenon DEF ConstantCode
<1>6. pos > CodeStart(pos) + 1
  BY <1>3 DEF PlaceAt
<1>7. pos + 1 > CodeStart(pos + 1) + 1 /\ pos + 1 # CodeStart(pos + 1)
  BY <1>4, <1>6
<1>8. isConstantWrite <=> ConstantCode(pos)
  BY <1>3, Zenon DEF PlaceAt
<1>9. PlaceAt(pos + 1, 2, isConstantWrite)
  BY <1>5, <1>7, <1>8 DEF PlaceAt
<1> QED BY <1>1, <1>2, <1>9, Zenon

\* A pass ends with the flag off: the last line is a "#", which resets it, and a
\* list of no lines never sets it.
LEMMA PlaceEnd == ASSUME TypeOK, PlaceInv, EndPass PROVE ~isConstantWrite
<1>1. /\ Len(Text) \in Nat /\ pos \in Nat \ {0} /\ pos = Len(Text) + 1 /\ pc = "line"
      /\ CodeStart(pos) \in 1 .. pos
  BY Moves DEF EndPass
<1>2. CodeStart(pos) = pos
  <2>1. CASE Len(Text) > 0
    <3>1. Text[Len(Text)].op = "#"
      BY <2>1, TextLines DEF TypeOK
    <3> QED BY <3>1, <2>1, <1>1, CodeBegins
  <2>2. CASE ~(Len(Text) > 0)
    BY <2>2, <1>1
  <2> QED BY <2>1, <2>2
<1>3. PlaceAt(pos, lineNum, isConstantWrite)
  BY <1>1 DEF PlaceInv
<1> QED BY <1>2, <1>3, Zenon DEF PlaceAt

\* PlaceInv is inductive, given the types.
LEMMA PlaceNext == ASSUME TypeOK, PlaceInv, [Next]_vars PROVE PlaceInv'
<1>1. CASE ForcedPass \/ RepeatedPass
  <2>1. /\ pos' = 1 /\ lineNum' = 0 /\ pc' = "line" /\ isConstantWrite' = isConstantWrite
        /\ pc \in {"unloaded", "idle"}
    BY <1>1 DEF ForcedPass, RepeatedPass, BeginPass
  <2>2. ~isConstantWrite
    BY <2>1 DEF PlaceInv
  <2>3. PlaceAt(pos, lineNum, isConstantWrite)'
    BY <2>1, <2>2, FirstPlaceNext
  <2> QED BY <2>1, <2>3 DEF PlaceInv
<1>2. CASE Separator \/ Name \/ ConstantWrite \/ NotACode
  <2>1. list' = list /\ pc' = "line"
    BY <1>2 DEF Separator, Name, ConstantWrite, NotACode, AtCode, AtLine
  <2>2. PlaceAt(pos, lineNum, isConstantWrite)'
    BY <1>2, <2>1, PlaceLines, SamePlace
  <2> QED BY <2>1, <2>2 DEF PlaceInv
<1>3. CASE PassOver \/ ParseLine
  <2>1. list' = list /\ pc' \in {"line", "store"}
    <3>1. CASE PassOver
      BY <3>1 DEF PassOver, Parseable, AtCode, AtLine
    <3>2. CASE ParseLine
      BY <3>2, ParseOutcome DEF Outcome, Executed, Execute
    <3> QED BY <1>3, <3>1, <3>2
  <2>2. PlaceAt(pos, lineNum, isConstantWrite)'
    BY <1>3, <2>1, PlaceParsed, SamePlace
  <2> QED BY <2>1, <2>2 DEF PlaceInv
<1>4. CASE EndPass
  BY <1>4, PlaceEnd DEF EndPass, PlaceInv, passVars
<1>5. CASE WriteBack \/ GameRuns \/ UNCHANGED vars
  <2>1. UNCHANGED <<list, pos, lineNum, isConstantWrite, parsed, ran, guards>>
    BY <1>5 DEF WriteBack, GameRuns, vars, passVars, history
  <2>2. PlaceAt(pos, lineNum, isConstantWrite)' <=> PlaceAt(pos, lineNum, isConstantWrite)
    BY <2>1, SamePlace
  <2>3. pc' = pc \/ (pc = "store" /\ pc' = "line")
    BY <1>5 DEF WriteBack, GameRuns, vars
  <2> QED BY <2>1, <2>2, <2>3 DEF PlaceInv
<1> QED BY <1>1, <1>2, <1>3, <1>4, <1>5, Zenon DEF Next, Engine

-----------------------------------------------------------------------------
(* Guards.                                                                 *)

\* The lines of P behind line a.
Behind(P, a) == Cardinality({q \in P : a < q})
\* Covers, of the lines P.
CoversIn(P, g, p) ==
  g.at < p /\ SameCode(g.at, p) /\ Cardinality({q \in P : g.at < q /\ q <= p}) <= g.span
\* The code of line p is written in this pass.
Written(p) == doForceWrite \/ ConstantCode(p)

\* GuardsExact, of lines P, of which R ran, and guards G.
ExactIn(P, R, G) ==
  \A p \in P : p \in R <=> Written(p) /\ \A g \in G : ~CoversIn(P, g, p)

\* What skip = s says at line n: it is what the longest guard of this code has
\* left, 0 if none has, and guards are only in codes that are written.
ReachIn(P, G, n, s) ==
  /\ \A p \in P : p < n
  /\ \A g \in G : SameCode(g.at, n) => Written(n) /\ g.span - Behind(P, g.at) <= s
  /\ s > 0 => \E g \in G : SameCode(g.at, n) /\ g.span - Behind(P, g.at) = s

\* GuardsExact is not inductive: the next line depends on skip, which has to be
\* what the guards have left.
GuardInv ==
  /\ pc \in {"line", "store"} => ReachIn(parsed, guards, pos, skip)
  /\ ExactIn(parsed, ran, guards)

\* One more line behind a guard is counted once.
LEMMA CountedMore ==
  ASSUME NEW P, IsFiniteSet(P), P \subseteq Nat, NEW n \in Nat, \A q \in P : q < n,
         NEW a \in Nat, a < n
  PROVE  /\ Behind(P, a) \in Nat
         /\ Behind(P \cup {n}, a) = Behind(P, a) + 1
         /\ Cardinality({q \in P \cup {n} : a < q /\ q <= n}) = Behind(P, a) + 1
<1> DEFINE B == {q \in P : a < q}
<1>1. IsFiniteSet(B) /\ n \notin B
  <2>1. B \subseteq P /\ n \notin B
    OBVIOUS
  <2> QED BY <2>1, FS_Subset
<1>2. {q \in P \cup {n} : a < q} = B \cup {n}
  OBVIOUS
<1>3. {q \in P \cup {n} : a < q /\ q <= n} = B \cup {n}
  <2>1. \A q \in P \cup {n} : q <= n
    OBVIOUS
  <2> QED BY <1>2, <2>1, Zenon
<1>4. Cardinality(B) \in Nat /\ Cardinality(B \cup {n}) = Cardinality(B) + 1
  BY <1>1, FS_CardinalityType, FS_AddElement
<1>5. Behind(P, a) = Cardinality(B) /\ Behind(P \cup {n}, a) = Cardinality(B \cup {n})
  BY <1>2 DEF Behind
<1> QED BY <1>3, <1>4, <1>5

\* It changes nothing for the lines before.
LEMMA CountedSame ==
  ASSUME NEW P, P \subseteq Nat, NEW n \in Nat, \A q \in P : q < n, NEW p \in P, NEW g
  PROVE  CoversIn(P \cup {n}, g, p) <=> CoversIn(P, g, p)
<1>0. ~(n <= p)
  <2>1. p \in Nat /\ p < n
    OBVIOUS
  <2> QED BY <2>1
<1>1. {q \in P \cup {n} : g.at < q /\ q <= p} = {q \in P : g.at < q /\ q <= p}
  BY <1>0, Zenon
<1> QED BY <1>1, Zenon DEF CoversIn

\* No line is counted for a guard at the last.
LEMMA NoneBehind ==
  ASSUME NEW P, P \subseteq Nat, NEW n \in Nat, \A q \in P : q < n
  PROVE  Behind(P \cup {n}, n) = 0
<1>1. ASSUME NEW q \in P \cup {n}, n < q PROVE FALSE
  <2>1. q \in Nat /\ (q = n \/ q < n)
    OBVIOUS
  <2> QED BY <1>1, <2>1
<1>2. {q \in P \cup {n} : n < q} = {}
  BY <1>1, Zenon
<1> QED BY <1>2, FS_EmptySet DEF Behind

\* A guard covers the next line exactly if it has something left.
LEMMA CoversNext ==
  ASSUME NEW P, IsFiniteSet(P), P \subseteq Nat, NEW n \in Nat, \A q \in P : q < n,
         NEW g \in [at : P, span : Nat]
  PROVE  CoversIn(P \cup {n}, g, n) <=> SameCode(g.at, n) /\ g.span - Behind(P, g.at) > 0
<1>1. g.at \in Nat /\ g.at < n /\ g.span \in Nat
  OBVIOUS
<1> DEFINE b == Behind(P, g.at)
<1>2. b \in Nat /\ Cardinality({q \in P \cup {n} : g.at < q /\ q <= n}) = b + 1
  BY <1>1, CountedMore
<1> HIDE DEF b
<1>3. b + 1 <= g.span <=> g.span - b > 0
  BY <1>1, <1>2
<1>4. CoversIn(P \cup {n}, g, n) <=> SameCode(g.at, n) /\ b + 1 <= g.span
  BY <1>1, <1>2 DEF CoversIn
<1> QED BY <1>3, <1>4, Zenon DEF b

\* Lines and guards seen so far lie before line n.
LEMMA GuardsBelow ==
  ASSUME NEW P, P \subseteq Nat \ {0}, NEW n \in Nat \ {0}, NEW R, R \subseteq P,
         NEW G, G \subseteq [at : R, span : Nat], NEW s, ReachIn(P, G, n, s)
  PROVE  /\ P \subseteq Nat /\ n \in Nat /\ n \notin P /\ n \notin R /\ \A q \in P : q < n
         /\ \A g \in G : g \in [at : P, span : Nat]
         /\ \A g \in G : g.at \in Nat /\ g.at < n
<1>1. \A q \in P : q < n
  BY DEF ReachIn
<1>2. n \notin P
  <2>1. ~(n < n)
    OBVIOUS
  <2> QED BY <1>1, <2>1, Zenon
<1>3. ASSUME NEW g \in G PROVE g \in [at : P, span : Nat] /\ g.at \in P
  OBVIOUS
<1> QED BY <1>1, <1>2, <1>3

\* A line that skip passes over, or of a code not to be written: it was not to
\* run, and skip counts it if the code is one to be written.
LEMMA Passed ==
  ASSUME NEW P, IsFiniteSet(P), P \subseteq Nat \ {0}, NEW n \in Nat \ {0}, NEW R, R \subseteq P,
         NEW G, G \subseteq [at : R, span : Nat], NEW s \in Nat, NEW m,
         ExactIn(P, R, G), ReachIn(P, G, n, s), CodeStart(n + 1) = CodeStart(n),
         s > 0 \/ ~Written(n), m = IF Written(n) THEN s - 1 ELSE s
  PROVE  ExactIn(P \cup {n}, R, G) /\ ReachIn(P \cup {n}, G, n + 1, m)
<1>0. /\ P \subseteq Nat /\ n \in Nat /\ n \notin R /\ \A q \in P : q < n
      /\ \A g \in G : g \in [at : P, span : Nat]
      /\ \A g \in G : g.at \in Nat /\ g.at < n
  BY GuardsBelow
<1>1. \A p \in P : p \in R <=> Written(p) /\ \A g \in G : ~CoversIn(P \cup {n}, g, p)
  BY <1>0, CountedSame, Zenon DEF ExactIn
<1>2. Written(n) => \E g \in G : CoversIn(P \cup {n}, g, n)
  <2> SUFFICES ASSUME Written(n) PROVE \E g \in G : CoversIn(P \cup {n}, g, n)
    OBVIOUS
  <2>1. PICK g \in G : SameCode(g.at, n) /\ g.span - Behind(P, g.at) = s
    BY DEF ReachIn
  <2>2. CoversIn(P \cup {n}, g, n)
    BY <1>0, <2>1, CoversNext
  <2> QED BY <2>2
<1>3. ExactIn(P \cup {n}, R, G)
  BY <1>0, <1>1, <1>2, Zenon DEF ExactIn
<1>4. \A a : SameCode(a, n + 1) <=> SameCode(a, n)
  BY Zenon DEF SameCode
<1>5. Written(n + 1) <=> Written(n)
  BY Zenon DEF Written, ConstantCode
<1>6. ASSUME NEW g \in G
      PROVE /\ Behind(P, g.at) \in Nat /\ Behind(P \cup {n}, g.at) = Behind(P, g.at) + 1
            /\ g.span \in Nat
  BY <1>0, CountedMore
<1>7. \A p \in P \cup {n} : p < n + 1
  BY <1>0
<1>8. ASSUME NEW g \in G, SameCode(g.at, n + 1)
      PROVE Written(n + 1) /\ g.span - Behind(P \cup {n}, g.at) <= m
  <2>1. Written(n) /\ g.span - Behind(P, g.at) <= s
    BY <1>4, <1>8 DEF ReachIn
  <2> QED BY <1>5, <1>6, <2>1
<1>9. ASSUME m > 0
      PROVE \E g \in G : SameCode(g.at, n + 1) /\ g.span - Behind(P \cup {n}, g.at) = m
  <2>1. s > 0
    BY <1>9
  <2>2. PICK g \in G : SameCode(g.at, n) /\ g.span - Behind(P, g.at) = s
    BY <2>1 DEF ReachIn
  <2>3. Written(n)
    BY <2>2 DEF ReachIn
  <2>4. m = s - 1
    BY <2>3, Zenon
  <2>5. g.span - Behind(P \cup {n}, g.at) = m
    BY <1>6, <2>2, <2>4
  <2> QED BY <1>4, <2>2, <2>5
<1>10. ReachIn(P \cup {n}, G, n + 1, m)
  BY <1>7, <1>8, <1>9, Zenon DEF ReachIn
<1> QED BY <1>3, <1>10

\* A line that runs: no guard had anything left, and its own span is what is left now.
LEMMA Ran ==
  ASSUME NEW P, IsFiniteSet(P), P \subseteq Nat \ {0}, NEW n \in Nat \ {0}, NEW R, R \subseteq P,
         NEW G, G \subseteq [at : R, span : Nat], NEW k \in Nat, NEW H,
         ExactIn(P, R, G), ReachIn(P, G, n, 0), CodeStart(n + 1) = CodeStart(n), Written(n),
         H = IF k > 0 THEN G \cup {[at |-> n, span |-> k]} ELSE G
  PROVE  ExactIn(P \cup {n}, R \cup {n}, H) /\ ReachIn(P \cup {n}, H, n + 1, k)
<1>0. /\ P \subseteq Nat /\ n \in Nat /\ n \notin P /\ n \notin R /\ \A q \in P : q < n
      /\ \A g \in G : g \in [at : P, span : Nat]
      /\ \A g \in G : g.at \in Nat /\ g.at < n
  BY GuardsBelow
<1> DEFINE new == [at |-> n, span |-> k]
<1>1. new.at = n /\ new.span = k /\ G \subseteq H /\ H \subseteq G \cup {new} /\ (k > 0 => new \in H)
  OBVIOUS
<1> HIDE DEF new
<1>2. \A p \in P \cup {n} : ~CoversIn(P \cup {n}, new, p)
  <2>1. \A p \in P \cup {n} : ~(n < p)
    BY <1>0
  <2> QED BY <1>1, <2>1, Zenon DEF CoversIn
<1>3. \A p \in P : p \in R <=> Written(p) /\ \A g \in G : ~CoversIn(P \cup {n}, g, p)
  BY <1>0, CountedSame, Zenon DEF ExactIn
<1>4. \A g \in G : ~CoversIn(P \cup {n}, g, n)
  <2> SUFFICES ASSUME NEW g \in G, SameCode(g.at, n), g.span - Behind(P, g.at) > 0 PROVE FALSE
    BY <1>0, CoversNext
  <2>1. g.span - Behind(P, g.at) <= 0
    BY DEF ReachIn
  <2>2. Behind(P, g.at) \in Nat /\ g.span \in Nat
    BY <1>0, CountedMore
  <2> QED BY <2>1, <2>2
<1>5. \A p \in P \cup {n} :
        (\A g \in H : ~CoversIn(P \cup {n}, g, p)) <=> (\A g \in G : ~CoversIn(P \cup {n}, g, p))
  BY <1>1, <1>2, Zenon
<1>6. \A p \in P : p \in R \cup {n} <=> p \in R
  BY <1>0
<1>7. ExactIn(P \cup {n}, R \cup {n}, H)
  <2> SUFFICES ASSUME NEW p \in P \cup {n}
               PROVE  p \in R \cup {n} <=> Written(p) /\ \A g \in G : ~CoversIn(P \cup {n}, g, p)
    BY <1>5, Zenon DEF ExactIn
  <2>1. CASE p \in P
    BY <2>1, <1>3, <1>6, Zenon
  <2>2. CASE p = n
    <3>1. p \in R \cup {n}
      BY <2>2
    <3> QED BY <2>2, <3>1, <1>4, Zenon
  <2> QED BY <2>1, <2>2
<1>8. \A a : SameCode(a, n + 1) <=> SameCode(a, n)
  BY Zenon DEF SameCode
<1>9. Written(n + 1)
  BY Zenon DEF Written, ConstantCode
<1>10. \A p \in P \cup {n} : p < n + 1
  BY <1>0
<1>11. Behind(P \cup {n}, new.at) = 0
  BY <1>0, <1>1, NoneBehind
<1>12. ASSUME NEW g \in H, SameCode(g.at, n + 1)
       PROVE  Written(n + 1) /\ g.span - Behind(P \cup {n}, g.at) <= k
  <2>1. CASE g = new
    BY <2>1, <1>1, <1>9, <1>11
  <2>2. CASE g \in G
    <3>1. g.span - Behind(P, g.at) <= 0
      BY <1>8, <1>12, <2>2 DEF ReachIn
    <3>2. /\ Behind(P, g.at) \in Nat /\ Behind(P \cup {n}, g.at) = Behind(P, g.at) + 1
          /\ g.span \in Nat
      BY <1>0, <2>2, CountedMore
    <3>3. g.span - Behind(P \cup {n}, g.at) <= k
      BY <3>1, <3>2
    <3> QED BY <1>9, <3>3
  <2> QED BY <1>1, <2>1, <2>2
<1>13. ASSUME k > 0
       PROVE  \E g \in H : SameCode(g.at, n + 1) /\ g.span - Behind(P \cup {n}, g.at) = k
  <2>1. new \in H /\ SameCode(new.at, n + 1) /\ new.span - Behind(P \cup {n}, new.at) = k
    BY <1>1, <1>11, <1>13 DEF SameCode
  <2> QED BY <2>1
<1>14. ReachIn(P \cup {n}, H, n + 1, k)
  BY <1>10, <1>12, <1>13, Zenon DEF ReachIn
<1> QED BY <1>7, <1>14

\* The sets a pass collects are finite, and nest.
LEMMA ParsedSets ==
  ASSUME TypeOK
  PROVE  /\ IsFiniteSet(parsed) /\ parsed \subseteq Nat \ {0} /\ ran \subseteq parsed
         /\ guards \subseteq [at : ran, span : Nat] /\ skip \in Nat /\ pos \in Nat \ {0}
<1>1. PassTyped /\ Len(Text) \in Nat
  BY TypeParts, TextLines DEF TypeOK
<1>2. IsFiniteSet(1 .. Len(Text))
  BY <1>1, FS_Interval
<1>3. parsed \subseteq 1 .. Len(Text)
  BY <1>1 DEF PassTyped
<1>4. IsFiniteSet(parsed)
  BY <1>2, <1>3, FS_Subset
<1> QED BY <1>1, <1>3, <1>4 DEF PassTyped

\* While the list and the demand stay, only the sets and the place change.
LEMMA SameClaims ==
  ASSUME UNCHANGED <<list, doForceWrite>>
  PROVE  /\ ReachIn(parsed, guards, pos, skip)' <=> ReachIn(parsed', guards', pos', skip')
         /\ ExactIn(parsed, ran, guards)' <=> ExactIn(parsed', ran', guards')
BY DEF ReachIn, ExactIn, CoversIn, Behind, Written, ConstantCode, SameCode, CodeStart, Text

\* Steps within a code that hand no line to ParseLine leave the claim.
LEMMA GuardsMove ==
  ASSUME TypeOK, GuardInv, UNCHANGED <<list, doForceWrite, parsed, ran, guards>>,
         pc' \in {"line", "store"} =>
           /\ pc \in {"line", "store"} /\ skip' = skip
           /\ pos' \in Nat /\ pos' >= pos /\ CodeStart(pos') = CodeStart(pos)
  PROVE  GuardInv'
<1>1. ExactIn(parsed, ran, guards)'
  BY SameClaims DEF GuardInv
<1>2. ASSUME pc' \in {"line", "store"} PROVE ReachIn(parsed, guards, pos, skip)'
  <2>1. /\ ReachIn(parsed, guards, pos, skip) /\ skip' = skip
        /\ pos' \in Nat /\ pos' >= pos /\ CodeStart(pos') = CodeStart(pos)
    BY <1>2 DEF GuardInv
  <2>2. \A p \in parsed : p < pos'
    <3>1. \A p \in parsed : p \in Nat /\ p < pos
      BY <2>1, ParsedSets DEF ReachIn
    <3>2. pos \in Nat
      BY ParsedSets
    <3> QED BY <2>1, <3>1, <3>2
  <2>3. \A a : SameCode(a, pos') <=> SameCode(a, pos)
    BY <2>1, Zenon DEF SameCode
  <2>4. Written(pos') <=> Written(pos)
    BY <2>1, Zenon DEF Written, ConstantCode
  <2>5. ReachIn(parsed, guards, pos', skip)
    BY <2>1, <2>2, <2>3, <2>4, Zenon DEF ReachIn
  <2>6. parsed' = parsed /\ guards' = guards /\ skip' = skip
    BY <2>1
  <2> QED BY <2>5, <2>6, SameClaims
<1> QED BY <1>1, <1>2 DEF GuardInv

\* A "#" ends the reach of every guard, and resets skip.
LEMMA GuardsSeparator == ASSUME TypeOK, GuardInv, Separator PROVE GuardInv'
<1>1. /\ UNCHANGED <<list, doForceWrite, parsed, ran, guards>>
      /\ pos' = pos + 1 /\ skip' = 0 /\ pc = "line" /\ Text[pos].op = "#"
  BY DEF Separator, AtLine, history, Line
<1>2. ExactIn(parsed, ran, guards)'
  BY <1>1, SameClaims DEF GuardInv
<1>3. CodeStart(pos + 1) = pos + 1 /\ pos \in Nat
  BY <1>1, Moves
<1>4. ReachIn(parsed, guards, pos, skip)
  BY <1>1 DEF GuardInv
<1>5. \A p \in parsed : p \in Nat \ {0} /\ p < pos
  BY <1>4, ParsedSets DEF ReachIn
<1>6. \A p \in parsed : p < pos + 1
  BY <1>3, <1>5
<1>7. \A g \in guards : ~SameCode(g.at, pos + 1)
  <2> SUFFICES ASSUME NEW g \in guards PROVE ~SameCode(g.at, pos + 1)
    OBVIOUS
  <2>1. g.at \in parsed
    BY ParsedSets
  <2>2. g.at \in Nat \ {0} /\ g.at < pos
    BY <1>5, <2>1
  <2>3. CodeStart(g.at) \in 1 .. g.at
    BY <2>2, CodeStartIs
  <2>4. CodeStart(g.at) # pos + 1
    BY <1>3, <2>2, <2>3
  <2> QED BY <1>3, <2>4 DEF SameCode
<1>8. ~(0 > 0)
  OBVIOUS
<1>9. ReachIn(parsed, guards, pos + 1, 0)
  BY <1>6, <1>7, <1>8, Zenon DEF ReachIn
<1>10. ReachIn(parsed, guards, pos, skip)'
  BY <1>1, <1>9, SameClaims
<1> QED BY <1>2, <1>10 DEF GuardInv

\* A line handed to ParseLine keeps the claim.
LEMMA GuardsParsed == ASSUME TypeOK, PlaceInv, GuardInv, PassOver \/ ParseLine PROVE GuardInv'
<1>1. /\ pc = "line" /\ lineNum = 2 /\ Text[pos].op # "#"
  BY Zenon DEF PassOver, ParseLine, Executable, Parseable, AtCode, AtLine, Line
<1>2. CodeStart(pos + 1) = CodeStart(pos)
  BY <1>1, Moves
<1>3. Written(pos) <=> Enabled
  <2>1. PlaceAt(pos, 2, isConstantWrite)
    BY <1>1 DEF PlaceInv
  <2>2. isConstantWrite <=> ConstantCode(pos)
    BY <2>1, Zenon DEF PlaceAt
  <2> QED BY <2>2, Zenon DEF Written, Enabled
<1>4. ExactIn(parsed, ran, guards) /\ ReachIn(parsed, guards, pos, skip)
  BY <1>1 DEF GuardInv
<1>5. CASE PassOver
  <2>1. /\ UNCHANGED <<list, doForceWrite>>
        /\ parsed' = parsed \cup {pos} /\ ran' = ran /\ guards' = guards /\ pos' = pos + 1
    BY <1>5 DEF PassOver
  <2>2. (skip > 0 \/ ~Written(pos)) /\ skip' = IF Written(pos) THEN skip - 1 ELSE skip
    BY <1>3, <1>5, Zenon DEF PassOver
  <2>3. /\ ExactIn(parsed \cup {pos}, ran, guards)
        /\ ReachIn(parsed \cup {pos}, guards, pos + 1, skip')
    BY <1>2, <1>4, <2>2, ParsedSets, Passed
  <2>4. ExactIn(parsed, ran, guards)' /\ ReachIn(parsed, guards, pos, skip)'
    BY <2>1, <2>3, SameClaims
  <2> QED BY <2>4 DEF GuardInv
<1>6. CASE ParseLine
  <2>1. PICK k \in Nat, p \in Nat : Execute(k, p)
    BY <1>6, ParseOutcome DEF Outcome, Executed
  <2>2. /\ UNCHANGED <<list, doForceWrite>>
        /\ parsed' = parsed \cup {pos} /\ ran' = ran \cup {pos} /\ pos' = pos + 1 /\ skip' = k
        /\ guards' = IF k > 0 THEN guards \cup {[at |-> pos, span |-> k]} ELSE guards
    BY <2>1 DEF Execute
  <2>3. Written(pos)
    BY <1>3, <1>6, Zenon DEF ParseLine, Executable
  <2>4. skip = 0
    <3>1. skip <= 0
      BY <1>6, Zenon DEF ParseLine, Executable
    <3> QED BY <3>1, ParsedSets
  <2>5. /\ ExactIn(parsed \cup {pos}, ran \cup {pos}, guards')
        /\ ReachIn(parsed \cup {pos}, guards', pos + 1, k)
    BY <1>2, <1>4, <2>2, <2>3, <2>4, ParsedSets, Ran
  <2>6. ExactIn(parsed, ran, guards)' /\ ReachIn(parsed, guards, pos, skip)'
    BY <2>2, <2>5, SameClaims
  <2> QED BY <2>6 DEF GuardInv
<1> QED BY <1>5, <1>6

\* GuardInv is inductive, given the types and the place.
LEMMA GuardNext == ASSUME TypeOK, PlaceInv, GuardInv, [Next]_vars PROVE GuardInv'
<1>1. CASE ForcedPass \/ RepeatedPass
  <2>1. parsed' = {} /\ guards' = {} /\ skip' = 0 /\ pos' = 1
    BY <1>1 DEF ForcedPass, RepeatedPass, BeginPass
  <2>2. ~(skip' > 0)
    BY <2>1
  <2> QED BY <2>1, <2>2, Zenon DEF GuardInv, ReachIn, ExactIn
<1>2. CASE EndPass
  <2>1. parsed' = {} /\ pc' = "idle"
    BY <1>2 DEF EndPass
  <2> QED BY <2>1 DEF GuardInv, ExactIn
<1>3. CASE Name \/ ConstantWrite \/ NotACode
  <2>1. UNCHANGED <<list, doForceWrite, parsed, ran, guards, skip>> /\ pc = "line" /\ pos <= Len(Text)
    BY <1>3 DEF Name, ConstantWrite, NotACode, AtCode, AtLine, history
  <2>2. Text[pos].op # "#"
    BY <1>3, Zenon DEF Name, ConstantWrite, NotACode, AtCode, Line
  <2>3. pos \in 1 .. Len(Text) /\ Len(Text) \in Nat /\ CodeStart(pos + 1) = CodeStart(pos)
    BY <2>1, <2>2, Moves
  <2>4. pos' \in Nat /\ pos' >= pos /\ CodeStart(pos') = CodeStart(pos)
    <3>1. CASE pos' = pos + 1
      BY <2>3, <3>1
    <3>2. CASE pos' = NextSeparator(pos)
      <4>1. /\ NextSeparator(pos) \in pos .. Len(Text) + 1
            /\ \A r \in pos .. NextSeparator(pos) - 1 : Text[r].op # "#"
        BY <2>3, NextSeparatorIs
      <4>2. pos' \in Nat /\ pos' >= pos /\ pos \in Nat \ {0}
        BY <2>3, <3>2, <4>1
      <4>3. CodeStart(pos') = CodeStart(pos)
        BY <3>2, <4>1, <4>2, CodeGoesOn
      <4> QED BY <4>2, <4>3
    <3>3. pos' = pos + 1 \/ pos' = NextSeparator(pos)
      BY <1>3, Zenon DEF Name, ConstantWrite, NotACode
    <3> QED BY <3>1, <3>2, <3>3
  <2> QED BY <2>1, <2>4, GuardsMove
<1>4. CASE WriteBack \/ GameRuns \/ UNCHANGED vars
  <2>1. UNCHANGED <<list, doForceWrite, pos, skip, parsed, ran, guards>>
    BY <1>4 DEF WriteBack, GameRuns, vars, passVars, history
  <2>2. pc' = pc \/ pc = "store"
    BY <1>4 DEF WriteBack, GameRuns, vars
  <2>3. pos \in Nat /\ pos >= pos
    BY Moves
  <2> QED BY <2>1, <2>2, <2>3, GuardsMove
<1> QED BY <1>1, <1>2, <1>3, <1>4, GuardsSeparator, GuardsParsed, Zenon DEF Next, Engine

-----------------------------------------------------------------------------
(* Pointers.                                                               *)

\* Line p of P left a pointer, and up to line n of the same code there is no code behind it.
PointerAt(P, p, n) ==
  /\ Text[p].op = "6" /\ (\A q \in P : q <= p) /\ SameCode(p, n)
  /\ \A q \in p + 1 .. n - 1 : Text[q].op \notin CodeOps

\* PointerScoped is not inductive: the line that takes the pointer must be one
\* that is executed, so nothing is skipped and the code is to be written, and
\* it must come before the "#".
PointerInv ==
  ptrAddr # 0 =>
    /\ pc = "line" /\ lineNum = 2 /\ skip = 0 /\ Enabled
    /\ \E p \in ran : PointerAt(parsed, p, pos)

\* While the pointer waits, a code of the list is still to come before the "#".
LEMMA Waiting ==
  ASSUME PointersUsed(LinesOf), TypeOK, NEW p \in ran, p < pos, PointerAt(parsed, p, pos)
  PROVE  pos <= Len(Text) /\ Text[pos].op # "#"
<1>1. list \in DOMAIN LinesOf
  BY EngineAssumption DEF TypeOK
<1>2. p \in 1 .. Len(Text) /\ pos \in Nat /\ Len(Text) \in Nat
  BY TypeParts, Moves DEF PassTyped
<1>3. p \in DOMAIN Text /\ Text[p].op = "6"
  BY <1>2, TextLines DEF TypeOK, PointerAt
<1>4. PICK q \in p + 1 .. Len(Text) : Text[q].op \in CodeOps /\ \A r \in p + 1 .. q : Text[r].op # "#"
  BY <1>1, <1>3, Zenon DEF PointersUsed, Text
<1>5. q \notin p + 1 .. pos - 1
  BY <1>4, Zenon DEF PointerAt
<1>6. pos <= q /\ pos \in p + 1 .. q
  BY <1>2, <1>4, <1>5
<1> QED BY <1>2, <1>4, <1>6

\* While the list stays, only the lines parsed and the place matter.
LEMMA SamePointer ==
  ASSUME UNCHANGED list, NEW p
  PROVE  PointerAt(parsed, p, pos)' <=> PointerAt(parsed', p, pos')
BY DEF PointerAt, SameCode, CodeStart, Text

\* A line executed leaves no pointer, or is a pointer itself.
LEMMA PointerRead == ASSUME TypeOK, PlaceInv, GuardInv, ParseLine PROVE PointerInv'
<1>1. PICK k \in Nat, p \in Nat : Executed(k, p)
  BY ParseOutcome DEF Outcome
<1>2. Execute(k, p) /\ (p # 0 => Line.op = "6" /\ k = 0 /\ pc' = pc)
  BY <1>1, Zenon DEF Executed
<1>3. CASE p = 0
  BY <1>2, <1>3 DEF Execute, PointerInv
<1>4. CASE p # 0
  <2>1. /\ list' = list /\ lineNum' = lineNum /\ pos' = pos + 1 /\ skip' = 0 /\ pc' = pc
        /\ parsed' = parsed \cup {pos} /\ pos \in ran' /\ Text[pos].op = "6"
    BY <1>2, <1>4 DEF Execute, Line
  <2>2. isConstantWrite' = isConstantWrite /\ doForceWrite' = doForceWrite
    BY <1>2 DEF Execute
  <2>3. Enabled /\ pc = "line" /\ lineNum = 2 /\ Text[pos].op # "#"
    BY Zenon DEF ParseLine, Executable, Parseable, AtCode, AtLine, Line
  <2>4. Enabled'
    BY <2>2, <2>3, Zenon DEF Enabled
  <2>5. CodeStart(pos + 1) = CodeStart(pos) /\ pos \in Nat
    BY <2>3, Moves
  <2>6. \A q \in parsed \cup {pos} : q <= pos
    <3>1. \A q \in parsed : q \in Nat /\ q < pos
      BY <2>3, ParsedSets DEF GuardInv, ReachIn
    <3> QED BY <2>5, <3>1
  <2>7. \A q : q \notin pos + 1 .. pos + 1 - 1
    BY <2>5
  <2>8. PointerAt(parsed \cup {pos}, pos, pos + 1)
    BY <2>1, <2>5, <2>6, <2>7 DEF PointerAt, SameCode
  <2>9. PointerAt(parsed', pos, pos')
    BY <2>1, <2>8
  <2>10. \E r \in ran' : PointerAt(parsed', r, pos')
    BY <2>1, <2>9
  <2>11. (\E r \in ran : PointerAt(parsed, r, pos))'
    BY <2>1, <2>10, SamePointer
  <2> QED BY <2>1, <2>3, <2>4, <2>11 DEF PointerInv
<1> QED BY <1>3, <1>4

\* PointerInv is inductive where codes end in no pointer.
LEMMA PointerNext ==
  ASSUME PointersUsed(LinesOf), TypeOK, PlaceInv, GuardInv, PointerInv, [Next]_vars PROVE PointerInv'
<1>1. CASE ParseLine
  BY <1>1, PointerRead
<1>2. CASE ~ParseLine
  <2>1. ptrAddr' = ptrAddr
    BY <1>2 DEF Next, Engine, ForcedPass, RepeatedPass, BeginPass, EndPass, Separator, Name,
                ConstantWrite, NotACode, PassOver, WriteBack, GameRuns, vars
  <2> SUFFICES ASSUME ptrAddr # 0 PROVE PointerInv'
    BY <2>1 DEF PointerInv
  <2>2. /\ pc = "line" /\ lineNum = 2 /\ skip = 0 /\ Enabled
    BY Zenon DEF PointerInv
  <2>3. PICK p \in ran : PointerAt(parsed, p, pos)
    BY Zenon DEF PointerInv
  <2>4. p < pos /\ p \in Nat /\ pos \in Nat
    BY <2>2, ParsedSets DEF GuardInv, ReachIn
  <2>5. pos <= Len(Text) /\ Text[pos].op # "#" /\ Len(Text) \in Nat
    BY <2>3, <2>4, Waiting, Moves
  <2>6. CASE NotACode
    <3>1. Text[pos].op \notin CodeOps
      BY <2>6 DEF NotACode, Parseable, Line, CodeOps
    <3>2. CodeStart(pos + 1) = CodeStart(pos)
      BY <2>5, Moves
    <3>3. PICK n \in Nat : n = pos + 1
      BY <2>4
    <3>4. PointerAt(parsed, p, n)
      <4>1. Text[p].op = "6" /\ (\A q \in parsed : q <= p) /\ SameCode(p, pos)
        BY <2>3, Zenon DEF PointerAt
      <4>2. SameCode(p, n)
        BY <3>2, <3>3, <4>1, Zenon DEF SameCode
      <4>3. ASSUME NEW q \in p + 1 .. n - 1 PROVE Text[q].op \notin CodeOps
        <5>1. q = pos \/ q \in p + 1 .. pos - 1
          BY <2>4, <3>3
        <5> QED BY <3>1, <5>1, <2>3 DEF PointerAt
      <4> QED BY <4>1, <4>2, <4>3, Zenon DEF PointerAt
    <3>5. /\ list' = list /\ pos' = pos + 1 /\ parsed' = parsed /\ ran' = ran
          /\ pc' = pc /\ lineNum' = lineNum /\ skip' = skip
      BY <2>6 DEF NotACode, history
    <3>6. Enabled'
      BY <2>2, <2>6, Zenon DEF NotACode, Enabled
    <3>7. PointerAt(parsed, p, pos)' /\ p \in ran'
      BY <3>3, <3>4, <3>5, SamePointer
    <3> QED BY <2>2, <3>5, <3>6, <3>7 DEF PointerInv
  <2>7. CASE GameRuns \/ UNCHANGED vars
    <3>1. UNCHANGED <<list, pos, parsed, ran, pc, lineNum, skip>>
      BY <2>7 DEF GameRuns, vars, passVars, history
    <3>2. isConstantWrite' = isConstantWrite /\ doForceWrite' = doForceWrite
      BY <2>7 DEF GameRuns, vars, passVars
    <3>3. Enabled'
      BY <2>2, <3>2, Zenon DEF Enabled
    <3>4. PointerAt(parsed, p, pos)' /\ p \in ran'
      BY <2>3, <3>1, SamePointer
    <3> QED BY <2>2, <3>1, <3>3, <3>4 DEF PointerInv
  <2>8. ~ForcedPass /\ ~RepeatedPass /\ ~WriteBack
    BY <2>2 DEF ForcedPass, RepeatedPass, WriteBack
  <2>9. ~EndPass
    BY <2>4, <2>5 DEF EndPass
  <2>10. ~Separator /\ ~Name /\ ~ConstantWrite
    BY <2>2, <2>5 DEF Separator, Name, ConstantWrite, Line
  <2>11. ~PassOver
    <3>1. ~(skip > 0)
      BY <2>2
    <3> QED BY <2>2, <3>1, Zenon DEF PassOver
  <2> QED BY <1>2, <2>6, <2>7, <2>8, <2>9, <2>10, <2>11, Zenon DEF Next, Engine
<1> QED BY <1>1, <1>2

\* The claim is GuardsExact.
LEMMA GuardsFollow == GuardInv => GuardsExact
BY DEF GuardInv, GuardsExact, ExactIn, Written, CoversIn, Covers, Counted

\* The claim is PointerScoped.
LEMMA PointerFollows == PointerInv => PointerScoped
BY DEF PointerInv, PointerScoped, PointerAt

-----------------------------------------------------------------------------
(* The engine.                                                             *)

\* The inductive invariant of the engine.
EngineInv == TypeOK /\ PlaceInv /\ GuardInv

\* In every run of the engine, for any lists, games, words and addresses, the
\* place, the constant flag and skip are what the lines read so far make them.
THEOREM EngineAlways == Spec => []EngineInv
<1>1. Init => EngineInv
  <2>1. Init => GuardInv
    BY DEF Init, GuardInv, ReachIn, ExactIn
  <2> QED BY <2>1, TypeInit, PlaceInit DEF EngineInv
<1>2. EngineInv /\ [Next]_vars => EngineInv'
  BY TypeNext, PlaceNext, GuardNext, Zenon DEF EngineInv
<1> QED BY <1>1, <1>2, PTL DEF Spec

\* Every variable keeps its type, for any lists and games: words stay words, and
\* skip, which ParseLine counts down, never falls below 0 (main.c:518-520).
THEOREM TypeCorrect == Spec => []TypeOK
<1>1. EngineInv => TypeOK
  BY DEF EngineInv
<1> QED BY <1>1, EngineAlways, PTL

\* In any list, with any nesting of conditions and two-line codes and with lines that
\* are no codes between them, exactly the lines no guard of their code covers are
\* executed, and only of codes that are constant or asked for (main.c:518-520, 790).
THEOREM GuardsAlwaysExact == Spec => []GuardsExact
<1>1. EngineInv => GuardsExact
  BY GuardsFollow DEF EngineInv
<1> QED BY <1>1, EngineAlways, PTL

\* If no code of the lists ends in a pointer, a pointer is always served to the next
\* line of its own code, in the pass that read it (main.c:492, 541-545).
THEOREM PointerAlwaysScoped == ASSUME PointersUsed(LinesOf) PROVE Spec => []PointerScoped
<1>1. Init => PointerInv
  BY DEF Init, PointerInv
<1>2. PointersUsed(LinesOf) /\ EngineInv /\ PointerInv /\ [Next]_vars => PointerInv'
  BY PointerNext, Zenon DEF EngineInv
<1>3. EngineInv /\ PointerInv /\ [Next]_vars => PointerInv'
  BY <1>2
<1>4. PointerInv => PointerScoped
  BY PointerFollows
<1> QED BY <1>1, <1>3, <1>4, EngineAlways, PTL DEF Spec
=============================================================================
