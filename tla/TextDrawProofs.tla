--------------------------- MODULE TextDrawProofs ---------------------------
(***************************************************************************)
(* For any texts, fonts and any number of slots: the buffer of a string    *)
(* and the cache of glyphs keep their types, a picture the RSX has yet to  *)
(* read keeps its slot in a frame that asks for no more characters than    *)
(* there are slots, and a well-formed text is read within its buffer and   *)
(* asked for as its characters, as many as there is room for, each with a  *)
(* picture if it has one.                                                  *)
(***************************************************************************)
EXTENDS TextDrawProps, NatLemmas, FiniteSetTheorems, SequenceTheorems, TLAPS

-----------------------------------------------------------------------------
(* The text in its buffer                                                  *)

\* The buffer ends in a NUL, and only the decoder that steps over it gets behind it.
BufferInv ==
  /\ mem \in Seq(Bytes) /\ Len(mem) > 0 /\ mem[Len(mem)] = NUL
  /\ p \in 1 .. Len(mem) + 1
  /\ way # "list" => p <= Len(mem)

TextInv ==
  /\ screen \in DOMAIN Screens
  /\ way \in Ways /\ text \in Screens[screen].texts[way] \cup {<<>>} /\ pass \in {1, 2}
  /\ BufferInv
  /\ flips \in Nat /\ r_use \in 0 .. flips

\* A character takes one to four bytes.
LEMMA TakenIs ==
  ASSUME NEW c
  PROVE  Taken(c) \in 1 .. 4 /\ DisplayLength(c) \in 1 .. 4
PROOF BY DEF Taken, DisplayLength, utf8_char_len

\* What display_ttf_string takes ends before the NUL, and is an ASCII character or one
\* that begins with another byte.
LEMMA DisplayedIs ==
  ASSUME BufferInv, p <= Len(mem), mem[p] \notin Continues \cup {Blank}, ~AtEnd
  PROVE  /\ Displayed(mem, p).next \in p + 1 .. Len(mem)
         /\ Displayed(mem, p).code \in Seq(Bytes) \ {None}
         /\ Displayed(mem, p).code \in {<<c>> : c \in ASCII} => Displayed(mem, p).code = <<"a">>
<1> DEFINE n == Len(mem)
           len == DisplayLength(mem[p])
           wanted == p + 1 .. p + len - 1
           bad == {i \in wanted : i > n \/ mem[i] \notin Continues}
           next == IF bad = {} THEN p + len ELSE Min(bad)
<1>1. /\ Displayed(mem, p).code \in {<<"a">>, SubSeq(mem, p, next - 1)}
      /\ Displayed(mem, p).next = next
      /\ Displayed(mem, p).more <=> ~(bad # {} /\ next \in DOMAIN mem /\ mem[next] = NUL)
  BY Zenon DEF Displayed
<1>2. n \in Nat \ {0} /\ p \in 1 .. n /\ len \in 1 .. 4 /\ mem[n] = NUL /\ mem[p] # NUL
      /\ mem \in Seq(Bytes) /\ p < n
  <2>1. mem[p] # NUL
    BY DEF AtEnd
  <2>2. n \in Nat \ {0} /\ p \in 1 .. n /\ mem[n] = NUL /\ mem \in Seq(Bytes)
    BY DEF BufferInv
  <2>3. len \in 1 .. 4
    BY TakenIs
  <2> QED BY <2>1, <2>2, <2>3
<1>3. NUL \notin Continues
  BY DEF NUL, Continues
<1> HIDE DEF len
<1>4. next \in p + 1 .. n
  <2>1. CASE bad = {}
    <3>1. n \notin wanted
      BY <1>2, <1>3, <2>1
    <3> QED BY <1>2, <2>1, <3>1
  <2>2. CASE bad # {}
    <3>1. bad \subseteq Nat /\ bad \subseteq wanted
      BY <1>2
    <3>2. \E x \in bad : \A y \in bad : x <= y
      BY <2>2, <3>1, LeastNat
    <3>3. Min(bad) \in bad /\ \A y \in bad : Min(bad) <= y
      <4> HIDE DEF bad
      <4> QED BY <3>2, Zenon DEF Min
    <3>4. n \in wanted => n \in bad
      BY <1>2, <1>3
    <3>5. next \in wanted /\ (n \in wanted => next <= n)
      BY <2>2, <3>1, <3>3, <3>4
    <3> HIDE DEF next, bad
    <3> QED BY <1>2, <3>5
  <2> QED BY <2>1, <2>2
<1> HIDE DEF next
<1>5. SubSeq(mem, p, next - 1) \in Seq(Bytes) /\ Len(SubSeq(mem, p, next - 1)) = next - p
      /\ SubSeq(mem, p, next - 1)[1] = mem[p]
  BY <1>2, <1>4
<1>6. SubSeq(mem, p, next - 1) # None
  BY <1>4, <1>5, <1>2 DEF None
<1>7. ASSUME NEW c \in ASCII, SubSeq(mem, p, next - 1) = <<c>> PROVE c = "a"
  <2>0. <<c>>[1] = c
    OBVIOUS
  <2>1. c = mem[p]
    BY <1>5, <1>7, <2>0, Zenon
  <2> QED BY <2>1, Zenon DEF ASCII
<1>8. <<"a">> \in Seq(Bytes) \ {None}
  BY DEF Bytes, ASCII, None
<1>9. CASE Displayed(mem, p).code = <<"a">>
  BY <1>1, <1>4, <1>8, <1>9, Zenon
<1>10. CASE Displayed(mem, p).code = SubSeq(mem, p, next - 1)
  BY <1>1, <1>4, <1>5, <1>6, <1>7, <1>10, Zenon
<1> QED BY <1>1, <1>9, <1>10, Zenon

-----------------------------------------------------------------------------
(* The slot to give up                                                     *)

Slot == [ttf : Seq(Bytes), drawn : BOOLEAN, used : BOOLEAN, r_use : Int, picture : Seq(Bytes)]

\* A slot whose picture may go, and what the loop over k slots has found.
Free(s) == ~data[s].drawn \/ ~data[s].used
Found(k) ==
  {s \in [m : 0 .. k, rel : Int] :
     IF s.m = 0 THEN \A j \in 1 .. k : ~Free(j) ELSE Free(s.m)}

\* A round finds a free slot, if there is one among the first k + 1.
LEMMA BetterFinds ==
  ASSUME data \in [0 .. Slots -> Slot], r_use \in Int, NEW k \in 0 .. Slots - 1, NEW s \in Found(k)
  PROVE  Better(s, k + 1) \in Found(k + 1)
<1> DEFINE j == k + 1
           rel == r_use - data[j].r_use
<1>1. j \in 1 .. Slots /\ j \in Nat /\ k \in Nat
  BY NumbersAssumption
<1>2. data[j].drawn \in BOOLEAN /\ data[j].used \in BOOLEAN /\ rel \in Int
  <2>1. data[j] \in Slot
    BY <1>1
  <2> QED BY <2>1 DEF Slot
<1>3. s \in [m : 0 .. k, rel : Int] /\ (IF s.m = 0 THEN \A i \in 1 .. k : ~Free(i) ELSE Free(s.m))
  BY DEF Found
<1> SUFFICES Better(s, j) \in Found(j)
  OBVIOUS
<1>4. CASE ~data[j].drawn
  <2>1. Better(s, j) = [s EXCEPT !.m = j]
    BY <1>4, Zenon DEF Better
  <2>2. [s EXCEPT !.m = j] \in [m : 0 .. j, rel : Int] /\ [s EXCEPT !.m = j].m = j
    BY <1>1, <1>3
  <2>3. Free(j) /\ j # 0
    BY <1>1, <1>4 DEF Free
  <2> HIDE DEF j
  <2> QED BY <2>1, <2>2, <2>3 DEF Found
<1>5. CASE data[j].drawn /\ ~data[j].used /\ (s.m = 0 \/ s.rel > rel)
  <2>1. Better(s, j) = [m |-> j, rel |-> rel]
    BY <1>5, Zenon DEF Better
  <2>2. [m |-> j, rel |-> rel] \in [m : 0 .. j, rel : Int]
    BY <1>1, <1>2
  <2>3. Free(j) /\ j # 0
    BY <1>1, <1>5 DEF Free
  <2> HIDE DEF j, rel
  <2> QED BY <2>1, <2>2, <2>3 DEF Found
<1>6. CASE data[j].drawn /\ ~(~data[j].used /\ (s.m = 0 \/ s.rel > rel))
  <2>1. Better(s, j) = s
    BY <1>6, Zenon DEF Better
  <2>2. s \in [m : 0 .. j, rel : Int]
    BY <1>1, <1>3
  <2>3. s.m = 0 => ~Free(j)
    BY <1>6, Zenon DEF Free
  <2>4. s.m = 0 => \A i \in 1 .. j : ~Free(i)
    <3>1. \A i \in 1 .. j : i \in 1 .. k \/ i = j
      BY <1>1
    <3> HIDE DEF j
    <3> QED BY <1>3, <2>3, <3>1
  <2>5. s.m # 0 => Free(s.m)
    BY <1>3
  <2> HIDE DEF j, rel
  <2> QED BY <2>1, <2>2, <2>4, <2>5 DEF Found
<1> QED BY <1>4, <1>5, <1>6

\* The slot given up is free, or else none is.
LEMMA VictimFree ==
  ASSUME data \in [0 .. Slots -> Slot], r_use \in Int
  PROVE  /\ Victim(Slots) \in Pool
         /\ Free(Victim(Slots)) \/ \A s \in Pool : ~Free(s)
<1> DEFINE first == [m |-> 0, rel |-> 0]
           Rounds(f, n) == f = [k \in 0 .. n |-> IF k = 0 THEN first ELSE Better(f[k - 1], k)]
           Can == {n \in Nat : \E f : Rounds(f, n)}
<1>1. Slots \in Nat \ {0}
  BY NumbersAssumption
<1>2. first \in Found(0)
  BY DEF Found
<1> HIDE DEF first
<1>3. 0 \in Can
  <2>1. Rounds([k \in 0 .. 0 |-> first], 0)
    OBVIOUS
  <2> QED BY <2>1, Zenon
<1>4. ASSUME NEW n \in Nat, n \in Can PROVE n + 1 \in Can
  <2>1. PICK f : Rounds(f, n)
    BY <1>4
  <2> DEFINE g == [k \in 0 .. n + 1 |-> IF k = n + 1 THEN Better(f[n], n + 1) ELSE f[k]]
  <2>2. ASSUME NEW k \in 0 .. n + 1
        PROVE  g[k] = IF k = 0 THEN first ELSE Better(g[k - 1], k)
    <3>1. CASE k = n + 1
      <4>1. k # 0 /\ k - 1 = n /\ n \in 0 .. n + 1 /\ n # n + 1
        BY <3>1
      <4>2. g[n] = f[n]
        BY <4>1
      <4> QED BY <3>1, <4>1, <4>2
    <3>2. CASE k = 0
      <4>1. f[0] = first
        BY <2>1
      <4> QED BY <3>2, <4>1
    <3>3. CASE k # n + 1 /\ k # 0
      <4>1. k \in 0 .. n /\ k - 1 \in 0 .. n /\ k - 1 # n + 1 /\ k - 1 \in 0 .. n + 1
        BY <3>3
      <4>2. f[k] = Better(f[k - 1], k)
        BY <2>1, <3>3, <4>1
      <4>3. g[k] = f[k] /\ g[k - 1] = f[k - 1]
        BY <4>1, <3>3
      <4> QED BY <3>3, <4>2, <4>3
    <3> QED BY <3>1, <3>2, <3>3
  <2>3. g = [k \in 0 .. n + 1 |-> g[k]]
    OBVIOUS
  <2> HIDE DEF g
  <2>4. Rounds(g, n + 1)
    BY <2>2, <2>3
  <2> QED BY <2>4, n + 1 \in Nat, Zenon
<1>5. Slots \in Can
  <2> HIDE DEF Can
  <2>1. Nat \subseteq Can
    BY <1>3, <1>4, NatInd
  <2> QED BY <2>1, <1>1
<1> DEFINE best == CHOOSE f : Rounds(f, Slots)
<1>6. Rounds(best, Slots)
  <2>1. \E f : Rounds(f, Slots)
    BY <1>5
  <2> QED BY <2>1, Zenon
<1>7. Victim(Slots) = IF best[Slots].m = 0 THEN 1 ELSE best[Slots].m
  BY DEF Victim, first
<1> HIDE DEF best
<1> DEFINE Kept == {k \in Nat : k <= Slots => best[k] \in Found(k)}
<1>8. 0 \in Kept
  BY <1>6, <1>1, <1>2
<1>9. ASSUME NEW k \in Nat, k \in Kept PROVE k + 1 \in Kept
  <2> SUFFICES ASSUME k + 1 <= Slots PROVE best[k + 1] \in Found(k + 1)
    OBVIOUS
  <2>1. best[k] \in Found(k) /\ k \in 0 .. Slots - 1
    BY <1>9, <1>1
  <2>2. k + 1 \in 0 .. Slots /\ k + 1 # 0 /\ (k + 1) - 1 = k
    BY <1>1
  <2>3. best[k + 1] = Better(best[k], k + 1)
    BY <1>6, <2>2
  <2> QED BY <2>1, <2>3, BetterFinds
<1>10. best[Slots] \in Found(Slots)
  <2> HIDE DEF Kept
  <2>1. Nat \subseteq Kept
    BY <1>8, <1>9, NatInd
  <2>2. Slots \in Kept
    BY <2>1, <1>1
  <2> QED BY <2>2, <1>1 DEF Kept
<1>11. best[Slots].m \in 0 .. Slots
       /\ IF best[Slots].m = 0 THEN \A j \in 1 .. Slots : ~Free(j) ELSE Free(best[Slots].m)
  BY <1>10 DEF Found
<1> QED BY <1>1, <1>7, <1>11 DEF Pool

-----------------------------------------------------------------------------
(* Every step keeps the text in its buffer                                 *)

\* A NUL is a byte that is neither a blank nor one that continues.
LEMMA NulIs == NUL \in Bytes /\ NUL \notin Continues \cup {Blank}
<1>1. NUL \in Bytes
  BY Zenon DEF Bytes
<1>2. NUL # Blank
  BY Zenon DEF NUL, Blank
<1>3. NUL \notin Continues
  BY DEF NUL, Continues
<1> QED BY <1>1, <1>2, <1>3, Zenon

\* In the beginning there is no text.
LEMMA TextInit == Init => TextInv
<1> SUFFICES ASSUME Init PROVE TextInv
  OBVIOUS
<1>1. /\ screen \in DOMAIN Screens /\ text = <<>> /\ way = "plain" /\ mem = <<NUL>> /\ p = 1
      /\ pass = 1 /\ r_use = 0 /\ flips = 0
  BY Zenon DEF Init
<1>2. BufferInv
  BY <1>1, NulIs DEF BufferInv
<1> QED BY <1>1, <1>2 DEF TextInv, Ways

\* A NUL put anywhere into the buffer leaves it one.
LEMMA CutKeeps ==
  ASSUME BufferInv, NEW i, mem' = mem \/ mem' = [mem EXCEPT ![i] = NUL], UNCHANGED <<way, p>>
  PROVE  BufferInv'
<1>1. CASE mem' = mem
  BY <1>1 DEF BufferInv
<1>2. CASE mem' = [mem EXCEPT ![i] = NUL]
  <2>1. /\ mem \in Seq(Bytes) /\ Len(mem) > 0 /\ mem[Len(mem)] = NUL /\ Len(mem) \in Nat
        /\ \A k \in 1 .. Len(mem) : mem[k] \in Bytes
    BY DEF BufferInv
  <2>2. mem' \in Seq(Bytes) /\ Len(mem') = Len(mem)
    <3>1. NUL \in Bytes
      BY NulIs
    <3>2. CASE i \in 1 .. Len(mem)
      BY <1>2, <2>1, <3>1, <3>2, ExceptSeq
    <3>3. CASE i \notin 1 .. Len(mem)
      <4>1. mem' = mem
        BY <1>2, <2>1, <3>3
      <4> QED BY <2>1, <4>1
    <3> QED BY <3>2, <3>3
  <2>3. mem'[Len(mem)] = NUL
    BY <1>2, <2>1
  <2> QED BY <2>1, <2>2, <2>3 DEF BufferInv
<1> QED BY <1>1, <1>2

\* A text that is done leaves an empty one.
LEMMA DoneKeeps ==
  ASSUME TextInv, Done, UNCHANGED <<screen, flips, r_use>>
  PROVE  TextInv'
<1>1. /\ text' = <<>> /\ way' = "plain" /\ mem' = <<NUL>> /\ p' = 1 /\ pass' = 1
  BY Zenon DEF Done
<1>2. BufferInv'
  BY <1>1, NulIs DEF BufferInv
<1> QED BY <1>1, <1>2 DEF TextInv, Ways

\* A step that moves on in the text.
LEMMA MoveKeeps ==
  ASSUME TextInv, UNCHANGED <<screen, text, way, mem, flips, r_use>>, pass' \in {1, 2},
         p' \in 1 .. Len(mem) + 1, way # "list" => p' <= Len(mem)
  PROVE  TextInv'
<1>1. BufferInv'
  BY DEF TextInv, BufferInv
<1> QED BY <1>1 DEF TextInv

\* Asking for a text puts it into a buffer of its own.
LEMMA AskKeeps == ASSUME TextInv, Ask PROVE TextInv'
<1>1. /\ way' \in Ways /\ text' \in Screens[screen].texts[way'] /\ mem' = Append(text', NUL)
      /\ p' = 1 /\ UNCHANGED <<screen, flips, r_use>>
  BY Zenon DEF Ask, cacheVars
<1>2. pass' \in {1, 2}
  BY DEF Ask
<1>3. Screens[screen].texts[way'] \subseteq Seq(Bytes \ {NUL})
  BY <1>1, ScreensAssumption, Zenon DEF TextInv
<1>4. text' \in Seq(Bytes \ {NUL})
  BY <1>1, <1>3
<1>5. text' \in Seq(Bytes)
  BY <1>4
<1>6. BufferInv'
  <2>1. mem' \in Seq(Bytes) /\ Len(mem') = Len(text') + 1 /\ mem'[Len(text') + 1] = NUL
        /\ Len(text') \in Nat
    BY <1>1, <1>5, NulIs
  <2> QED BY <1>1, <2>1 DEF BufferInv
<1> QED BY <1>1, <1>2, <1>6 DEF TextInv

\* Cutting.
LEMMA CuttingKeeps ==
  ASSUME TextInv, ReadsBehind \/ DrawHeader \/ DrawGameList
  PROVE  TextInv'
<1>1. UNCHANGED <<screen, text, way, p, pass, flips, r_use>>
  BY Zenon DEF ReadsBehind, DrawHeader, DrawGameList, Cutting, cacheVars
<1>2. \E i : mem' = mem \/ mem' = [mem EXCEPT ![i] = NUL]
  BY Zenon DEF ReadsBehind, DrawHeader, DrawGameList
<1>3. BufferInv'
  BY <1>1, <1>2, CutKeeps DEF TextInv
<1> QED BY <1>1, <1>3 DEF TextInv

\* Drawing.
LEMMA DrawingKeeps ==
  ASSUME TextInv, DrawUTF8String \/ PassOver \/ EndOfText \/ DrawGlyph
  PROVE  TextInv'
<1>1. UNCHANGED <<screen, flips, r_use>> /\ BufferInv /\ pass \in {1, 2}
  BY DEF DrawUTF8String, PassOver, EndOfText, DrawGlyph, Drawing, TextInv
<1>2. /\ mem \in Seq(Bytes) /\ Len(mem) \in Nat /\ Len(mem) > 0 /\ mem[Len(mem)] = NUL
      /\ p \in 1 .. Len(mem) + 1 /\ (way # "list" => p <= Len(mem))
  BY <1>1 DEF BufferInv
<1>3. CASE DrawUTF8String
  <2>1. way = "list"
    BY <1>3 DEF DrawUTF8String
  <2>2. \/ Done
        \/ UNCHANGED <<text, way, mem, p, pass>>
        \/ ~LeavesBuffer(mem, p) /\ mem[p] # NUL /\ p' = p + Taken(mem[p])
           /\ UNCHANGED <<text, way, mem, pass>>
    BY <1>3, Zenon DEF DrawUTF8String
  <2>3. CASE Done
    BY <1>1, <2>3, DoneKeeps
  <2>4. CASE UNCHANGED <<text, way, mem, p, pass>>
    BY <1>1, <1>2, <2>4, MoveKeeps
  <2>5. CASE ~LeavesBuffer(mem, p) /\ mem[p] # NUL /\ p' = p + Taken(mem[p])
             /\ UNCHANGED <<text, way, mem, pass>>
    <3>1. Taken(mem[p]) \in 1 .. 4
      BY TakenIs
    <3>2. p + Taken(mem[p]) - 1 <= Len(mem)
      BY <1>2, <2>5, <3>1 DEF LeavesBuffer
    <3> QED BY <1>1, <1>2, <2>1, <2>5, <3>1, <3>2, MoveKeeps
  <2> QED BY <2>2, <2>3, <2>4, <2>5
<1>4. CASE PassOver
  <2>1. way # "list" /\ mem[p] \in Continues \cup {Blank} /\ p' = p + 1
        /\ UNCHANGED <<text, way, mem, pass>>
    BY <1>4, Zenon DEF PassOver
  <2>2. mem[p] # NUL
    BY <2>1, NulIs, Zenon
  <2> QED BY <1>1, <1>2, <2>1, <2>2, MoveKeeps
<1>5. CASE EndOfText
  <2>1. \/ Done
        \/ pass' = 2 /\ p' = 1 /\ UNCHANGED <<text, way, mem>>
    BY <1>5, Zenon DEF EndOfText, EndPass
  <2>2. CASE Done
    BY <1>1, <2>2, DoneKeeps
  <2>3. CASE pass' = 2 /\ p' = 1 /\ UNCHANGED <<text, way, mem>>
    BY <1>1, <1>2, <2>3, MoveKeeps
  <2> QED BY <2>1, <2>2, <2>3
<1>6. CASE DrawGlyph
  <2>1. /\ way # "list" /\ mem[p] \notin Continues \cup {Blank} /\ ~AtEnd
        /\ UNCHANGED <<text, way, mem, pass>>
        /\ p' = p \/ p' = Displayed(mem, p).next
    BY <1>6, Zenon DEF DrawGlyph
  <2>2. Displayed(mem, p).next \in p + 1 .. Len(mem)
    BY <1>1, <1>2, <2>1, DisplayedIs
  <2>3. p' \in 1 .. Len(mem)
    BY <1>2, <2>1, <2>2
  <2> QED BY <1>1, <1>2, <2>1, <2>3, MoveKeeps
<1> QED BY <1>3, <1>4, <1>5, <1>6

\* The text stays in its buffer.
LEMMA TextNext == TextInv /\ [Next]_vars => TextInv'
<1> SUFFICES ASSUME TextInv, [Next]_vars PROVE TextInv'
  OBVIOUS
<1>1. CASE UNCHANGED vars
  BY <1>1 DEF vars, cacheVars, TextInv, BufferInv
<1>2. CASE Ask
  BY <1>2, AskKeeps
<1>3. CASE DrawStep
  BY <1>3, CuttingKeeps, DrawingKeeps DEF DrawStep
<1>4. CASE Flip
  <2>1. UNCHANGED <<screen, text, way, mem, p, pass>> /\ flips' = flips + 1
        /\ (r_use' = r_use + 1 \/ r_use' = r_use)
    BY <1>4, Zenon DEF Flip
  <2> QED BY <2>1 DEF TextInv, BufferInv
<1> QED BY <1>1, <1>2, <1>3, <1>4, Zenon DEF Next

-----------------------------------------------------------------------------
(* The cache and the frame                                                 *)

\* A slot says whose picture it holds, and no character other than ASCII is in two.
CacheInv ==
  /\ data \in [0 .. Slots -> Slot]
  /\ \A s \in 0 .. Slots :
       IF data[s].drawn THEN data[s].picture = data[s].ttf /\ data[s].ttf # None
       ELSE data[s].picture = None
  /\ data[0].ttf \in {None, <<"a">>}
  /\ \A i, j \in Pool : data[i].ttf = data[j].ttf /\ i # j => data[i].ttf = None

\* What is asked for since the last flip and needs a slot of the pool.
Asked == {f[2] : f \in {g \in frame : g[2] # <<"a">>}}

\* A slot with a picture that is in use was asked for; as long as no more was than there
\* are slots, every picture the RSX has yet to read is in place and its slot in use.
FrameInv ==
  /\ \A f \in frame : /\ f \in (-1 .. Slots) \X (Seq(Bytes) \ {None})
                      /\ f[1] = 0 => f[2] = <<"a">>
  /\ IsFiniteSet(Asked)
  /\ \A s \in Pool : data[s].used /\ data[s].drawn => data[s].ttf \in Asked
  /\ Cardinality(Asked) <= Slots =>
       \A f \in frame : f[1] # -1 => data[f[1]].picture = f[2] /\ data[f[1]].used
  /\ "reset_ttf_frame" \in Calls \/ \A s \in 0 .. Slots : ~data[s].drawn

\* A slot holds the character asked for, or none does and the one given up is free if
\* one is.
Where(l, char) ==
  \/ l = 0 /\ char \in {<<c>> : c \in ASCII}
  \/ /\ l \in Pool /\ char \notin {<<c>> : c \in ASCII}
     /\ \/ data[l].ttf = char
        \/ /\ \A k \in Pool : data[k].ttf # char
           /\ Free(l) \/ \A s \in Pool : ~Free(s)

\* SlotOf finds it so.
LEMMA SlotIs ==
  ASSUME data \in [0 .. Slots -> Slot], r_use \in Int, NEW char
  PROVE  Where(SlotOf(char), char)
<1> DEFINE holds == {k \in Pool : data[k].ttf = char}
           ascii == {<<c>> : c \in ASCII}
<1>1. CASE char \in ascii
  <2>1. SlotOf(char) = 0
    BY <1>1, Zenon DEF SlotOf
  <2> QED BY <1>1, <2>1, Zenon DEF Where
<1>2. CASE char \notin ascii /\ holds # {}
  <2>1. SlotOf(char) = Min(holds)
    BY <1>2, Zenon DEF SlotOf
  <2>2. holds \subseteq Nat
    BY NumbersAssumption DEF Pool
  <2> HIDE DEF holds
  <2>3. \E x \in holds : \A y \in holds : x <= y
    BY <1>2, <2>2, LeastNat
  <2>4. Min(holds) \in holds
    BY <2>3, Zenon DEF Min
  <2> USE DEF holds
  <2>5. Min(holds) \in Pool /\ data[Min(holds)].ttf = char
    BY <2>4, Zenon
  <2> HIDE DEF holds
  <2> QED BY <1>2, <2>1, <2>5, Zenon DEF Where
<1>3. CASE char \notin ascii /\ holds = {}
  <2>1. SlotOf(char) = Victim(Slots)
    BY <1>3, Zenon DEF SlotOf
  <2>2. \A k \in Pool : data[k].ttf # char
    BY <1>3, Zenon
  <2>3. Victim(Slots) \in Pool /\ (Free(Victim(Slots)) \/ \A s \in Pool : ~Free(s))
    BY VictimFree, Zenon
  <2> HIDE DEF holds
  <2> QED BY <1>3, <2>1, <2>2, <2>3, Zenon DEF Where
<1> QED BY <1>1, <1>2, <1>3, Zenon

\* What a character drawn does to the cache and the frame.
NewSlot(l, char, renders) ==
  [ttf |-> IF renders THEN char ELSE data[l].ttf, drawn |-> renders, used |-> TRUE,
   r_use |-> r_use, picture |-> IF renders THEN char ELSE None]
Kept(l, char) == data[l].drawn /\ data[l].ttf = char
Puts(l, char, renders) ==
  /\ Kept(l, char) => renders
  /\ Kept(l, char) \/ "init_ttf_table" \in Calls
  /\ data' = [data EXCEPT ![l] = NewSlot(l, char, renders)]
  /\ frame' = frame \cup {<<IF renders THEN l ELSE -1, char>>}

\* A step that draws a character puts it where it belongs, or changes nothing.
LEMMA DrawGlyphIs ==
  ASSUME DrawGlyph, TextInv, data \in [0 .. Slots -> Slot]
  PROVE  \/ UNCHANGED <<data, frame>>
         \/ \E char \in Seq(Bytes) \ {None} : \E l \in 0 .. Slots : \E renders \in BOOLEAN :
              /\ Where(l, char) /\ (l = 0 => char = <<"a">>)
              /\ Puts(l, char, renders)
<1> DEFINE char == Displayed(mem, p).code
           l == SlotOf(char)
           renders == Kept(l, char) \/ TTF_to_Bitmap(char)
<1>1. /\ way # "list" /\ mem[p] \notin Continues \cup {Blank} /\ ~AtEnd
  BY Zenon DEF DrawGlyph
<1>2. \/ UNCHANGED <<data, frame>>
      \/ Puts(l, char, renders)
  <2>1. \/ UNCHANGED <<data, frame>>
        \/ /\ Kept(l, char) \/ "init_ttf_table" \in Calls
           /\ data' = [data EXCEPT ![l] =
                   [ttf |-> IF renders THEN char ELSE @.ttf,
                    drawn |-> renders, used |-> TRUE, r_use |-> r_use,
                    picture |-> IF renders THEN char ELSE None]]
           /\ frame' = frame \cup {<<IF renders THEN l ELSE -1, char>>}
    BY Zenon DEF DrawGlyph, Kept
  <2>2. Kept(l, char) => renders
    OBVIOUS
  <2> HIDE DEF char, l, renders
  <2> QED BY <2>1, <2>2, Zenon DEF Puts, NewSlot
<1>3. BufferInv /\ p <= Len(mem) /\ r_use \in Int
  BY <1>1 DEF TextInv, BufferInv
<1>4. char \in Seq(Bytes) \ {None} /\ (char \in {<<c>> : c \in ASCII} => char = <<"a">>)
  BY <1>1, <1>3, DisplayedIs, Zenon
<1>5. Where(l, char)
  <2> HIDE DEF char
  <2> QED BY <1>3, SlotIs
<1>6. renders \in BOOLEAN
  BY Zenon DEF TTF_to_Bitmap, Kept
<1> HIDE DEF char, l, renders
<1>7. l \in 0 .. Slots
  BY <1>5, NumbersAssumption DEF Where, Pool
<1>8. l = 0 => char = <<"a">>
  <2>1. 0 \notin Pool
    BY DEF Pool
  <2> QED BY <1>4, <1>5, <2>1, Zenon DEF Where
<1> QED BY <1>2, <1>4, <1>5, <1>6, <1>7, <1>8, Zenon

\* A character drawn leaves the cache one: the slot is the only one that has it.
LEMMA PutsKeepsCache ==
  ASSUME CacheInv, r_use \in Int, NEW char \in Seq(Bytes) \ {None}, NEW l \in 0 .. Slots,
         NEW renders \in BOOLEAN, Where(l, char), l = 0 => char = <<"a">>, Puts(l, char, renders)
  PROVE  CacheInv'
<1> DEFINE new == NewSlot(l, char, renders)
<1>1. data \in [0 .. Slots -> Slot] /\ data' = [data EXCEPT ![l] = new]
  BY Zenon DEF CacheInv, Puts
<1>2. /\ new.ttf = (IF renders THEN char ELSE data[l].ttf) /\ new.drawn = renders
      /\ new.picture = (IF renders THEN char ELSE None)
  BY DEF NewSlot
<1>3. new \in Slot
  <2>1. data[l] \in Slot
    BY <1>1
  <2>2. data[l].ttf \in Seq(Bytes)
    BY <2>1 DEF Slot
  <2>3. None \in Seq(Bytes)
    BY DEF None
  <2>4. (IF renders THEN char ELSE data[l].ttf) \in Seq(Bytes) /\ (IF renders THEN char ELSE None) \in Seq(Bytes)
    BY <2>2, <2>3, Zenon
  <2> QED BY <2>4, Zenon DEF NewSlot, Slot
<1> HIDE DEF new
<1>4. data'[l] = new /\ \A s \in 0 .. Slots : s # l => data'[s] = data[s]
  BY <1>1
<1>5. data' \in [0 .. Slots -> Slot]
  BY <1>1, <1>3
<1>6. Pool \subseteq 0 .. Slots /\ 0 \notin Pool /\ 0 \in 0 .. Slots
  BY NumbersAssumption DEF Pool
<1>7. \A s \in 0 .. Slots :
        IF data'[s].drawn THEN data'[s].picture = data'[s].ttf /\ data'[s].ttf # None
        ELSE data'[s].picture = None
  <2> SUFFICES ASSUME NEW s \in 0 .. Slots
               PROVE  IF data'[s].drawn THEN data'[s].picture = data'[s].ttf /\ data'[s].ttf # None
                      ELSE data'[s].picture = None
    OBVIOUS
  <2>1. CASE s = l
    <3>1. data'[s] = new /\ char # None
      BY <1>4, <2>1, Zenon
    <3>2. CASE renders
      BY <1>2, <3>1, <3>2, Zenon
    <3>3. CASE ~renders
      BY <1>2, <3>1, <3>3, Zenon
    <3> QED BY <3>2, <3>3
  <2>2. CASE s # l
    BY <1>4, <2>2, Zenon DEF CacheInv
  <2> QED BY <2>1, <2>2
<1>8. data'[0].ttf \in {None, <<"a">>}
  <2>1. data[0].ttf \in {None, <<"a">>}
    BY Zenon DEF CacheInv
  <2>2. CASE l = 0
    <3>1. data'[0].ttf = IF renders THEN char ELSE data[0].ttf
      BY <1>2, <1>4, <2>2, Zenon
    <3>2. char = <<"a">>
      BY <2>2
    <3> QED BY <2>1, <3>1, <3>2, Zenon
  <2>3. CASE l # 0
    BY <1>4, <1>6, <2>1, <2>3, Zenon
  <2> QED BY <2>2, <2>3, Zenon
<1>9. \A i, j \in Pool : data[i].ttf = data[j].ttf /\ i # j => data[i].ttf = None
  BY Zenon DEF CacheInv
\* Only the slot that is drawn from gets the character.
<1>10. \A k \in Pool : l \in Pool /\ k # l => data[k].ttf # char
  <2>1. CASE l \in Pool /\ data[l].ttf = char
    BY <1>9, <2>1, Zenon
  <2>2. CASE \A k \in Pool : data[k].ttf # char
    BY <2>2, Zenon
  <2> QED BY <1>6, <2>1, <2>2, Zenon DEF Where
<1>11. ASSUME NEW i \in Pool, NEW j \in Pool, data'[i].ttf = data'[j].ttf, i # j
       PROVE  data'[i].ttf = None
  <2>1. i \in 0 .. Slots /\ j \in 0 .. Slots
    BY <1>6
  <2>2. ASSUME NEW k \in Pool, k # l PROVE data'[k].ttf = data[k].ttf /\ k \in 0 .. Slots
    BY <1>4, <1>6, <2>2, Zenon
  <2>3. CASE i # l /\ j # l
    BY <1>9, <1>11, <2>2, <2>3, Zenon
  <2>4. CASE ~renders
    <3>1. new.ttf = data[l].ttf
      BY <1>2, <2>4, Zenon
    <3>2. data'[i].ttf = data[i].ttf /\ data'[j].ttf = data[j].ttf
      BY <1>4, <2>2, <3>1, Zenon
    <3> QED BY <1>9, <1>11, <3>2, Zenon
  <2>5. CASE renders /\ i = l
    <3>1. data'[i].ttf = char /\ data'[j].ttf = data[j].ttf
      BY <1>2, <1>4, <1>11, <2>2, <2>5, Zenon
    <3> QED BY <1>10, <1>11, <2>5, <3>1, Zenon
  <2>6. CASE renders /\ j = l
    <3>1. data'[j].ttf = char /\ data'[i].ttf = data[i].ttf
      BY <1>2, <1>4, <1>11, <2>2, <2>6, Zenon
    <3> QED BY <1>10, <1>11, <2>6, <3>1, Zenon
  <2> QED BY <2>3, <2>4, <2>5, <2>6, Zenon
<1> QED BY <1>5, <1>7, <1>8, <1>11, Zenon DEF CacheInv

\* When a character that no slot has is asked for and every slot is taken by another one
\* asked for, more are asked for than there are slots.
LEMMA TooManyAsked ==
  ASSUME CacheInv, NEW A, IsFiniteSet(A), NEW char \in A,
         \A s \in Pool : data[s].ttf \in A /\ data[s].ttf # char /\ data[s].ttf # None
  PROVE  ~(Cardinality(A) <= Slots)
<1> SUFFICES ASSUME Cardinality(A) <= Slots PROVE FALSE
  OBVIOUS
<1> DEFINE B == A \ {char}
           f == [s \in Pool |-> data[s].ttf]
<1>1. Slots \in Nat \ {0}
  BY NumbersAssumption
<1>2. IsFiniteSet(Pool) /\ Cardinality(Pool) = Slots
  BY <1>1, FS_Interval DEF Pool
<1>3. IsFiniteSet(B) /\ Cardinality(B) = Cardinality(A) - 1 /\ Cardinality(A) \in Nat
  BY FS_RemoveElement, FS_CardinalityType
<1>4. f \in [Pool -> B]
  OBVIOUS
<1>5. Cardinality(B) < Cardinality(Pool)
  BY <1>1, <1>2, <1>3
<1> HIDE DEF B, f
<1>6. PICK x \in Pool, y \in Pool : x # y /\ f[x] = f[y]
  BY <1>2, <1>3, <1>4, <1>5, FS_PigeonHole
<1>7. data[x].ttf = data[y].ttf
  BY <1>6 DEF f
<1> QED BY <1>6, <1>7, Zenon DEF CacheInv

\* A picture in the frame is not overwritten, unless too many are asked for.
LEMMA NoneOverwritten ==
  ASSUME CacheInv, FrameInv, NEW char, NEW l \in 0 .. Slots, Where(l, char),
         l = 0 => char = <<"a">>, NEW A, IsFiniteSet(A), Asked \subseteq A,
         char # <<"a">> => char \in A, Cardinality(Asked) <= Slots, Cardinality(A) <= Slots,
         NEW f \in frame, f[1] = l
  PROVE  Kept(l, char) /\ f[2] = char
<1>1. f \in (-1 .. Slots) \X (Seq(Bytes) \ {None}) /\ l # -1
  <2>1. f \in (-1 .. Slots) \X (Seq(Bytes) \ {None})
    BY Zenon DEF FrameInv
  <2> QED BY <2>1, NumbersAssumption
<1>2. data[l].picture = f[2] /\ data[l].used /\ f[2] # None
  <2>1. f[2] # None
    BY <1>1
  <2> QED BY <1>1, <2>1, Zenon DEF FrameInv
<1>3. data[l].drawn /\ data[l].picture = data[l].ttf /\ data[l].ttf # None
  BY <1>2, Zenon DEF CacheInv
<1>4. ~Free(l)
  BY <1>2, <1>3, Zenon DEF Free
<1>5. CASE l = 0
  <2>1. data[0].ttf = <<"a">>
    BY <1>3, <1>5, Zenon DEF CacheInv
  <2> QED BY <1>2, <1>3, <1>5, <2>1, Zenon DEF Kept
<1>6. CASE data[l].ttf = char
  BY <1>2, <1>3, <1>6, Zenon DEF Kept
<1>7. CASE /\ char \notin {<<c>> : c \in ASCII} /\ \A k \in Pool : data[k].ttf # char
           /\ \A s \in Pool : ~Free(s)
  <2>1. "a" \in ASCII
    BY Zenon DEF ASCII
  <2>2. char \in A
    BY <1>7, <2>1, Zenon
  <2>3. ASSUME NEW s \in Pool
        PROVE  data[s].ttf \in A /\ data[s].ttf # char /\ data[s].ttf # None
    <3>1. data[s].drawn /\ data[s].used /\ data[s].ttf # char
      BY <1>7, Zenon DEF Free
    <3>2. data[s].ttf \in Asked
      BY <3>1, Zenon DEF FrameInv
    <3>3. s \in 0 .. Slots
      BY DEF Pool
    <3>4. data[s].ttf # None
      BY <3>1, <3>3, Zenon DEF CacheInv
    <3> QED BY <3>1, <3>2, <3>4
  <2> QED BY <2>2, <2>3, TooManyAsked, Zenon
<1> QED BY <1>4, <1>5, <1>6, <1>7, Zenon DEF Where

\* A character drawn leaves the pictures of the frame where they are.
LEMMA PutsKeepsFrame ==
  ASSUME CacheInv, FrameInv, NEW char \in Seq(Bytes) \ {None}, NEW l \in 0 .. Slots,
         NEW renders \in BOOLEAN, Where(l, char), l = 0 => char = <<"a">>, Puts(l, char, renders),
         "init_ttf_table" \in Calls => "reset_ttf_frame" \in Calls
  PROVE  FrameInv'
<1> DEFINE new == NewSlot(l, char, renders)
           put == <<IF renders THEN l ELSE -1, char>>
<1>1. data \in [0 .. Slots -> Slot] /\ data' = [data EXCEPT ![l] = new] /\ frame' = frame \cup {put}
  BY Zenon DEF CacheInv, Puts
<1>2. /\ new.ttf = (IF renders THEN char ELSE data[l].ttf) /\ new.drawn = renders /\ new.used = TRUE
      /\ new.picture = (IF renders THEN char ELSE None)
  BY DEF NewSlot
<1>3. put[1] = (IF renders THEN l ELSE -1) /\ put[2] = char
  OBVIOUS
<1>4. put \in (-1 .. Slots) \X (Seq(Bytes) \ {None}) /\ (put[1] = 0 => put[2] = <<"a">>)
  <2>1. (IF renders THEN l ELSE -1) \in -1 .. Slots
    BY NumbersAssumption
  <2> QED BY <2>1
<1> HIDE DEF new, put
<1>5. data'[l] = new /\ \A s \in 0 .. Slots : s # l => data'[s] = data[s]
  BY <1>1
<1>6. Pool \subseteq 0 .. Slots /\ 0 \notin Pool /\ -1 \notin 0 .. Slots
      /\ \A i \in -1 .. Slots : i # -1 => i \in 0 .. Slots
  BY NumbersAssumption DEF Pool
<1>7. Asked' = IF char = <<"a">> THEN Asked ELSE Asked \cup {char}
  BY <1>1, <1>3 DEF Asked
<1>8. /\ IsFiniteSet(Asked') /\ Asked \subseteq Asked' /\ Cardinality(Asked) <= Cardinality(Asked')
      /\ char # <<"a">> => char \in Asked'
  <2>1. IsFiniteSet(Asked)
    BY Zenon DEF FrameInv
  <2>2. Cardinality(Asked) \in Nat
    BY <2>1, FS_CardinalityType
  <2>3. /\ IsFiniteSet(Asked \cup {char})
        /\ Cardinality(Asked \cup {char}) =
             IF char \in Asked THEN Cardinality(Asked) ELSE Cardinality(Asked) + 1
    BY <2>1, FS_AddElement, Zenon
  <2>4. Cardinality(Asked) <= Cardinality(Asked \cup {char})
    BY <2>2, <2>3
  <2>5. CASE char = <<"a">>
    <3>1. Asked' = Asked
      BY <1>7, <2>5, Zenon
    <3>2. Cardinality(Asked) <= Cardinality(Asked)
      BY <2>2
    <3> QED BY <2>1, <2>5, <3>1, <3>2, Zenon
  <2>6. CASE char # <<"a">>
    <3>1. Asked' = Asked \cup {char}
      BY <1>7, <2>6, Zenon
    <3>2. Asked \subseteq Asked \cup {char} /\ char \in Asked \cup {char}
      BY Zenon
    <3> QED BY <2>3, <2>4, <3>1, <3>2, Zenon
  <2> QED BY <2>5, <2>6
<1>9. Cardinality(Asked') <= Slots => Cardinality(Asked) <= Slots
  <2>1. Cardinality(Asked) \in Nat /\ Cardinality(Asked') \in Nat
    BY <1>8, FS_CardinalityType DEF FrameInv
  <2> QED BY <1>8, <2>1, NumbersAssumption
<1>10. ASSUME NEW f \in frame'
       PROVE  /\ f \in (-1 .. Slots) \X (Seq(Bytes) \ {None})
              /\ f[1] = 0 => f[2] = <<"a">>
  <2>1. CASE f \in frame
    BY <2>1, Zenon DEF FrameInv
  <2>2. CASE f = put
    BY <1>4, <2>2, Zenon
  <2> QED BY <1>1, <2>1, <2>2, Zenon
<1>11. ASSUME NEW s \in Pool, data'[s].used, data'[s].drawn PROVE data'[s].ttf \in Asked'
  <2>1. CASE s = l
    <3>1. renders /\ data'[s].ttf = char
      BY <1>2, <1>5, <1>11, <2>1, Zenon
    <3>2. char \notin {<<c>> : c \in ASCII} /\ "a" \in ASCII
      BY <1>6, <2>1, Zenon DEF Where, ASCII
    <3> QED BY <1>8, <3>1, <3>2, Zenon
  <2>2. CASE s # l
    <3>1. data'[s] = data[s]
      BY <1>5, <1>6, <2>2, Zenon
    <3> QED BY <1>8, <1>11, <3>1, Zenon DEF FrameInv
  <2> QED BY <2>1, <2>2
<1>12. ASSUME Cardinality(Asked') <= Slots, NEW f \in frame', f[1] # -1
       PROVE  data'[f[1]].picture = f[2] /\ data'[f[1]].used
  <2>1. CASE f = put
    <3>1. renders /\ f[1] = l /\ f[2] = char
      BY <1>3, <1>12, <2>1, Zenon
    <3> QED BY <1>2, <1>5, <3>1, Zenon
  <2>2. CASE f \in frame /\ f[1] = l
    <3>1. Cardinality(Asked) <= Slots
      BY <1>9, <1>12
    <3>2. Kept(l, char) /\ f[2] = char
      <4> DEFINE A == Asked'
      <4>1. IsFiniteSet(A) /\ Asked \subseteq A /\ (char # <<"a">> => char \in A) /\ Cardinality(A) <= Slots
        BY <1>8, <1>12
      <4> HIDE DEF A
      <4> QED BY <2>2, <3>1, <4>1, NoneOverwritten, Zenon
    <3>3. renders
      BY <3>2, Zenon DEF Puts
    <3> QED BY <1>2, <1>5, <2>2, <3>2, <3>3, Zenon
  <2>3. CASE f \in frame /\ f[1] # l
    <3>1. f \in (-1 .. Slots) \X (Seq(Bytes) \ {None})
      BY <2>3, Zenon DEF FrameInv
    <3>2. f[1] \in -1 .. Slots
      BY <3>1
    <3>3. data'[f[1]] = data[f[1]]
      BY <1>5, <1>6, <1>12, <2>3, <3>2, Zenon
    <3> QED BY <1>9, <1>12, <2>3, <3>3, Zenon DEF FrameInv
  <2> QED BY <1>1, <2>1, <2>2, <2>3, Zenon
<1>13. "reset_ttf_frame" \in Calls
  BY Zenon DEF FrameInv, Puts, Kept
<1> QED BY <1>8, <1>10, <1>11, <1>12, <1>13, Zenon DEF FrameInv

\* Any other step leaves the cache and the frame alone, but for the flip.
LEMMA OtherSteps ==
  ASSUME Ask \/ ReadsBehind \/ DrawHeader \/ DrawGameList \/ DrawUTF8String \/ PassOver \/ EndOfText
  PROVE  UNCHANGED <<data, frame>>
PROOF BY Zenon DEF Ask, ReadsBehind, DrawHeader, DrawGameList, DrawUTF8String, PassOver, EndOfText,
         Cutting, cacheVars

\* The flip gives the slots free but leaves their pictures.
LEMMA FlipKeeps == ASSUME CacheInv, Flip PROVE CacheInv' /\ (FrameInv => FrameInv')
<1>1. frame' = {}
  BY Zenon DEF Flip
<1>2. \/ "reset_ttf_frame" \in Calls
         /\ data' = [s \in DOMAIN data |-> [data[s] EXCEPT !.used = FALSE]]
      \/ "reset_ttf_frame" \notin Calls /\ data' = data
  BY Zenon DEF Flip
<1>3. data \in [0 .. Slots -> Slot]
  BY Zenon DEF CacheInv
<1>4. ASSUME NEW s \in 0 .. Slots
      PROVE  /\ data'[s] \in Slot /\ data'[s].ttf = data[s].ttf /\ data'[s].drawn = data[s].drawn
             /\ data'[s].picture = data[s].picture
             /\ "reset_ttf_frame" \in Calls => ~data'[s].used
  <2>1. data[s] \in Slot
    BY <1>3
  <2>2. CASE data'[s] = [data[s] EXCEPT !.used = FALSE]
    BY <2>1, <2>2 DEF Slot
  <2>3. CASE data' = data /\ "reset_ttf_frame" \notin Calls
    BY <2>1, <2>3, Zenon
  <2>4. CASE data' = [k \in DOMAIN data |-> [data[k] EXCEPT !.used = FALSE]]
    <3>1. s \in DOMAIN data
      BY <1>3
    <3>2. data'[s] = [data[s] EXCEPT !.used = FALSE]
      BY <2>4, <3>1, Zenon
    <3> QED BY <2>2, <3>2
  <2> QED BY <1>2, <2>3, <2>4, Zenon
<1>5. data' \in [0 .. Slots -> Slot]
  <2>1. DOMAIN data = 0 .. Slots
    BY <1>3
  <2>2. data' = [s \in 0 .. Slots |-> data'[s]]
    BY <1>2, <1>3, <2>1
  <2> QED BY <1>4, <2>2
<1>6. Pool \subseteq 0 .. Slots /\ 0 \in 0 .. Slots
  BY NumbersAssumption DEF Pool
<1>7. CacheInv'
  <2>1. \A s \in 0 .. Slots :
          IF data'[s].drawn THEN data'[s].picture = data'[s].ttf /\ data'[s].ttf # None
          ELSE data'[s].picture = None
    BY <1>4, Zenon DEF CacheInv
  <2>2. data'[0].ttf \in {None, <<"a">>}
    BY <1>4, <1>6, Zenon DEF CacheInv
  <2>3. \A i, j \in Pool : data'[i].ttf = data'[j].ttf /\ i # j => data'[i].ttf = None
    <3>1. \A i \in Pool : data'[i].ttf = data[i].ttf
      BY <1>4, <1>6, Zenon
    <3> QED BY <3>1, Zenon DEF CacheInv
  <2> QED BY <1>5, <2>1, <2>2, <2>3, Zenon DEF CacheInv
<1>8. ASSUME FrameInv PROVE FrameInv'
  <2>1. Asked' = {}
    BY <1>1 DEF Asked
  <2>2. IsFiniteSet(Asked')
    BY <2>1, FS_EmptySet, Zenon
  <2>3. ASSUME NEW s \in Pool, data'[s].used, data'[s].drawn PROVE FALSE
    BY <1>4, <1>6, <1>8, <2>3, Zenon DEF FrameInv
  <2>4. "reset_ttf_frame" \in Calls \/ \A s \in 0 .. Slots : ~data'[s].drawn
    BY <1>4, <1>8, Zenon DEF FrameInv
  <2> QED BY <1>1, <2>2, <2>3, <2>4, Zenon DEF FrameInv
<1> QED BY <1>7, <1>8

\* In the beginning the cache is empty.
LEMMA CacheInit == Init => CacheInv /\ FrameInv
<1> SUFFICES ASSUME Init PROVE CacheInv /\ FrameInv
  OBVIOUS
<1>1. data = [s \in 0 .. Slots |-> Empty] /\ frame = {}
  BY Zenon DEF Init
<1>2. Empty \in Slot /\ Empty.ttf = None /\ Empty.drawn = FALSE /\ Empty.picture = None
  BY DEF Empty, Slot, None
<1>3. \A s \in 0 .. Slots : data[s] = Empty
  BY <1>1, Zenon
<1>4. Pool \subseteq 0 .. Slots /\ 0 \in 0 .. Slots
  BY NumbersAssumption DEF Pool
<1>5. data \in [0 .. Slots -> Slot]
  BY <1>1, <1>2
<1>6. CacheInv
  <2>1. \A s \in 0 .. Slots : data[s].ttf = None /\ ~data[s].drawn /\ data[s].picture = None
    BY <1>2, <1>3, Zenon
  <2> QED BY <1>4, <1>5, <2>1, Zenon DEF CacheInv
<1>7. FrameInv
  <2>1. Asked = {}
    BY <1>1 DEF Asked
  <2>2. IsFiniteSet(Asked)
    BY <2>1, FS_EmptySet, Zenon
  <2>3. \A s \in 0 .. Slots : ~data[s].drawn
    BY <1>2, <1>3, Zenon
  <2> QED BY <1>1, <1>4, <2>2, <2>3, Zenon DEF FrameInv
<1> QED BY <1>6, <1>7

\* Every step keeps the cache one.
LEMMA CacheNext == TextInv /\ CacheInv /\ [Next]_vars => CacheInv'
<1> SUFFICES ASSUME TextInv, CacheInv, [Next]_vars PROVE CacheInv'
  OBVIOUS
<1>1. CASE UNCHANGED <<data, frame>>
  BY <1>1 DEF CacheInv
<1>2. CASE DrawGlyph
  <2>1. r_use \in Int /\ data \in [0 .. Slots -> Slot]
    BY DEF TextInv, CacheInv
  <2>2. CASE \E char \in Seq(Bytes) \ {None} : \E l \in 0 .. Slots : \E renders \in BOOLEAN :
               /\ Where(l, char) /\ (l = 0 => char = <<"a">>)
               /\ Puts(l, char, renders)
    BY <2>1, <2>2, PutsKeepsCache, Zenon
  <2> QED BY <1>1, <1>2, <2>1, <2>2, DrawGlyphIs, Zenon
<1>3. CASE Flip
  BY <1>3, FlipKeeps, Zenon
<1>4. CASE UNCHANGED vars
  BY <1>1, <1>4, Zenon DEF vars, cacheVars
<1>5. CASE Ask \/ ReadsBehind \/ DrawHeader \/ DrawGameList \/ DrawUTF8String \/ PassOver \/ EndOfText
  BY <1>1, <1>5, OtherSteps, Zenon
<1> QED BY <1>2, <1>3, <1>4, <1>5, Zenon DEF Next, DrawStep

\* Every step leaves the pictures of the frame where they are, if the program that makes
\* the textures also resets the frames.
LEMMA FrameNext ==
  ASSUME "init_ttf_table" \in Calls => "reset_ttf_frame" \in Calls, TextInv, CacheInv, FrameInv,
         [Next]_vars
  PROVE  FrameInv'
<1>1. CASE UNCHANGED <<data, frame>>
  BY <1>1 DEF FrameInv, Asked
<1>2. CASE DrawGlyph
  <2>1. data \in [0 .. Slots -> Slot]
    BY Zenon DEF CacheInv
  <2>2. CASE \E char \in Seq(Bytes) \ {None} : \E l \in 0 .. Slots : \E renders \in BOOLEAN :
               /\ Where(l, char) /\ (l = 0 => char = <<"a">>)
               /\ Puts(l, char, renders)
    BY <2>2, PutsKeepsFrame, Zenon
  <2> QED BY <1>1, <1>2, <2>1, <2>2, DrawGlyphIs, Zenon
<1>3. CASE Flip
  BY <1>3, FlipKeeps, Zenon
<1>4. CASE UNCHANGED vars
  BY <1>1, <1>4, Zenon DEF vars, cacheVars
<1>5. CASE Ask \/ ReadsBehind \/ DrawHeader \/ DrawGameList \/ DrawUTF8String \/ PassOver \/ EndOfText
  BY <1>1, <1>5, OtherSteps, Zenon
<1> QED BY <1>2, <1>3, <1>4, <1>5, Zenon DEF Next, DrawStep

-----------------------------------------------------------------------------
(* A well-formed text is read within its buffer                            *)

\* Whether a text is well formed from byte i on, f saying so for the bytes behind it.
Ahead(f, s, i) ==
  \/ i > Len(s)
  \/ LET n == utf8_char_len(s[i])
     IN  /\ n > 0 /\ i + n - 1 <= Len(s)
         /\ \A k \in i + 1 .. i + n - 1 : s[k] \in Continues
         /\ f[i + n]
ValidFrom(s) == CHOOSE f : f = [i \in Nat |-> Ahead(f, s, i)]

\* A first byte promises at most four.
LEMMA CharLen == ASSUME NEW c PROVE utf8_char_len(c) \in 0 .. 4
PROOF BY DEF utf8_char_len

\* The bytes behind a byte say all there is to say of those before it.
LEMMA AheadSame ==
  ASSUME NEW s, Len(s) \in Nat, NEW i \in Nat, NEW f, NEW g, \A j \in Nat : j > i => f[j] = g[j]
  PROVE  Ahead(f, s, i) = Ahead(g, s, i)
<1> DEFINE n == utf8_char_len(s[i])
           Rest(x) == /\ i + n - 1 <= Len(s)
                      /\ \A k \in i + 1 .. i + n - 1 : s[k] \in Continues
                      /\ x
<1>1. n \in 0 .. 4
  BY CharLen
<1>2. /\ Ahead(f, s, i) = (i > Len(s) \/ (n > 0 /\ Rest(f[i + n])))
      /\ Ahead(g, s, i) = (i > Len(s) \/ (n > 0 /\ Rest(g[i + n])))
  BY Zenon DEF Ahead
<1> HIDE DEF n
<1>3. n > 0 => f[i + n] = g[i + n]
  BY <1>1
<1> HIDE DEF Rest
<1>4. CASE n > 0
  <2>1. f[i + n] = g[i + n]
    BY <1>3, <1>4
  <2>2. Rest(f[i + n]) = Rest(g[i + n])
    BY <2>1
  <2> QED BY <1>2, <2>2
<1>5. CASE ~(n > 0)
  BY <1>2, <1>5
<1> QED BY <1>4, <1>5

\* The definition of utf8_is_valid from the end of the text to its beginning.
LEMMA ValidIs ==
  ASSUME NEW s, Len(s) \in Nat
  PROVE  /\ utf8_is_valid(s) = ValidFrom(s)[1]
         /\ \A i \in Nat : ValidFrom(s)[i] = Ahead(ValidFrom(s), s, i)
<1> DEFINE len == Len(s)
           Upto(f, k) == /\ f = [i \in Nat |-> f[i]]
                         /\ \A i \in Nat : i > len - k => f[i] = Ahead(f, s, i)
           Can == {k \in Nat : \E f : Upto(f, k)}
<1>1. 0 \in Can
  <2> DEFINE f == [i \in Nat |-> TRUE]
  <2>1. f = [i \in Nat |-> f[i]]
    OBVIOUS
  <2>2. ASSUME NEW i \in Nat, i > len PROVE f[i] = TRUE /\ Ahead(f, s, i) = TRUE
    <3>1. f[i] = TRUE
      OBVIOUS
    <3> HIDE DEF f
    <3> QED BY <2>2, <3>1, Zenon DEF Ahead
  <2> HIDE DEF f
  <2>3. \A i \in Nat : i > len - 0 => i > len
    OBVIOUS
  <2>4. Upto(f, 0)
    BY <2>1, <2>2, <2>3, Zenon
  <2> QED BY <2>4, Zenon
<1>2. ASSUME NEW k \in Nat, k \in Can PROVE k + 1 \in Can
  <2>1. PICK f : Upto(f, k)
    BY <1>2
  <2> DEFINE at == len - k
             g == [i \in Nat |-> IF i = at THEN Ahead(f, s, at) ELSE f[i]]
  <2>2. at \in Int
    OBVIOUS
  <2>3. ASSUME NEW i \in Nat, i > len - (k + 1) PROVE g[i] = Ahead(g, s, i)
    <3>1. \A j \in Nat : j > i => g[j] = f[j]
      <4>1. \A j \in Nat : j > i => j # at
        BY <2>3
      <4> QED BY <4>1, Zenon
    <3>2. Ahead(g, s, i) = Ahead(f, s, i)
      <4> HIDE DEF g
      <4> QED BY <3>1, AheadSame
    <3>3. CASE i = at
      <4>1. g[i] = Ahead(f, s, i)
        BY <3>3, Zenon
      <4> QED BY <3>2, <4>1, Zenon
    <3>4. CASE i # at
      <4>1. i > at
        BY <2>3, <3>4
      <4>2. g[i] = f[i]
        BY <3>4, Zenon
      <4>3. f[i] = Ahead(f, s, i)
        BY <2>1, <4>1, Zenon
      <4> QED BY <3>2, <4>2, <4>3, Zenon
    <3> QED BY <3>3, <3>4
  <2>4. g = [i \in Nat |-> g[i]]
    BY Zenon
  <2> HIDE DEF g
  <2>5. Upto(g, k + 1)
    BY <2>3, <2>4, Zenon
  <2> QED BY <2>5, k + 1 \in Nat, Zenon
<1>3. Nat \subseteq Can
  <2> HIDE DEF Can
  <2> QED BY <1>1, <1>2, NatInd
<1>4. PICK f : Upto(f, len + 1)
  <2>1. len + 1 \in Can
    <3> HIDE DEF Can
    <3> QED BY <1>3
  <2> QED BY <2>1, Zenon
<1>5. \A i \in Nat : i > len - (len + 1)
  OBVIOUS
<1>6. f = [i \in Nat |-> Ahead(f, s, i)]
  <2>1. \A i \in Nat : f[i] = Ahead(f, s, i)
    BY <1>4, <1>5, Zenon
  <2>2. [i \in Nat |-> f[i]] = [i \in Nat |-> Ahead(f, s, i)]
    BY <2>1, Zenon
  <2> QED BY <1>4, <2>2, Zenon
<1>7. ValidFrom(s) = [i \in Nat |-> Ahead(ValidFrom(s), s, i)]
  BY <1>6, Zenon DEF ValidFrom
<1>8. utf8_is_valid(s) = ValidFrom(s)[1]
  BY Zenon DEF utf8_is_valid, ValidFrom, Ahead
<1>9. \A i \in Nat : ValidFrom(s)[i] = Ahead(ValidFrom(s), s, i)
  BY <1>7, Zenon
<1> QED BY <1>8, <1>9

\* What a loop over utf8_decode sees from byte i on, f saying so for the bytes behind it.
Seen(f, m, i) ==
  IF LeavesBuffer(m, i) THEN [codes |-> <<>>, left |-> TRUE]
  ELSE IF m[i] = NUL THEN [codes |-> <<>>, left |-> FALSE]
  ELSE [f[i + Taken(m[i])] EXCEPT !.codes = <<utf8_decode(m, i)>> \o @]
SeenFrom(m) == CHOOSE f : f = [i \in Nat |-> Seen(f, m, i)]

\* The bytes behind a byte say all there is to say of those before it.
LEMMA SeenSame ==
  ASSUME NEW m, NEW i \in Nat, NEW f, NEW g, \A j \in Nat : j > i => f[j] = g[j]
  PROVE  Seen(f, m, i) = Seen(g, m, i)
<1> DEFINE n == Taken(m[i])
<1>1. n \in 1 .. 4
  BY TakenIs
<1> HIDE DEF n
<1>2. f[i + n] = g[i + n]
  BY <1>1
<1> QED BY <1>2, Zenon DEF Seen, n

\* The definition of Decoded from the end of the buffer to its beginning.
LEMMA DecodedFrom ==
  ASSUME NEW m, Len(m) \in Nat
  PROVE  /\ Decoded(m) = SeenFrom(m)[1]
         /\ \A i \in Nat : SeenFrom(m)[i] = Seen(SeenFrom(m), m, i)
<1> DEFINE len == Len(m)
           end == [codes |-> <<>>, left |-> TRUE]
           Upto(f, k) == /\ f = [i \in Nat |-> f[i]]
                         /\ \A i \in Nat : i > len - k => f[i] = Seen(f, m, i)
           Can == {k \in Nat : \E f : Upto(f, k)}
<1>1. 0 \in Can
  <2> DEFINE f == [i \in Nat |-> end]
  <2>1. f = [i \in Nat |-> f[i]]
    OBVIOUS
  <2>2. ASSUME NEW i \in Nat, i > len PROVE f[i] = Seen(f, m, i)
    <3>1. f[i] = end
      BY Zenon
    <3> HIDE DEF f
    <3> QED BY <2>2, <3>1, Zenon DEF Seen, LeavesBuffer
  <2> HIDE DEF f
  <2>3. \A i \in Nat : i > len - 0 => i > len
    OBVIOUS
  <2>4. Upto(f, 0)
    BY <2>1, <2>2, <2>3, Zenon
  <2> QED BY <2>4, Zenon
<1>2. ASSUME NEW k \in Nat, k \in Can PROVE k + 1 \in Can
  <2>1. PICK f : Upto(f, k)
    BY <1>2
  <2> DEFINE at == len - k
             g == [i \in Nat |-> IF i = at THEN Seen(f, m, at) ELSE f[i]]
  <2>2. at \in Int
    OBVIOUS
  <2>3. ASSUME NEW i \in Nat, i > len - (k + 1) PROVE g[i] = Seen(g, m, i)
    <3>1. \A j \in Nat : j > i => g[j] = f[j]
      <4>1. \A j \in Nat : j > i => j # at
        BY <2>3
      <4> QED BY <4>1, Zenon
    <3>2. Seen(g, m, i) = Seen(f, m, i)
      <4> HIDE DEF g
      <4> QED BY <3>1, SeenSame
    <3>3. CASE i = at
      <4>1. g[i] = Seen(f, m, i)
        BY <3>3, Zenon
      <4> QED BY <3>2, <4>1, Zenon
    <3>4. CASE i # at
      <4>1. i > at
        BY <2>3, <3>4
      <4>2. g[i] = f[i]
        BY <3>4, Zenon
      <4>3. f[i] = Seen(f, m, i)
        BY <2>1, <4>1, Zenon
      <4> QED BY <3>2, <4>2, <4>3, Zenon
    <3> QED BY <3>3, <3>4
  <2>4. g = [i \in Nat |-> g[i]]
    BY Zenon
  <2> HIDE DEF g
  <2>5. Upto(g, k + 1)
    BY <2>3, <2>4, Zenon
  <2> QED BY <2>5, k + 1 \in Nat, Zenon
<1>3. Nat \subseteq Can
  <2> HIDE DEF Can
  <2> QED BY <1>1, <1>2, NatInd
<1>4. PICK f : Upto(f, len + 1)
  <2>1. len + 1 \in Can
    <3> HIDE DEF Can
    <3> QED BY <1>3
  <2> QED BY <2>1, Zenon
<1>5. \A i \in Nat : i > len - (len + 1)
  OBVIOUS
<1>6. f = [i \in Nat |-> Seen(f, m, i)]
  <2>1. \A i \in Nat : f[i] = Seen(f, m, i)
    BY <1>4, <1>5, Zenon
  <2>2. [i \in Nat |-> f[i]] = [i \in Nat |-> Seen(f, m, i)]
    BY <2>1, Zenon
  <2> QED BY <1>4, <2>2, Zenon
<1>7. SeenFrom(m) = [i \in Nat |-> Seen(SeenFrom(m), m, i)]
  BY <1>6, Zenon DEF SeenFrom
<1>8. Decoded(m) = SeenFrom(m)[1]
  BY Zenon DEF Decoded, SeenFrom, Seen
<1>9. \A i \in Nat : SeenFrom(m)[i] = Seen(SeenFrom(m), m, i)
  BY <1>7, Zenon
<1> QED BY <1>8, <1>9

\* The buffer of a text, of which any bytes may have been overwritten with NULs.
HoldsText ==
  /\ text \in Seq(Bytes \ {NUL}) /\ Len(mem) = Len(text) + 1 /\ mem[Len(mem)] = NUL
  /\ \A j \in 1 .. Len(text) : mem[j] \in {text[j], NUL}

\* From the first byte of a character the decoder gets to the first byte of the next,
\* or behind the last, and stays in the buffer.
LEMMA DecodesOn ==
  ASSUME HoldsText, NEW i \in 1 .. Len(text) + 1, ValidFrom(text)[i], mem[i] # NUL
  PROVE  /\ ~LeavesBuffer(mem, i)
         /\ i + Taken(mem[i]) \in i + 1 .. Len(text) + 1
         /\ ValidFrom(text)[i + Taken(mem[i])]
<1> DEFINE n == utf8_char_len(text[i])
<1>1. Len(text) \in Nat
  BY DEF HoldsText
<1>2. i \in 1 .. Len(text) /\ mem[i] = text[i]
  BY <1>1 DEF HoldsText
<1>3. n \in 0 .. 4
  BY CharLen
<1>4. Ahead(ValidFrom(text), text, i)
  <2>1. i \in Nat
    BY <1>2
  <2> QED BY <1>1, <2>1, ValidIs, Zenon
<1>5. ~(i > Len(text))
  BY <1>1, <1>2
<1>6. n > 0 /\ i + n - 1 <= Len(text) /\ ValidFrom(text)[i + n]
  BY <1>4, <1>5, Zenon DEF Ahead
<1>7. Taken(mem[i]) = n
  <2>1. n # 0
    BY <1>3, <1>6
  <2> QED BY <1>2, <2>1, Zenon DEF Taken
<1> HIDE DEF n
<1>8. i + n \in i + 1 .. Len(text) + 1
  BY <1>1, <1>2, <1>3, <1>6
<1>9. ~(i > Len(mem)) /\ ~(i + n - 1 > Len(mem))
  BY <1>1, <1>2, <1>3, <1>6 DEF HoldsText
<1>10. ~LeavesBuffer(mem, i)
  BY <1>7, <1>9, Zenon DEF LeavesBuffer
<1> QED BY <1>6, <1>7, <1>8, <1>10, Zenon

\* WidthFromUTF8 reads no well-formed text behind its buffer.
LEMMA NeverLeft ==
  ASSUME HoldsText, utf8_is_valid(text)
  PROVE  ~Decoded(mem).left
<1> DEFINE seen == SeenFrom(mem)
           end == Len(text) + 1
           Inside(i) == ValidFrom(text)[i] => "left" \in DOMAIN seen[i] /\ seen[i].left = FALSE
           Good == {k \in Nat : \A i \in 1 .. end : i >= end - k => Inside(i)}
<1>1. Len(text) \in Nat /\ Len(mem) \in Nat /\ Len(mem) = end /\ mem[end] = NUL
  BY DEF HoldsText
<1>2. \A i \in Nat : seen[i] = Seen(seen, mem, i)
  BY <1>1, DecodedFrom
<1>3. Decoded(mem) = seen[1] /\ utf8_is_valid(text) = ValidFrom(text)[1]
  BY <1>1, DecodedFrom, ValidIs
<1> HIDE DEF seen
<1>4. ASSUME NEW i \in 1 .. end, mem[i] = NUL, ~LeavesBuffer(mem, i) PROVE Inside(i)
  <2>0. i \in Nat
    BY <1>1
  <2>1. seen[i] = [codes |-> <<>>, left |-> FALSE]
    BY <1>2, <1>4, <2>0, Zenon DEF Seen
  <2> QED BY <2>1
<1>5. ASSUME NEW i \in 1 .. end, mem[i] = NUL PROVE ~LeavesBuffer(mem, i)
  <2>1. ~(i > Len(mem))
    BY <1>1
  <2> QED BY <1>5, <2>1, Zenon DEF LeavesBuffer
<1>6. 0 \in Good
  <2>1. \A i \in 1 .. end : i >= end - 0 => i = end
    BY <1>1
  <2>2. end \in 1 .. end
    BY <1>1
  <2>3. Inside(end)
    <3> HIDE DEF end, Inside
    <3> QED BY <1>1, <1>4, <1>5, <2>2, Zenon
  <2> HIDE DEF Inside
  <2> QED BY <2>1, <2>3
<1>7. ASSUME NEW k \in Nat, k \in Good PROVE k + 1 \in Good
  <2> SUFFICES ASSUME NEW i \in 1 .. end, i >= end - (k + 1), ValidFrom(text)[i], mem[i] # NUL
               PROVE  "left" \in DOMAIN seen[i] /\ seen[i].left = FALSE
    <3>1. ASSUME NEW i \in 1 .. end, i >= end - (k + 1) PROVE Inside(i)
      BY <1>4, <1>5, <3>1, Zenon
    <3> HIDE DEF Inside
    <3> QED BY <3>1
  <2> DEFINE n == i + Taken(mem[i])
  <2>1. ~LeavesBuffer(mem, i) /\ n \in i + 1 .. Len(text) + 1 /\ ValidFrom(text)[n]
    BY DecodesOn, Zenon
  <2> HIDE DEF n
  <2>2. n \in 1 .. end /\ n >= end - k
    BY <1>1, <2>1
  <2>3. "left" \in DOMAIN seen[n] /\ seen[n].left = FALSE
    BY <1>7, <2>1, <2>2, Zenon
  <2>4. seen[i] = [seen[n] EXCEPT !.codes = <<utf8_decode(mem, i)>> \o @]
    <3>1. i \in Nat
      BY <1>1
    <3> QED BY <1>2, <2>1, <3>1, Zenon DEF Seen, n
  <2>5. "left" # "codes"
    OBVIOUS
  <2> QED BY <2>3, <2>4, <2>5
<1>8. end \in Good
  <2> HIDE DEF Good
  <2>1. Nat \subseteq Good
    BY <1>6, <1>7, NatInd
  <2> QED BY <1>1, <2>1
<1>9. Inside(1)
  <2>1. 1 \in 1 .. end /\ 1 >= end - end
    BY <1>1
  <2> HIDE DEF Inside
  <2> QED BY <1>8, <2>1, Zenon
<1> QED BY <1>3, <1>9, Zenon

\* A well-formed text is not undefined, and what draws it from the list is at the first
\* byte of a character, or behind the last.
AtStart(s, i) == i \in 1 .. Len(s) + 1 /\ ValidFrom(s)[i]
ReadInv ==
  /\ HoldsText
  /\ utf8_is_valid(text) => pc # "undefined" /\ (way = "list" => AtStart(text, p))

\* A text is put whole into its buffer.
LEMMA HoldsNew ==
  ASSUME NEW s \in Seq(Bytes \ {NUL})
  PROVE  /\ Len(Append(s, NUL)) = Len(s) + 1 /\ Append(s, NUL)[Len(s) + 1] = NUL
         /\ \A j \in 1 .. Len(s) : Append(s, NUL)[j] = s[j]
         /\ Len(s) \in Nat
PROOF OBVIOUS

\* A well-formed text begins with a first byte, or is empty.
LEMMA StartsWhole ==
  ASSUME NEW s, Len(s) \in Nat, utf8_is_valid(s)
  PROVE  AtStart(s, 1)
<1>1. 1 \in 1 .. Len(s) + 1
  OBVIOUS
<1> QED BY <1>1, ValidIs, Zenon DEF AtStart

\* A step that leaves the text alone, or cuts it.
LEMMA HoldsOn ==
  ASSUME HoldsText, NEW i, mem' = mem \/ mem' = [mem EXCEPT ![i] = NUL], text' = text, BufferInv
  PROVE  HoldsText'
<1>1. CASE mem' = mem
  BY <1>1 DEF HoldsText
<1>2. CASE mem' = [mem EXCEPT ![i] = NUL]
  <2>1. /\ mem \in Seq(Bytes) /\ Len(mem) = Len(text) + 1 /\ Len(text) \in Nat /\ mem[Len(mem)] = NUL
        /\ \A j \in 1 .. Len(text) : mem[j] \in {text[j], NUL}
    BY DEF HoldsText, BufferInv
  <2>2. Len(mem') = Len(mem)
    BY <1>2, <2>1
  <2>3. \A j \in 1 .. Len(mem) : mem'[j] = IF j = i THEN NUL ELSE mem[j]
    BY <1>2, <2>1
  <2>4. mem'[Len(mem)] = NUL /\ \A j \in 1 .. Len(text) : mem'[j] \in {text[j], NUL}
    BY <2>1, <2>3
  <2> QED BY <2>1, <2>2, <2>4 DEF HoldsText
<1> QED BY <1>1, <1>2

\* What is undefined is no well-formed text.
LEMMA ReadNext == TextInv /\ ReadInv /\ [Next]_vars => ReadInv'
<1> SUFFICES ASSUME TextInv, ReadInv, [Next]_vars PROVE ReadInv'
  OBVIOUS
<1>0. HoldsText /\ BufferInv /\ Len(text) \in Nat
  BY DEF ReadInv, TextInv, HoldsText
<1>1. ASSUME UNCHANGED <<text, way, p>>, pc' # "undefined", HoldsText' PROVE ReadInv'
  BY <1>1 DEF ReadInv
<1>2. ASSUME UNCHANGED <<text, mem>>, pc' # "undefined", way' # "list" PROVE ReadInv'
  BY <1>2 DEF ReadInv, HoldsText
<1>3. CASE UNCHANGED vars
  BY <1>3 DEF vars, ReadInv, HoldsText
<1>4. CASE Ask
  <2>1. /\ text' \in Screens[screen].texts[way'] /\ way' \in Ways /\ mem' = Append(text', NUL)
        /\ p' = 1 /\ pc' \in {"cut header", "cut list", "draw"}
    BY <1>4, Zenon DEF Ask
  <2>2. text' \in Seq(Bytes \ {NUL})
    <3>1. Screens[screen].texts[way'] \subseteq Seq(Bytes \ {NUL})
      BY <2>1, ScreensAssumption, Zenon DEF TextInv
    <3> QED BY <2>1, <3>1
  <2>3. HoldsText'
    BY <2>1, <2>2, HoldsNew DEF HoldsText
  <2>4. utf8_is_valid(text') => AtStart(text', 1)
    BY <2>2, StartsWhole
  <2>5. pc' # "undefined"
    BY <2>1
  <2> QED BY <2>1, <2>3, <2>4, <2>5 DEF ReadInv
<1>5. CASE DrawHeader \/ DrawGameList
  <2>1. UNCHANGED <<text, way, p>> /\ pc' \in {"draw", pc} /\ pc \in {"cut header", "cut list"}
    BY <1>5, Zenon DEF DrawHeader, DrawGameList, Cutting
  <2>2. PICK i : mem' = mem \/ mem' = [mem EXCEPT ![i] = NUL]
    BY <1>5, Zenon DEF DrawHeader, DrawGameList
  <2>3. HoldsText'
    BY <1>0, <2>1, <2>2, HoldsOn
  <2>4. pc' # "undefined"
    BY <2>1
  <2> QED BY <1>1, <2>1, <2>3, <2>4
<1>6. CASE ReadsBehind
  <2>1. UNCHANGED <<text, way, p, mem>> /\ Decoded(mem).left
    BY <1>6, Zenon DEF ReadsBehind, Cutting
  <2>2. ~utf8_is_valid(text)
    BY <1>0, <2>1, NeverLeft
  <2> QED BY <2>1, <2>2 DEF ReadInv, HoldsText
<1>7. CASE DrawUTF8String
  <2>1. way = "list" /\ pc = "draw"
    BY <1>7 DEF DrawUTF8String, Drawing
  <2>2. \/ LeavesBuffer(mem, p) /\ UNCHANGED <<text, way, mem, p>>
        \/ mem[p] = NUL /\ Done
        \/ /\ ~LeavesBuffer(mem, p) /\ mem[p] # NUL /\ p' = p + Taken(mem[p])
           /\ UNCHANGED <<text, way, mem, pc>>
    BY <1>7, Zenon DEF DrawUTF8String
  <2>3. CASE LeavesBuffer(mem, p) /\ UNCHANGED <<text, way, mem, p>>
    <3>1. ASSUME utf8_is_valid(text) PROVE FALSE
      <4>1. AtStart(text, p)
        BY <2>1, <3>1 DEF ReadInv
      <4>2. p \in 1 .. Len(text) + 1 /\ ValidFrom(text)[p]
        BY <4>1, Zenon DEF AtStart
      <4>3. mem[p] # NUL
        <5>1. ~(p > Len(mem))
          BY <1>0, <4>2 DEF HoldsText
        <5> QED BY <2>3, <5>1, Zenon DEF LeavesBuffer
      <4> QED BY <1>0, <2>3, <4>2, <4>3, DecodesOn, Zenon
    <3> QED BY <2>3, <3>1 DEF ReadInv, HoldsText
  <2>4. CASE Done
    <3>1. text' = <<>> /\ way' = "plain" /\ mem' = <<NUL>> /\ pc' = "idle"
      BY <2>4, Zenon DEF Done
    <3>2. HoldsText'
      BY <3>1 DEF HoldsText
    <3> QED BY <3>1, <3>2 DEF ReadInv
  <2>5. CASE /\ mem[p] # NUL /\ p' = p + Taken(mem[p])
             /\ UNCHANGED <<text, way, mem, pc>>
    <3>1. ASSUME utf8_is_valid(text) PROVE AtStart(text, p')
      <4>1. AtStart(text, p)
        BY <2>1, <3>1 DEF ReadInv
      <4>2. p \in 1 .. Len(text) + 1 /\ ValidFrom(text)[p]
        BY <4>1, Zenon DEF AtStart
      <4>3. p' \in p + 1 .. Len(text) + 1 /\ ValidFrom(text)[p']
        BY <1>0, <2>5, <4>2, DecodesOn, Zenon
      <4>4. p' \in 1 .. Len(text) + 1
        BY <1>0, <4>2, <4>3
      <4> QED BY <4>3, <4>4, Zenon DEF AtStart
    <3>2. HoldsText'
      BY <2>5 DEF HoldsText, ReadInv
    <3>3. pc' # "undefined"
      BY <2>1, <2>5
    <3> QED BY <2>5, <3>1, <3>2, <3>3 DEF ReadInv
  <2> QED BY <2>2, <2>3, <2>4, <2>5
<1>8. CASE PassOver \/ EndOfText \/ DrawGlyph
  <2>1. way # "list" /\ pc = "draw"
    BY <1>8 DEF PassOver, EndOfText, DrawGlyph, Drawing
  <2>2. \/ Done
        \/ UNCHANGED <<text, way, mem>> /\ pc' \in {pc, "no texture"}
    BY <1>8, Zenon DEF PassOver, EndOfText, EndPass, DrawGlyph
  <2>3. CASE Done
    <3>1. text' = <<>> /\ way' = "plain" /\ mem' = <<NUL>> /\ pc' = "idle"
      BY <2>3, Zenon DEF Done
    <3>2. HoldsText'
      BY <3>1 DEF HoldsText
    <3> QED BY <3>1, <3>2 DEF ReadInv
  <2>4. CASE UNCHANGED <<text, way, mem>> /\ pc' \in {pc, "no texture"}
    BY <1>2, <2>1, <2>4
  <2> QED BY <2>2, <2>3, <2>4
<1>9. CASE Flip
  <2>1. UNCHANGED <<text, way, p, mem, pc>>
    BY <1>9, Zenon DEF Flip
  <2> QED BY <2>1 DEF ReadInv, HoldsText
<1> QED BY <1>3, <1>4, <1>5, <1>6, <1>7, <1>8, <1>9, Zenon DEF Next, DrawStep

\* In the beginning there is no text to read.
LEMMA ReadInit == Init => ReadInv
<1> SUFFICES ASSUME Init PROVE ReadInv
  OBVIOUS
<1>1. text = <<>> /\ way = "plain" /\ mem = <<NUL>> /\ pc = "idle"
  BY Zenon DEF Init
<1>2. HoldsText
  BY <1>1 DEF HoldsText
<1> QED BY <1>1, <1>2 DEF ReadInv

-----------------------------------------------------------------------------
(* The characters of a text, and their width                               *)

\* The character byte j of a text begins, and what the text has such characters from.
CharAt(s, j) == SubSeq(s, j, j + Taken(s[j]) - 1)
Parts(s) == UNION {{SubSeq(s, j, k) : k \in Nat} : j \in Nat}

\* f is what Spelled makes of a text.
Spells(f, s) ==
  f = [j \in 0 .. Len(s) |->
        IF j = 0 THEN <<>> ELSE IF s[j] \in Continues THEN f[j - 1] ELSE Append(f[j - 1], CharAt(s, j))]

LEMMA CharIsPart == ASSUME NEW s, NEW j \in Nat \ {0} PROVE CharAt(s, j) \in Parts(s)
<1> DEFINE n == Taken(s[j])
<1>1. n \in 1 .. 4
  BY TakenIs
<1> HIDE DEF n
<1> DEFINE k == j + n - 1
<1>2. k \in Nat /\ j \in Nat
  BY <1>1
<1>3. CharAt(s, j) = SubSeq(s, j, k)
  BY Zenon DEF CharAt, n
<1> HIDE DEF k
<1>4. SubSeq(s, j, k) \in {SubSeq(s, j, l) : l \in Nat}
  BY <1>2, Zenon
<1> QED BY <1>2, <1>3, <1>4, Zenon DEF Parts

\* The characters begun in the first j bytes of a text, for every j.
LEMMA SpelledIs ==
  ASSUME NEW s, Len(s) \in Nat
  PROVE  /\ Spelled(s) \in [0 .. Len(s) -> Seq(Parts(s))]
         /\ Spelled(s)[0] = <<>>
         /\ \A j \in 1 .. Len(s) :
              Spelled(s)[j] = IF s[j] \in Continues THEN Spelled(s)[j - 1]
                              ELSE Append(Spelled(s)[j - 1], CharAt(s, j))
<1> DEFINE n == Len(s)
           S == Seq(Parts(s))
           none == <<>>
           step == [j \in 1 .. n |-> [q \in S |-> IF s[j] \in Continues THEN q ELSE Append(q, CharAt(s, j))]]
<1>1. \A j \in 1 .. n : CharAt(s, j) \in Parts(s)
  <2>1. \A j \in 1 .. n : j \in Nat \ {0}
    OBVIOUS
  <2> QED BY <2>1, CharIsPart, Zenon
<1>2. \A q \in S : \A j \in 1 .. n : Append(q, CharAt(s, j)) \in S
  BY <1>1, AppendProperties
<1>3. none \in S
  OBVIOUS
<1> HIDE DEF S, none
<1>4. step \in [1 .. n -> [S -> S]]
  BY <1>2
<1> HIDE DEF step
<1>5. \E f \in [0 .. n -> S] : Recursive(f, none, step, n)
  BY <1>3, <1>4, Recursion
<1>6. PICK f \in [0 .. n -> S] :
        f = [k \in 0 .. n |-> IF k = 0 THEN none ELSE step[k][f[k - 1]]]
  BY <1>5 DEF Recursive
<1>7. ASSUME NEW k \in 0 .. n, k # 0
      PROVE  step[k][f[k - 1]] = IF s[k] \in Continues THEN f[k - 1] ELSE Append(f[k - 1], CharAt(s, k))
  <2>1. k \in 1 .. n /\ f[k - 1] \in S
    BY <1>7
  <2> QED BY <2>1 DEF step
<1>8. \A k \in 0 .. n : f[k] = IF k = 0 THEN <<>> ELSE
        IF s[k] \in Continues THEN f[k - 1] ELSE Append(f[k - 1], CharAt(s, k))
  BY <1>6, <1>7, Zenon DEF none
<1>9. Spells(f, s)
  <2>1. f = [k \in 0 .. n |-> f[k]]
    OBVIOUS
  <2>2. [k \in 0 .. n |-> f[k]] = [k \in 0 .. n |-> IF k = 0 THEN <<>> ELSE
          IF s[k] \in Continues THEN f[k - 1] ELSE Append(f[k - 1], CharAt(s, k))]
    BY <1>8, Zenon
  <2> QED BY <2>1, <2>2, Zenon DEF Spells
<1> DEFINE B == Spelled(s)
<1>10. B = CHOOSE g : Spells(g, s)
  BY Zenon DEF Spelled, Spells, CharAt
<1>11. Spells(B, s)
  BY <1>9, <1>10, Zenon
<1> HIDE DEF B
<1>12. \A j \in 0 .. n : B[j] = IF j = 0 THEN <<>> ELSE
         IF s[j] \in Continues THEN B[j - 1] ELSE Append(B[j - 1], CharAt(s, j))
  BY <1>11, Zenon DEF Spells
<1>13. \A j \in 1 .. n : j \in 0 .. n /\ j # 0 /\ j - 1 \in 0 .. n
  OBVIOUS
<1>14. B[0] = <<>>
  <2>1. 0 \in 0 .. n
    OBVIOUS
  <2> QED BY <1>12, <2>1, Zenon
<1>15. \A j \in 1 .. n : B[j] = IF s[j] \in Continues THEN B[j - 1] ELSE Append(B[j - 1], CharAt(s, j))
  BY <1>12, <1>13, Zenon
<1>16. B \in [0 .. n -> S]
  <2> DEFINE T == {j \in Nat : j <= n => B[j] \in S}
  <2>1. 0 \in T
    BY <1>14, <1>3 DEF none
  <2>2. ASSUME NEW j \in Nat, j \in T PROVE j + 1 \in T
    <3> SUFFICES ASSUME j + 1 <= n PROVE B[j + 1] \in S
      BY DEF T
    <3>1. B[j] \in S /\ j + 1 \in 1 .. n /\ (j + 1) - 1 = j
      BY <2>2
    <3>2. B[j + 1] = IF s[j + 1] \in Continues THEN B[j] ELSE Append(B[j], CharAt(s, j + 1))
      BY <1>15, <3>1
    <3>3. Append(B[j], CharAt(s, j + 1)) \in S
      BY <3>1, <1>2
    <3> QED BY <3>1, <3>2, <3>3, Zenon
  <2>3. Nat \subseteq T
    <3> HIDE DEF T
    <3> QED BY <2>1, <2>2, NatInd
  <2>4. \A j \in 0 .. n : B[j] \in S
    BY <2>3
  <2>5. B = [j \in 0 .. n |-> B[j]]
    BY <1>11, Zenon DEF Spells
  <2> QED BY <2>4, <2>5, Zenon
<1> QED BY <1>14, <1>15, <1>16, Zenon DEF S, B

\* What Width counts twice.
Wide(q) == {i \in DOMAIN q : q[i][1] \notin ASCII}
Weight(c) == IF c[1] \in ASCII THEN 1 ELSE 2

LEMMA WideIs ==
  ASSUME NEW S, NEW q \in Seq(S)
  PROVE  /\ Wide(q) \subseteq 1 .. Len(q) /\ IsFiniteSet(Wide(q))
         /\ Cardinality(Wide(q)) \in Nat /\ Width(q) = Len(q) + Cardinality(Wide(q)) /\ Len(q) \in Nat
<1>1. Len(q) \in Nat /\ DOMAIN q = 1 .. Len(q)
  BY LenProperties
<1>2. Wide(q) \subseteq 1 .. Len(q)
  BY <1>1 DEF Wide
<1>3. IsFiniteSet(1 .. Len(q))
  BY <1>1, FS_Interval
<1>4. IsFiniteSet(Wide(q)) /\ Cardinality(Wide(q)) \in Nat
  BY <1>2, <1>3, FS_Subset, FS_CardinalityType
<1>5. Width(q) = Len(q) + Cardinality(Wide(q))
  BY Zenon DEF Width, Wide
<1> QED BY <1>1, <1>2, <1>4, <1>5, Zenon

\* One more character at the end.
LEMMA WidthAppend ==
  ASSUME NEW S, NEW q \in Seq(S), NEW c \in S
  PROVE  /\ Width(q) \in Nat /\ Weight(c) \in 1 .. 2
         /\ Width(Append(q, c)) = Width(q) + Weight(c)
<1> DEFINE r == Append(q, c)
           n == Len(q)
<1>1. r \in Seq(S) /\ Len(r) = n + 1 /\ r[n + 1] = c /\ n \in Nat /\ \A i \in 1 .. n : r[i] = q[i]
  BY AppendProperties
<1>2. DOMAIN r = 1 .. n + 1 /\ DOMAIN q = 1 .. n
  BY <1>1
<1> HIDE DEF r
<1>3. Wide(r) = Wide(q) \cup (IF c[1] \in ASCII THEN {} ELSE {n + 1})
  <2>1. ASSUME NEW i PROVE i \in Wide(r) <=> i \in Wide(q) \cup (IF c[1] \in ASCII THEN {} ELSE {n + 1})
    <3>1. CASE i = n + 1
      <4>1. i \in DOMAIN r /\ i \notin DOMAIN q
        BY <1>1, <1>2, <3>1
      <4> QED BY <4>1, <1>1, <3>1, Zenon DEF Wide
    <3>2. CASE i # n + 1
      <4>1. i \in DOMAIN r <=> i \in DOMAIN q
        BY <1>1, <1>2, <3>2
      <4>2. i \in DOMAIN q => r[i] = q[i]
        BY <1>1, <1>2
      <4> QED BY <4>1, <4>2, <3>2, Zenon DEF Wide
    <3> QED BY <3>1, <3>2
  <2> QED BY <2>1, Zenon
<1>4. /\ Wide(q) \subseteq 1 .. n /\ IsFiniteSet(Wide(q)) /\ Cardinality(Wide(q)) \in Nat
      /\ Width(q) = n + Cardinality(Wide(q)) /\ Width(r) = (n + 1) + Cardinality(Wide(r))
  BY <1>1, WideIs
<1>5. CASE c[1] \in ASCII
  <2>1. Wide(r) = Wide(q) /\ Weight(c) = 1
    BY <1>3, <1>5, Zenon DEF Weight
  <2> QED BY <1>1, <1>4, <2>1 DEF r
<1>6. CASE c[1] \notin ASCII
  <2>1. Wide(r) = Wide(q) \cup {n + 1} /\ Weight(c) = 2
    BY <1>3, <1>6, Zenon DEF Weight
  <2>2. n + 1 \notin Wide(q)
    BY <1>1, <1>4
  <2>3. Cardinality(Wide(r)) = Cardinality(Wide(q)) + 1
    BY <1>4, <2>1, <2>2, FS_AddElement
  <2> QED BY <1>1, <1>4, <2>1, <2>3 DEF r
<1> QED BY <1>5, <1>6

\* One more at the beginning.
LEMMA WidthAhead ==
  ASSUME NEW S, NEW q \in Seq(S), NEW c \in S
  PROVE  /\ <<c>> \o q \in Seq(S)
         /\ Width(<<c>> \o q) = Weight(c) + Width(q)
<1> DEFINE r == <<c>> \o q
           n == Len(q)
           next(i) == i + 1
           moved == {next(i) : i \in Wide(q)}
<1>1. <<c>> \in Seq(S) /\ Len(<<c>>) = 1 /\ <<c>>[1] = c
  OBVIOUS
<1>2. r \in Seq(S) /\ Len(r) = n + 1 /\ n \in Nat /\ r[1] = c /\ \A i \in 1 .. n : r[i + 1] = q[i]
  <2>1. r \in Seq(S) /\ Len(r) = 1 + n /\ n \in Nat
    BY <1>1, ConcatProperties
  <2>2. \A i \in 1 .. Len(r) : r[i] = IF i <= 1 THEN <<c>>[i] ELSE q[i - 1]
    BY <1>1, <2>1, ConcatProperties
  <2> QED BY <1>1, <2>1, <2>2
<1>3. DOMAIN r = 1 .. n + 1 /\ DOMAIN q = 1 .. n
  BY <1>2
<1> HIDE DEF r
<1>4. Wide(q) \subseteq 1 .. n /\ IsFiniteSet(Wide(q)) /\ Cardinality(Wide(q)) \in Nat
  BY <1>2, WideIs
<1>5. Wide(r) = moved \cup (IF c[1] \in ASCII THEN {} ELSE {1})
  <2>1. ASSUME NEW i PROVE i \in Wide(r) <=> i \in moved \cup (IF c[1] \in ASCII THEN {} ELSE {1})
    <3>1. CASE i = 1
      <4>1. i \in DOMAIN r /\ i \notin moved
        BY <1>2, <1>3, <1>4, <3>1
      <4> QED BY <4>1, <1>2, <3>1, Zenon DEF Wide
    <3>2. CASE i # 1
      <4>1. ASSUME i \in Wide(r) PROVE i \in moved
        <5>1. i \in 1 .. n + 1 /\ r[i][1] \notin ASCII
          BY <1>3, <4>1, Zenon DEF Wide
        <5>2. i - 1 \in 1 .. n /\ i = next(i - 1) /\ r[(i - 1) + 1] = q[i - 1]
          BY <5>1, <3>2, <1>2
        <5>3. r[i] = q[i - 1]
          BY <5>1, <5>2
        <5>4. i - 1 \in Wide(q)
          BY <5>1, <5>2, <5>3, <1>3, Zenon DEF Wide
        <5> QED BY <5>2, <5>4, Zenon
      <4>2. ASSUME i \in moved PROVE i \in Wide(r)
        <5>1. PICK k \in Wide(q) : i = next(k)
          BY <4>2, Zenon
        <5>2. k \in 1 .. n /\ q[k][1] \notin ASCII
          BY <1>3, <5>1, Zenon DEF Wide
        <5>3. i \in 1 .. n + 1 /\ r[i] = q[k]
          BY <5>1, <5>2, <1>2
        <5> QED BY <5>2, <5>3, <1>3, Zenon DEF Wide
      <4> QED BY <4>1, <4>2, <3>2, Zenon
    <3> QED BY <3>1, <3>2
  <2> QED BY <2>1, Zenon
<1>6. IsFiniteSet(moved) /\ Cardinality(moved) = Cardinality(Wide(q))
  <2> DEFINE f == [i \in Wide(q) |-> next(i)]
  <2>1. f \in Bijection(Wide(q), moved)
    <3>1. f \in Surjection(Wide(q), moved)
      BY Zenon DEF Surjection
    <3>2. \A a, b \in Wide(q) : f[a] = f[b] => a = b
      BY <1>4
    <3>3. f \in [Wide(q) -> moved] /\ DOMAIN f = Wide(q)
      BY Zenon
    <3> HIDE DEF f, moved
    <3>4. f \in Injection(Wide(q), moved)
      BY <3>2, <3>3, Zenon DEF Injection, IsInjective
    <3> QED BY <3>1, <3>4, Zenon DEF Bijection
  <2>2. ExistsBijection(Wide(q), moved)
    BY <2>1, Zenon DEF ExistsBijection
  <2> HIDE DEF moved
  <2> QED BY <1>4, <2>2, FS_Bijection, Zenon
<1>7. Width(r) = (n + 1) + Cardinality(Wide(r)) /\ Width(q) = n + Cardinality(Wide(q))
  BY <1>2, WideIs
<1> HIDE DEF moved
<1>8. CASE c[1] \in ASCII
  <2>1. Wide(r) = moved /\ Weight(c) = 1
    BY <1>5, <1>8, Zenon DEF Weight
  <2> QED BY <1>2, <1>4, <1>6, <1>7, <2>1 DEF r
<1>9. CASE c[1] \notin ASCII
  <2>1. Wide(r) = moved \cup {1} /\ Weight(c) = 2
    BY <1>5, <1>9, Zenon DEF Weight
  <2>2. 1 \notin moved
    BY <1>4 DEF moved
  <2>3. Cardinality(Wide(r)) = Cardinality(Wide(q)) + 1
    BY <1>6, <2>1, <2>2, FS_AddElement
  <2>4. Width(r) = Weight(c) + Width(q)
    <3>1. Cardinality(Wide(r)) = Cardinality(Wide(q)) + 1 /\ Weight(c) = 2
      BY <1>6, <2>1, <2>3, Zenon
    <3> QED BY <1>2, <1>4, <1>7, <3>1
  <2> QED BY <1>2, <2>4, Zenon DEF r
<1> QED BY <1>8, <1>9

\* The characters of the first bytes are the first characters; bytes that continue a
\* character add none.
LEMMA SpelledOn ==
  ASSUME NEW s, Len(s) \in Nat, NEW j \in 0 .. Len(s), NEW k \in j .. Len(s)
  PROVE  /\ Len(Spelled(s)[j]) \in Nat /\ Len(Spelled(s)[k]) \in Nat
         /\ Len(Spelled(s)[j]) <= Len(Spelled(s)[k])
         /\ \A i \in 1 .. Len(Spelled(s)[j]) : Spelled(s)[k][i] = Spelled(s)[j][i]
         /\ (\A i \in j + 1 .. k : s[i] \in Continues) => Spelled(s)[k] = Spelled(s)[j]
<1> DEFINE n == Len(s)
           B == Spelled(s)
           S == Parts(s)
           Longer(q, r) == Len(q) <= Len(r) /\ \A i \in 1 .. Len(q) : r[i] = q[i]
           Still(m) == (\A i \in j + 1 .. j + m : s[i] \in Continues) => B[j + m] = B[j]
           T == {m \in Nat : j + m <= n => Longer(B[j], B[j + m]) /\ Still(m)}
<1>1. /\ B \in [0 .. n -> Seq(S)]
      /\ \A i \in 1 .. n : B[i] = IF s[i] \in Continues THEN B[i - 1] ELSE Append(B[i - 1], CharAt(s, i))
  BY SpelledIs
<1> HIDE DEF B, S
<1>2. \A i \in 0 .. n : B[i] \in Seq(S) /\ Len(B[i]) \in Nat
  BY <1>1
<1>3. 0 \in T
  <2>1. j + 0 = j /\ j \in Nat
    OBVIOUS
  <2>2. Longer(B[j], B[j])
    BY <1>2
  <2> HIDE DEF Longer
  <2> QED BY <2>1, <2>2
<1>4. ASSUME NEW m \in Nat, m \in T PROVE m + 1 \in T
  <2> SUFFICES ASSUME j + (m + 1) <= n PROVE Longer(B[j], B[j + (m + 1)]) /\ Still(m + 1)
    BY DEF T
  <2> DEFINE i == j + (m + 1)
  <2>1. j + m \in 0 .. n /\ i \in 1 .. n /\ i - 1 = j + m /\ j + m <= n
    OBVIOUS
  <2>2. Longer(B[j], B[j + m]) /\ Still(m)
    BY <1>4, <2>1, Zenon
  <2>3. B[i] = IF s[i] \in Continues THEN B[j + m] ELSE Append(B[j + m], CharAt(s, i))
    BY <1>1, <2>1
  <2>4. CharAt(s, i) \in S
    BY <2>1, CharIsPart DEF S
  <2> DEFINE q == B[j + m]
             c == CharAt(s, i)
  <2>5. q \in Seq(S) /\ Len(q) \in Nat /\ Len(B[j]) \in Nat
    BY <1>2, <2>1
  <2>6. Longer(B[j], B[i])
    <3>1. CASE s[i] \in Continues
      BY <2>2, <2>3, <3>1, Zenon
    <3>2. CASE s[i] \notin Continues
      <4>1. B[i] = Append(q, c)
        BY <2>3, <3>2, Zenon
      <4> HIDE DEF c, q, i
      <4>2. Len(Append(q, c)) = Len(q) + 1 /\ \A k1 \in 1 .. Len(q) : Append(q, c)[k1] = q[k1]
        BY <2>4, <2>5, AppendProperties DEF c
      <4>3. Longer(B[j], q)
        BY <2>2 DEF q
      <4> QED BY <4>1, <4>2, <4>3, <2>5
    <3> QED BY <3>1, <3>2
  <2>7. Still(m + 1)
    <3> SUFFICES ASSUME \A i1 \in j + 1 .. j + (m + 1) : s[i1] \in Continues PROVE B[i] = B[j]
      OBVIOUS
    <3>1. i \in j + 1 .. j + (m + 1) /\ \A i1 \in j + 1 .. j + m : i1 \in j + 1 .. j + (m + 1)
      BY <2>1
    <3> HIDE DEF i
    <3>2. s[i] \in Continues /\ \A i1 \in j + 1 .. j + m : s[i1] \in Continues
      BY <3>1
    <3> QED BY <2>2, <2>3, <3>2, Zenon
  <2> QED BY <2>6, <2>7
<1>5. Nat \subseteq T
  <2> HIDE DEF T
  <2> QED BY <1>3, <1>4, NatInd
<1>6. k - j \in Nat /\ j + (k - j) = k /\ k <= n /\ j \in 0 .. n /\ k \in 0 .. n
  OBVIOUS
<1>7. Longer(B[j], B[k]) /\ Still(k - j)
  <2>1. k - j \in T
    BY <1>5, <1>6
  <2>2. Longer(B[j], B[j + (k - j)]) /\ Still(k - j)
    BY <1>6, <2>1, Zenon
  <2> HIDE DEF Longer, Still
  <2> QED BY <2>2, <1>6
<1>8. (\A i \in j + 1 .. k : s[i] \in Continues) => B[k] = B[j]
  BY <1>6, <1>7
<1> QED BY <1>2, <1>6, <1>7, <1>8 DEF B

\* The first r characters are those begun in the first so many bytes.
LEMMA SpelledAll ==
  ASSUME NEW s, Len(s) \in Nat, NEW k \in 0 .. Len(s), NEW r \in 0 .. Len(Spelled(s)[k])
  PROVE  \E j \in 0 .. k : Len(Spelled(s)[j]) = r
<1> DEFINE n == Len(s)
           B == Spelled(s)
           Reached(m, l) == \E j \in 0 .. m : Len(B[j]) = l
           T == {m \in Nat : m <= n => \A l \in 0 .. Len(B[m]) : Reached(m, l)}
<1>1. /\ B \in [0 .. n -> Seq(Parts(s))] /\ B[0] = <<>>
      /\ \A i \in 1 .. n : B[i] = IF s[i] \in Continues THEN B[i - 1] ELSE Append(B[i - 1], CharAt(s, i))
  BY SpelledIs
<1> HIDE DEF B
<1>2. \A i \in 0 .. n : B[i] \in Seq(Parts(s)) /\ Len(B[i]) \in Nat
  BY <1>1
<1>3. 0 \in T
  <2>1. Len(B[0]) = 0
    BY <1>1
  <2>2. \A l \in 0 .. Len(B[0]) : l = 0 /\ 0 \in 0 .. 0
    BY <2>1
  <2> QED BY <2>1, <2>2, Zenon
<1>4. ASSUME NEW m \in Nat, m \in T PROVE m + 1 \in T
  <2> SUFFICES ASSUME m + 1 <= n, NEW l \in 0 .. Len(B[m + 1]) PROVE Reached(m + 1, l)
    BY DEF T
  <2> DEFINE i == m + 1
  <2>1. m \in 0 .. n /\ i \in 1 .. n /\ i \in 0 .. n /\ i - 1 = m /\ m <= n /\ i \in 0 .. i /\ \A j \in 0 .. m : j \in 0 .. i
    OBVIOUS
  <2>2. B[i] = IF s[i] \in Continues THEN B[m] ELSE Append(B[m], CharAt(s, i))
    BY <1>1, <2>1
  <2>3. CharAt(s, i) \in Parts(s)
    BY <2>1, CharIsPart
  <2>4. Len(B[i]) = Len(B[m]) \/ Len(B[i]) = Len(B[m]) + 1
    <3> HIDE DEF i
    <3>1. Len(Append(B[m], CharAt(s, i))) = Len(B[m]) + 1
      BY <1>2, <2>1, <2>3, AppendProperties
    <3> QED BY <2>2, <3>1, Zenon
  <2>5. l \in 0 .. Len(B[m]) \/ l = Len(B[i])
    <3>1. Len(B[m]) \in Nat /\ Len(B[i]) \in Nat /\ l \in 0 .. Len(B[i])
      BY <1>2, <2>1
    <3> HIDE DEF i
    <3> QED BY <2>4, <3>1
  <2>6. CASE l \in 0 .. Len(B[m])
    <3>1. Reached(m, l)
      BY <1>4, <2>1, <2>6, Zenon
    <3> QED BY <2>1, <3>1, Zenon
  <2>7. CASE l = Len(B[i])
    BY <2>1, <2>7, Zenon
  <2> QED BY <2>5, <2>6, <2>7
<1>5. Nat \subseteq T
  <2> HIDE DEF T
  <2> QED BY <1>3, <1>4, NatInd
<1>6. k \in T /\ k <= n
  BY <1>5
<1> QED BY <1>6, Zenon DEF B

\* Before the first NUL there is the text, as it was.
LEMMA StrlenIs ==
  ASSUME HoldsText, mem \in Seq(Bytes)
  PROVE  /\ strlen(mem) \in 0 .. Len(text) /\ mem[strlen(mem) + 1] = NUL
         /\ \A j \in 1 .. strlen(mem) : mem[j] = text[j] /\ mem[j] # NUL
<1> DEFINE end == Len(text) + 1
           T == {i \in DOMAIN mem : mem[i] = NUL}
<1>1. Len(text) \in Nat /\ DOMAIN mem = 1 .. end /\ mem[end] = NUL /\ text \in Seq(Bytes \ {NUL})
  BY DEF HoldsText
<1>2. end \in T /\ T \subseteq Nat
  BY <1>1
<1>3. PICK i \in T : \A j \in T : i <= j
  BY <1>2, LeastNat
<1>4. Min(T) \in T /\ \A j \in T : Min(T) <= j
  BY <1>3, Zenon DEF Min
<1> DEFINE m == Min(T)
<1>5. m \in 1 .. end /\ mem[m] = NUL
  BY <1>1, <1>4, Zenon
<1>6. \A j \in 1 .. end : mem[j] = NUL => m <= j
  BY <1>1, <1>4, Zenon
<1>7. strlen(mem) = m - 1
  BY Zenon DEF strlen
<1> HIDE DEF m
<1>8. m - 1 \in 0 .. Len(text) /\ (m - 1) + 1 = m
  BY <1>1, <1>5
<1>9. ASSUME NEW j \in 1 .. m - 1 PROVE mem[j] = text[j] /\ mem[j] # NUL
  <2>1. j \in 1 .. Len(text) /\ j \in 1 .. end /\ ~(m <= j)
    BY <1>1, <1>5
  <2>2. mem[j] # NUL /\ mem[j] \in {text[j], NUL}
    BY <1>6, <2>1, Zenon DEF HoldsText
  <2> QED BY <2>2
<1> QED BY <1>5, <1>7, <1>8, <1>9

\* A character of a well-formed text, from its first byte on.
LEMMA StartIs ==
  ASSUME NEW s, Len(s) \in Nat, NEW i, AtStart(s, i), i <= Len(s)
  PROVE  /\ i \in 1 .. Len(s) /\ s[i] \notin Continues /\ s[i] # "?" /\ utf8_char_len(s[i]) # 0
         /\ Taken(s[i]) \in 1 .. 4 /\ i + Taken(s[i]) <= Len(s) + 1
         /\ \A k \in i + 1 .. i + Taken(s[i]) - 1 : s[k] \in Continues
         /\ AtStart(s, i + Taken(s[i]))
<1> DEFINE n == utf8_char_len(s[i])
<1>1. i \in 1 .. Len(s) /\ ValidFrom(s)[i]
  <2>1. i \in 1 .. Len(s) + 1 /\ ValidFrom(s)[i]
    BY Zenon DEF AtStart
  <2> QED BY <2>1
<1>2. Ahead(ValidFrom(s), s, i) /\ ~(i > Len(s))
  <2>1. i \in Nat
    BY <1>1
  <2>2. ~(i > Len(s))
    BY <1>1
  <2> QED BY <1>1, <2>1, <2>2, ValidIs, Zenon
<1>3. /\ n > 0 /\ i + n - 1 <= Len(s) /\ ValidFrom(s)[i + n]
      /\ \A k \in i + 1 .. i + n - 1 : s[k] \in Continues
  BY <1>2, Zenon DEF Ahead
<1>4. n \in 0 .. 4
  BY CharLen
<1>5. s[i] \notin Continues /\ s[i] # "?"
  <2>1. utf8_char_len("x") = 0 /\ utf8_char_len("y") = 0 /\ utf8_char_len("?") = 0
    BY DEF utf8_char_len, ASCII, Blank, NUL
  <2>2. n # 0
    BY <1>3, <1>4
  <2> QED BY <2>1, <2>2, Zenon DEF Continues
<1>6. n # 0
  BY <1>3, <1>4
<1>7. Taken(s[i]) = n
  BY <1>6, Zenon DEF Taken
<1> HIDE DEF n
<1>8. n \in 1 .. 4 /\ i + n <= Len(s) + 1 /\ i + n \in 1 .. Len(s) + 1
  BY <1>1, <1>3, <1>4, <1>6
<1>9. AtStart(s, i + n)
  BY <1>3, <1>8, Zenon DEF AtStart
<1> QED BY <1>1, <1>3, <1>5, <1>6, <1>7, <1>8, <1>9, Zenon DEF n

\* With the first byte of a character there is one more.
LEMMA SpelledStart ==
  ASSUME NEW s, Len(s) \in Nat, NEW i, AtStart(s, i), i <= Len(s)
  PROVE  /\ Spelled(s)[i] = Append(Spelled(s)[i - 1], CharAt(s, i))
         /\ i - 1 \in 0 .. Len(s) /\ i \in 1 .. Len(s) /\ CharAt(s, i) \in Parts(s) /\ CharAt(s, i)[1] = s[i]
         /\ Spelled(s)[i - 1] \in Seq(Parts(s))
         /\ Spelled(s)[i + Taken(s[i]) - 1] = Spelled(s)[i]
<1> DEFINE n == Taken(s[i])
<1>1. /\ i \in 1 .. Len(s) /\ s[i] \notin Continues /\ n \in 1 .. 4 /\ i + n <= Len(s) + 1
      /\ \A k \in i + 1 .. i + n - 1 : s[k] \in Continues
  BY StartIs, Zenon
<1>2. i - 1 \in 0 .. Len(s) /\ i \in Nat \ {0} /\ i \in 0 .. Len(s)
  BY <1>1
<1>3. Spelled(s)[i] = Append(Spelled(s)[i - 1], CharAt(s, i)) /\ Spelled(s)[i - 1] \in Seq(Parts(s))
  BY <1>1, <1>2, SpelledIs
<1>4. CharAt(s, i) \in Parts(s)
  BY <1>2, CharIsPart
<1>5. CharAt(s, i)[1] = s[i]
  <2>1. CharAt(s, i) = SubSeq(s, i, i + n - 1)
    BY Zenon DEF CharAt
  <2> HIDE DEF n
  <2>2. i \in Int /\ i + n - 1 \in Int /\ 1 \in 1 .. (i + n - 1) - i + 1 /\ i + 1 - 1 = i
    BY <1>1
  <2> QED BY <2>1, <2>2
<1>6. Spelled(s)[i + n - 1] = Spelled(s)[i]
  <2> HIDE DEF n
  <2>1. i + n - 1 \in i .. Len(s)
    BY <1>1
  <2> QED BY <1>1, <1>2, <2>1, SpelledOn
<1> QED BY <1>1, <1>2, <1>3, <1>4, <1>5, <1>6

\* A text that was cut has no first byte of a character behind its first NUL.
CutClean == \A j \in strlen(mem) + 1 .. Len(text) : text[j] \notin Continues => mem[j] = NUL

\* The first byte of a character behind the last one that is left is a NUL.
LEMMA StartGone ==
  ASSUME HoldsText, mem \in Seq(Bytes), CutClean, NEW i, AtStart(text, i), i > strlen(mem)
  PROVE  mem[i] = NUL
<1>1. /\ Len(text) \in Nat /\ strlen(mem) \in 0 .. Len(text) /\ Len(mem) = Len(text) + 1
      /\ mem[Len(mem)] = NUL
  BY StrlenIs DEF HoldsText
<1>2. i \in 1 .. Len(text) + 1
  BY Zenon DEF AtStart
<1>3. CASE i <= Len(text)
  <2>1. text[i] \notin Continues
    BY <1>1, <1>3, StartIs
  <2>2. i \in strlen(mem) + 1 .. Len(text)
    BY <1>1, <1>2, <1>3
  <2> QED BY <2>1, <2>2, Zenon DEF CutClean
<1>4. CASE ~(i <= Len(text))
  BY <1>1, <1>2, <1>4
<1> QED BY <1>3, <1>4

\* WidthFromUTF8 counts the characters begun before the first NUL, although it may step
\* over it.
LEMMA MeasuredIs ==
  ASSUME HoldsText, mem \in Seq(Bytes), CutClean, utf8_is_valid(text)
  PROVE  WidthFromUTF8(mem) = Width(Spelled(text)[strlen(mem)])
<1> DEFINE L == strlen(mem)
           B == Spelled(text)
           S == Parts(mem) \cup Parts(text)
           seen == SeenFrom(mem)
           Counts(i) == /\ "codes" \in DOMAIN seen[i] /\ seen[i].codes \in Seq(S)
                        /\ Width(seen[i].codes) + Width(B[i - 1]) = Width(B[L])
           Good == {k \in Nat : \A i \in 1 .. L + 1 : AtStart(text, i) /\ i + k >= L + 1 => Counts(i)}
<1>1. /\ Len(text) \in Nat /\ L \in 0 .. Len(text) /\ Len(mem) = Len(text) + 1 /\ Len(mem) \in Nat
      /\ mem[L + 1] = NUL /\ \A j \in 1 .. L : mem[j] = text[j] /\ mem[j] # NUL
  BY StrlenIs DEF HoldsText
<1>2. \A i \in Nat : seen[i] = Seen(seen, mem, i)
  BY <1>1, DecodedFrom
<1>3. Decoded(mem) = seen[1] /\ AtStart(text, 1)
  BY <1>1, DecodedFrom, StartsWhole
<1>4. B \in [0 .. Len(text) -> Seq(Parts(text))] /\ B[0] = <<>>
  BY <1>1, SpelledIs
<1> HIDE DEF L, B, seen
<1>5. ASSUME NEW q, q = <<>> PROVE Width(q) = 0
  <2>1. Wide(q) = {} /\ Len(q) = 0
    BY <1>5 DEF Wide
  <2>2. Cardinality(Wide(q)) = 0
    BY <2>1, FS_EmptySet
  <2>3. Width(q) = Len(q) + Cardinality(Wide(q))
    BY Zenon DEF Width, Wide
  <2> QED BY <2>1, <2>2, <2>3
<1>6. \A i \in 0 .. Len(text) : Width(B[i]) \in Nat
  <2>1. \A q \in Seq(Parts(text)) : Width(q) \in Nat
    <3> SUFFICES ASSUME NEW q \in Seq(Parts(text)) PROVE Width(q) \in Nat
      OBVIOUS
    <3>1. Cardinality(Wide(q)) \in Nat /\ Width(q) = Len(q) + Cardinality(Wide(q)) /\ Len(q) \in Nat
      BY WideIs
    <3> QED BY <3>1
  <2> QED BY <1>4, <2>1
<1>7. ASSUME NEW i \in 1 .. Len(text) + 1, mem[i] = NUL
      PROVE  "codes" \in DOMAIN seen[i] /\ seen[i].codes = <<>>
  <2>0. i \in Nat /\ ~(i > Len(mem))
    BY <1>1
  <2>1. ~LeavesBuffer(mem, i)
    BY <1>7, <2>0, Zenon DEF LeavesBuffer
  <2>2. seen[i] = [codes |-> <<>>, left |-> FALSE]
    BY <1>2, <1>7, <2>0, <2>1, Zenon DEF Seen
  <2> QED BY <2>2
<1>8. ASSUME NEW i \in 1 .. L, AtStart(text, i), NEW n, n = i + Taken(mem[i]),
             "codes" \in DOMAIN seen[n], seen[n].codes \in Seq(S),
             Width(seen[n].codes) + Width(B[i]) = Width(B[L])
      PROVE  Counts(i)
  <2> DEFINE c == CharAt(mem, i)
             d == CharAt(text, i)
             q == seen[n].codes
  <2>1. mem[i] = text[i] /\ mem[i] # NUL /\ i \in 1 .. Len(text) + 1 /\ i \in Nat \ {0} /\ i <= Len(text)
    BY <1>1
  <2>2. ~LeavesBuffer(mem, i)
    BY <1>8, <2>1, DecodesOn, Zenon DEF AtStart
  <2>3. utf8_decode(mem, i) = c
    <3>1. utf8_char_len(mem[i]) # 0
      BY <1>1, <1>8, <2>1, StartIs
    <3> QED BY <3>1, Zenon DEF utf8_decode, CharAt
  <2>4. seen[i] = [seen[n] EXCEPT !.codes = <<c>> \o @]
    BY <1>2, <1>8, <2>1, <2>2, <2>3, Zenon DEF Seen
  <2>5. c \in S /\ d \in S
    BY <2>1, CharIsPart, Zenon
  <2>6. c[1] = d[1]
    <3>1. Taken(mem[i]) \in 1 .. 4
      BY TakenIs
    <3> DEFINE t == Taken(mem[i])
    <3>2. c = SubSeq(mem, i, i + t - 1)
      BY Zenon DEF CharAt
    <3> HIDE DEF t, c, d
    <3>3. i \in Int /\ i + t - 1 \in Int /\ 1 \in 1 .. (i + t - 1) - i + 1 /\ i + 1 - 1 = i
      BY <2>1, <3>1 DEF t
    <3>4. c[1] = mem[i]
      BY <3>2, <3>3
    <3>5. d[1] = text[i]
      BY <1>1, <1>8, <2>1, SpelledStart DEF d
    <3> QED BY <2>1, <3>4, <3>5
  <2>7. B[i] = Append(B[i - 1], d) /\ i - 1 \in 0 .. Len(text) /\ i \in 0 .. Len(text)
    <3>1. B[i] = Append(B[i - 1], d) /\ i - 1 \in 0 .. Len(text)
      BY <1>1, <1>8, <2>1, SpelledStart, Zenon DEF B
    <3> QED BY <3>1, <2>1
  <2> HIDE DEF c, d
  <2>8. "codes" \in DOMAIN seen[i] /\ seen[i].codes = <<c>> \o q
    BY <1>8, <2>4
  <2> HIDE DEF q
  <2>9. q \in Seq(S)
    BY <1>8 DEF q
  <2>10. <<c>> \o q \in Seq(S) /\ Width(<<c>> \o q) = Weight(c) + Width(q)
    BY <2>5, <2>9, WidthAhead
  <2>11. Width(B[i]) = Width(B[i - 1]) + Weight(d)
    <3>1. B[i - 1] \in Seq(Parts(text)) /\ d \in Parts(text)
      BY <1>4, <2>1, <2>7, CharIsPart DEF d
    <3> QED BY <2>7, <3>1, WidthAppend
  <2>12. Weight(c) = Weight(d) /\ Weight(c) \in Nat
    BY <2>6 DEF Weight
  <2>13. Width(q) \in Nat /\ Width(B[i - 1]) \in Nat
    <3>1. Cardinality(Wide(q)) \in Nat /\ Width(q) = Len(q) + Cardinality(Wide(q)) /\ Len(q) \in Nat
      BY <2>9, WideIs
    <3> QED BY <3>1, <1>6, <2>7
  <2>14. Width(q) + Width(B[i]) = Width(B[L])
    BY <1>8 DEF q
  <2>15. Width(<<c>> \o q) + Width(B[i - 1]) = Width(B[L])
    BY <2>10, <2>11, <2>12, <2>13, <2>14
  <2> QED BY <2>8, <2>10, <2>15, Zenon
<1>9. Counts(L + 1)
  <2>1. L + 1 \in 1 .. Len(text) + 1 /\ (L + 1) - 1 = L /\ L \in 0 .. Len(text)
    BY <1>1
  <2>2. "codes" \in DOMAIN seen[L + 1] /\ seen[L + 1].codes = <<>>
    BY <1>1, <1>7, <2>1
  <2>3. Width(seen[L + 1].codes) = 0 /\ seen[L + 1].codes \in Seq(S)
    BY <1>5, <2>2
  <2>4. Width(B[L]) \in Nat
    BY <1>6, <2>1
  <2> QED BY <2>1, <2>2, <2>3, <2>4
<1>10. 0 \in Good
  <2>1. \A i \in 1 .. L + 1 : i + 0 >= L + 1 => i = L + 1
    BY <1>1
  <2> HIDE DEF Counts
  <2> QED BY <1>9, <2>1
<1>11. ASSUME NEW k \in Nat, k \in Good PROVE k + 1 \in Good
  <2> SUFFICES ASSUME NEW i \in 1 .. L + 1, AtStart(text, i), i + (k + 1) >= L + 1 PROVE Counts(i)
    <3> HIDE DEF Counts
    <3> QED OBVIOUS
  <2>1. CASE i = L + 1
    <3> HIDE DEF Counts
    <3> QED BY <1>9, <2>1
  <2>2. CASE i # L + 1
    <3> DEFINE n == i + Taken(mem[i])
    <3>1. i \in 1 .. L /\ i <= Len(text) /\ mem[i] = text[i]
      BY <1>1, <2>2
    <3>2. /\ Taken(mem[i]) \in 1 .. 4 /\ n <= Len(text) + 1 /\ AtStart(text, n)
          /\ \A j \in i + 1 .. n - 1 : text[j] \in Continues
      <4>1. Taken(mem[i]) = Taken(text[i])
        BY <3>1
      <4>2. /\ Taken(text[i]) \in 1 .. 4 /\ i + Taken(text[i]) <= Len(text) + 1
            /\ \A j \in i + 1 .. i + Taken(text[i]) - 1 : text[j] \in Continues
            /\ AtStart(text, i + Taken(text[i]))
        BY <1>1, <3>1, StartIs, Zenon
      <4>3. n = i + Taken(text[i])
        BY <4>1
      <4> HIDE DEF n
      <4> QED BY <4>1, <4>2, <4>3
    <3>3. CASE n <= L + 1
      <4>1. n \in 1 .. L + 1 /\ n + k >= L + 1 /\ i \in 0 .. n - 1 /\ n - 1 \in i .. Len(text) /\ i \in 0 .. Len(text)
        <5> DEFINE t == Taken(mem[i])
                   m == Len(text)
        <5>1. t \in 1 .. 4 /\ n = i + t
          BY <3>2
        <5>2. L \in Nat /\ m \in Nat /\ i \in 1 .. L /\ i <= m /\ n <= m + 1 /\ n <= L + 1
          BY <1>1, <3>1, <3>2, <3>3
        <5>3. i + (k + 1) >= L + 1
          OBVIOUS
        <5> HIDE DEF n, t, m, L
        <5>4. n \in 1 .. L + 1 /\ i \in 0 .. n - 1 /\ n - 1 \in i .. m /\ i \in 0 .. m
          BY <5>1, <5>2
        <5>5. n + k >= L + 1
          BY <5>1, <5>2, <5>3
        <5> QED BY <5>4, <5>5 DEF m
      <4>2. Counts(n)
        <5> HIDE DEF Counts, n
        <5> QED BY <1>11, <3>2, <4>1
      <4>3. B[n - 1] = B[i]
        <5> HIDE DEF n
        <5> QED BY <1>1, <3>2, <4>1, SpelledOn DEF B
      <4> HIDE DEF n
      <4> QED BY <1>8, <3>1, <4>2, <4>3, Zenon DEF n
    <3>4. CASE ~(n <= L + 1)
      <4>1. mem[n] = NUL
        <5>1. n > L
          BY <1>1, <3>1, <3>2, <3>4
        <5> QED BY <3>2, <5>1, StartGone, Zenon DEF L
      <4>2. n \in 1 .. Len(text) + 1 /\ L \in i .. Len(text) /\ i \in 0 .. Len(text)
            /\ \A j \in i + 1 .. L : j \in i + 1 .. n - 1
        BY <1>1, <3>1, <3>2, <3>4
      <4> HIDE DEF n
      <4>3. B[L] = B[i]
        <5>1. \A j \in i + 1 .. L : text[j] \in Continues
          BY <3>2, <4>2, Zenon
        <5> QED BY <1>1, <4>2, <5>1, SpelledOn DEF B
      <4>4. "codes" \in DOMAIN seen[n] /\ seen[n].codes = <<>>
        BY <1>7, <4>1, <4>2
      <4>5. Width(seen[n].codes) = 0 /\ seen[n].codes \in Seq(S) /\ Width(B[i]) \in Nat
        BY <1>5, <1>6, <4>2, <4>4
      <4>6. Width(seen[n].codes) + Width(B[i]) = Width(B[L])
        BY <4>3, <4>5
      <4> QED BY <1>8, <3>1, <4>4, <4>5, <4>6, Zenon DEF n
    <3> QED BY <3>3, <3>4
  <2> QED BY <2>1, <2>2
<1>12. L \in Good
  <2>1. Nat \subseteq Good
    <3> HIDE DEF Good
    <3> QED BY <1>10, <1>11, NatInd
  <2>2. L \in Nat
    BY <1>1
  <2> HIDE DEF Good
  <2> QED BY <2>1, <2>2
<1>13. Counts(1)
  <2>1. 1 \in 1 .. L + 1 /\ 1 + L >= L + 1
    BY <1>1
  <2> HIDE DEF Counts
  <2> QED BY <1>3, <1>12, <2>1, Zenon
<1>14. Width(seen[1].codes) = Width(B[L])
  <2>1. Width(seen[1].codes) + Width(B[0]) = Width(B[L])
    BY <1>13
  <2>2. Width(B[0]) = 0
    BY <1>4, <1>5
  <2>3. Width(seen[1].codes) \in Nat
    <3> DEFINE q == seen[1].codes
    <3>1. q \in Seq(S)
      BY <1>13
    <3> HIDE DEF q
    <3>2. Cardinality(Wide(q)) \in Nat /\ Width(q) = Len(q) + Cardinality(Wide(q)) /\ Len(q) \in Nat
      BY <3>1, WideIs
    <3>3. Width(q) \in Nat
      BY <3>2
    <3> QED BY <3>3 DEF q
  <2> QED BY <2>1, <2>2, <2>3
<1> QED BY <1>3, <1>14, Zenon DEF WidthFromUTF8, L, B

-----------------------------------------------------------------------------
(* What is left of a text, and what is drawn of it                         *)

\* What was cut off a well-formed text did not fit: with the first bytes up to any that is
\* gone, it is wider than the room there is.  Nothing is cut off a plain text, a character of
\* the list goes as a whole, and one stays.
CutFits ==
  /\ CutClean
  /\ \A j \in strlen(mem) + 1 .. Len(text) : Width(Spelled(text)[j]) > Room
  /\ pc = "draw" \/ way # "header" => strlen(mem) = Len(text) \/ text[strlen(mem) + 1] \notin Continues
  /\ way = "plain" => strlen(mem) = Len(text)
  /\ way = "list" => strlen(mem) # 0 \/ Len(text) = 0

\* What is drawn fits, or is the one character of the list; it is asked for up to where the
\* decoder is.
SentTo(s, m, i, seen) == AtStart(s, i) /\ i <= strlen(m) + 1 /\ seen = Spelled(s)[i - 1]
DrawnFits ==
  /\ pc = "draw" /\ way = "header" => Width(Spelled(text)[strlen(mem)]) <= Room
  /\ pc = "draw" /\ way = "list" =>
       Width(Spelled(text)[strlen(mem)]) <= Room \/ Len(Spelled(text)[strlen(mem)]) = 1
  /\ SentTo(text, mem, p, sent)
  /\ pc = "cut header" => way = "header" /\ p = 1
  /\ pc = "cut list" => way = "list" /\ p = 1

Handled == pc \in {"cut header", "cut list", "draw"}
FitInv == utf8_is_valid(text) /\ Handled => CutFits /\ DrawnFits

\* A buffer's string ends before its first NUL.
LEMMA FirstNul ==
  ASSUME NEW m \in Seq(Bytes), NEW k \in 1 .. Len(m), m[k] = NUL, \A j \in 1 .. k - 1 : m[j] # NUL
  PROVE  strlen(m) = k - 1
<1> DEFINE T == {i \in DOMAIN m : m[i] = NUL}
<1>1. DOMAIN m = 1 .. Len(m) /\ Len(m) \in Nat
  OBVIOUS
<1>2. k \in T /\ \A j \in T : k <= j
  <2>1. ASSUME NEW j \in T PROVE k <= j
    <3>1. j \in 1 .. Len(m) /\ m[j] = NUL
      BY <1>1
    <3>2. j \notin 1 .. k - 1
      BY <3>1
    <3> QED BY <3>1, <3>2
  <2> QED BY <1>1, <2>1
<1>3. \A j \in T : (\A i \in T : j <= i) => j = k
  <2> SUFFICES ASSUME NEW j \in T, \A i \in T : j <= i PROVE j = k
    OBVIOUS
  <2>1. j <= k /\ k <= j /\ j \in Int /\ k \in Int
    BY <1>1, <1>2
  <2> QED BY <2>1
<1>4. Min(T) = k
  <2>1. \E x \in T : \A y \in T : x <= y
    BY <1>2, Zenon
  <2>2. Min(T) \in T /\ \A y \in T : Min(T) <= y
    BY <2>1, Zenon DEF Min
  <2> QED BY <1>3, <2>2, Zenon
<1> QED BY <1>4, Zenon DEF strlen

\* Nothing has no width.
LEMMA NoWidth == ASSUME NEW s, Len(s) \in Nat PROVE Width(Spelled(s)[0]) = 0
<1> DEFINE q == Spelled(s)[0]
<1>1. q = <<>>
  BY SpelledIs
<1> HIDE DEF q
<1>2. Wide(q) = {} /\ Len(q) = 0
  BY <1>1 DEF Wide
<1>3. Cardinality(Wide(q)) = 0
  BY <1>2, FS_EmptySet
<1>4. Width(q) = Len(q) + Cardinality(Wide(q))
  BY Zenon DEF Width, Wide
<1>5. Width(q) = 0
  BY <1>2, <1>3, <1>4
<1> QED BY <1>5 DEF q

\* A text that is asked for is whole, and none of it is sent.
LEMMA AskFits == ASSUME TextInv, ReadInv, Ask PROVE FitInv'
<1> SUFFICES ASSUME utf8_is_valid(text') PROVE CutFits' /\ DrawnFits'
  BY Zenon DEF FitInv
<1>1. /\ text' \in Screens[screen].texts[way'] /\ way' \in Ways /\ mem' = Append(text', NUL)
      /\ p' = 1 /\ sent' = <<>>
      /\ pc' = CASE way' = "header" -> "cut header" [] way' = "list" -> "cut list" [] OTHER -> "draw"
  BY Zenon DEF Ask
<1>2. text' \in Seq(Bytes \ {NUL})
  <2>1. Screens[screen].texts[way'] \subseteq Seq(Bytes \ {NUL})
    BY <1>1, ScreensAssumption, Zenon DEF TextInv
  <2> QED BY <1>1, <2>1
<1>3. /\ Len(text') \in Nat /\ Len(mem') = Len(text') + 1 /\ mem'[Len(text') + 1] = NUL
      /\ \A j \in 1 .. Len(text') : mem'[j] = text'[j] /\ text'[j] # NUL
  <2> DEFINE s == text'
  <2>1. s \in Seq(Bytes \ {NUL}) /\ mem' = Append(s, NUL)
    BY <1>1, <1>2
  <2> HIDE DEF s
  <2>2. /\ Len(Append(s, NUL)) = Len(s) + 1 /\ Append(s, NUL)[Len(s) + 1] = NUL
        /\ Len(s) \in Nat /\ \A j \in 1 .. Len(s) : Append(s, NUL)[j] = s[j]
    BY <2>1, HoldsNew
  <2>3. \A j \in 1 .. Len(s) : s[j] # NUL
    BY <2>1, <2>2, ElementOfSeq
  <2> QED BY <2>1, <2>2, <2>3, Zenon DEF s
<1>4. strlen(mem') = Len(text')
  <2>1. mem' \in Seq(Bytes)
    <3>1. TextInv'
      BY AskKeeps
    <3> QED BY <3>1 DEF TextInv, BufferInv
  <2>2. Len(text') + 1 \in 1 .. Len(mem') /\ (Len(text') + 1) - 1 = Len(text')
    BY <1>3
  <2>3. \A j \in 1 .. (Len(text') + 1) - 1 : mem'[j] # NUL
    BY <1>3, <2>2
  <2> QED BY <1>3, <2>1, <2>2, <2>3, FirstNul
<1> DEFINE none == Len(text') + 1 .. Len(text')
<1>5. none = {}
  BY <1>3
<1>6. AtStart(text', 1) /\ Spelled(text')[0] = <<>>
  BY <1>3, StartsWhole, SpelledIs
<1>7. /\ pc' = "cut header" => way' = "header"
      /\ pc' = "cut list" => way' = "list"
      /\ pc' = "draw" => way' = "plain"
  BY <1>1 DEF Ways
<1>8. CutFits'
  <2>1. strlen(mem') # 0 \/ Len(text') = 0
    BY <1>3, <1>4
  <2>2. CutClean'
    BY <1>4, <1>5, Zenon DEF CutClean
  <2> QED BY <1>4, <1>5, <2>1, <2>2, Zenon DEF CutFits
<1>9. DrawnFits'
  <2>1. 1 <= Len(text') + 1 /\ 1 - 1 = 0
    BY <1>3
  <2>2. sent' = Spelled(text')[p' - 1] /\ p' <= strlen(mem') + 1
    BY <1>1, <1>4, <1>6, <2>1
  <2>3. pc' = "draw" => way' # "header" /\ way' # "list"
    BY <1>7
  <2> QED BY <1>1, <1>6, <1>7, <2>2, <2>3, Zenon DEF DrawnFits, SentTo
<1> QED BY <1>8, <1>9

\* The width of the characters that are left, as a number.
LEMMA WidthNat ==
  ASSUME NEW s, Len(s) \in Nat, NEW j \in 0 .. Len(s)
  PROVE  Width(Spelled(s)[j]) \in Nat
<1> DEFINE q == Spelled(s)[j]
<1>1. q \in Seq(Parts(s))
  BY SpelledIs
<1> HIDE DEF q
<1>2. Cardinality(Wide(q)) \in Nat /\ Width(q) = Len(q) + Cardinality(Wide(q)) /\ Len(q) \in Nat
  BY <1>1, WideIs
<1>3. Width(q) \in Nat
  BY <1>2
<1> QED BY <1>3 DEF q

\* Behind byte i there are only bytes that continue its character; in the list it is the
\* first byte of one, and there is another before it.
GoesAt(i) ==
  /\ i \in 1 .. strlen(mem) /\ \A j \in i + 1 .. strlen(mem) : text[j] \in Continues
  /\ way = "list" => text[i] \notin Continues /\ i # 1

NulAt(m, i) == [m EXCEPT ![i] = NUL]
IsCut == pc \in {"cut header", "cut list"}

\* Cutting a text off at byte i, behind which are only bytes that continue its character.
LEMMA CutOff ==
  ASSUME BufferInv, HoldsText, utf8_is_valid(text), CutFits, DrawnFits, IsCut,
         UNCHANGED <<text, way, p, sent, pc>>, ~Fits,
         NEW i, GoesAt(i), mem' = NulAt(mem, i)
  PROVE  CutFits' /\ DrawnFits'
<1>a. PICK L : L = strlen(mem)
  BY Zenon
<1>b. PICK n : n = Len(text)
  BY Zenon
<1>c. PICK B : B = Spelled(text)
  BY Zenon
<1>1. /\ mem \in Seq(Bytes) /\ n \in Nat /\ Len(mem) = n + 1 /\ L \in 0 .. n
      /\ \A j \in 1 .. L : mem[j] = text[j] /\ mem[j] # NUL
  <2>1. mem \in Seq(Bytes)
    BY Zenon DEF BufferInv
  <2>2. Len(text) \in Nat /\ Len(mem) = Len(text) + 1
    BY DEF HoldsText
  <2>3. L \in 0 .. n /\ \A j \in 1 .. L : mem[j] = text[j] /\ mem[j] # NUL
    BY <2>1, StrlenIs, Zenon, <1>a, <1>b
  <2> QED BY <1>b, <2>1, <2>2, <2>3
<1>d. /\ i \in 1 .. L /\ \A j \in i + 1 .. L : text[j] \in Continues
      /\ way = "list" => text[i] \notin Continues /\ i # 1
  BY <1>a, Zenon DEF GoesAt
<1>2. CutClean /\ \A j \in L + 1 .. n : Width(B[j]) > Room
  BY <1>a, <1>b, <1>c, Zenon DEF CutFits
<1>3. Width(B[L]) > Room
  <2>1. Width(B[L]) \in Nat
    BY <1>1, <1>b, <1>c, WidthNat
  <2>2. WidthFromUTF8(mem) = Width(B[L])
    BY <1>1, <1>2, <1>a, <1>c, MeasuredIs, Zenon
  <2>3. ~(Width(B[L]) <= Room)
    BY <2>2, Zenon DEF Fits
  <2> DEFINE w == Width(B[L])
  <2> HIDE DEF w
  <2>4. w > Room
    BY <2>1, <2>3, NumbersAssumption DEF w
  <2> QED BY <2>4 DEF w
<1>4. /\ mem' \in Seq(Bytes) /\ Len(mem') = n + 1
      /\ \A j \in 1 .. n + 1 : mem'[j] = IF j = i THEN NUL ELSE mem[j]
  <2>1. BufferInv'
    BY CutKeeps, Zenon DEF NulAt
  <2>2. mem' \in Seq(Bytes)
    BY <2>1, Zenon DEF BufferInv
  <2>3. Len(mem') = Len(mem) /\ \A j \in 1 .. Len(mem) : mem'[j] = IF j = i THEN NUL ELSE mem[j]
    BY <1>1 DEF NulAt
  <2> QED BY <1>1, <2>2, <2>3
<1>5. i \in 1 .. n /\ i \in 1 .. L /\ i \in 1 .. n + 1 /\ L <= n /\ L \in Nat
  BY <1>1, <1>d
<1>6. strlen(mem') = i - 1
  <2>1. mem'[i] = NUL /\ \A j \in 1 .. i - 1 : mem'[j] # NUL
    <3>1. \A j \in 1 .. i - 1 : j \in 1 .. L /\ j # i /\ j \in 1 .. n + 1
      <4> SUFFICES ASSUME NEW j \in 1 .. i - 1 PROVE j \in 1 .. L /\ j # i /\ j \in 1 .. n + 1
        OBVIOUS
      <4>1. i \in Int /\ n \in Int /\ L \in Int /\ i <= L /\ i <= n /\ j \in Int /\ 1 <= j /\ j <= i - 1
        BY <1>1, <1>5
      <4> QED BY <4>1
    <3> QED BY <1>1, <1>4, <1>5, <3>1, Zenon
  <2> QED BY <1>4, <1>5, <2>1, FirstNul
<1>7. i - 1 + 1 = i
  BY <1>5
<1>8. ASSUME NEW j \in i .. n, text[j] \notin Continues PROVE mem'[j] = NUL
  <2>1. j = i \/ j \in i + 1 .. L \/ (j \in L + 1 .. n /\ j # i)
    BY <1>5, <1>1
  <2>2. j \in 1 .. n + 1
    BY <1>5, <1>1
  <2>3. CASE j = i
    BY <1>4, <2>2, <2>3
  <2>4. CASE j \in i + 1 .. L
    BY <1>8, <2>4, <1>d, Zenon
  <2>5. CASE j \in L + 1 .. n /\ j # i
    <3>1. mem[j] = NUL
      BY <1>2, <1>8, <2>5, <1>a, <1>b, Zenon DEF CutClean
    <3> QED BY <1>4, <2>2, <2>5, <3>1
  <2> QED BY <2>1, <2>3, <2>4, <2>5
<1>9. ASSUME NEW j \in i .. n PROVE Width(B[j]) > Room
  <2>1. j \in L + 1 .. n \/ j <= L
    BY <1>5, <1>1
  <2>2. CASE j \in L + 1 .. n
    BY <1>2, <2>2
  <2>3. CASE j <= L
    <3>1. j \in 0 .. n /\ L \in j .. n /\ \A k \in j + 1 .. L : k \in i + 1 .. L
      BY <1>5, <1>1, <2>3
    <3>2. \A k \in j + 1 .. L : text[k] \in Continues
      BY <3>1, <1>d, Zenon
    <3>3. B[L] = B[j]
      BY <1>1, <3>1, <3>2, <1>b, <1>c, SpelledOn
    <3> QED BY <1>3, <3>3
  <2> QED BY <2>1, <2>2, <2>3
<1>10. text' = text /\ way' = way /\ p' = p /\ sent' = sent /\ pc' = pc
  BY Zenon
<1>11. (pc = "cut header" /\ way = "header" /\ p = 1) \/ (pc = "cut list" /\ way = "list" /\ p = 1)
  BY DEF DrawnFits, IsCut
<1>12. way' # "plain" /\ pc' # "draw" /\ (way' # "header" => way = "list")
  BY <1>10, <1>11
<1>13. CutFits'
  <2>1. CutClean'
    BY <1>6, <1>7, <1>8, <1>10, <1>b, Zenon DEF CutClean
  <2>2. \A j \in strlen(mem') + 1 .. Len(text') : Width(Spelled(text')[j]) > Room
    BY <1>6, <1>7, <1>9, <1>10, <1>b, <1>c, Zenon
  <2>3. way' # "header" => text'[strlen(mem') + 1] \notin Continues
    BY <1>6, <1>7, <1>10, <1>12, <1>d
  <2>4. way' = "list" => strlen(mem') # 0
    <3>1. way = "list" => i - 1 # 0
      BY <1>5, <1>d
    <3> QED BY <1>6, <1>10, <3>1
  <2> QED BY <1>12, <2>1, <2>2, <2>3, <2>4, Zenon DEF CutFits
<1>14. DrawnFits'
  <2>1. AtStart(text, p) /\ sent = Spelled(text)[p - 1]
    BY Zenon DEF DrawnFits, SentTo
  <2>2. p' <= strlen(mem') + 1
    <3>1. 1 <= i
      BY <1>5
    <3>2. p' = 1
      BY <1>10, <1>11, Zenon
    <3> QED BY <1>6, <1>7, <3>1, <3>2
  <2> QED BY <1>10, <1>11, <1>12, <2>1, <2>2, Zenon DEF DrawnFits, SentTo
<1> QED BY <1>13, <1>14

\* DrawHeader takes off the last byte.
LEMMA HeaderFits ==
  ASSUME BufferInv, HoldsText, utf8_is_valid(text), CutFits, DrawnFits, DrawHeader
  PROVE  CutFits' /\ DrawnFits'
<1> DEFINE L == strlen(mem)
           n == Len(text)
           B == Spelled(text)
<1>1. mem \in Seq(Bytes) /\ n \in Nat /\ L \in 0 .. n
  BY StrlenIs DEF BufferInv, HoldsText
<1>2. /\ pc = "cut header" /\ UNCHANGED <<text, way, p, sent>>
      /\ \/ Fits /\ pc' = "draw" /\ UNCHANGED mem
         \/ ~Fits /\ mem' = [mem EXCEPT ![L] = NUL] /\ UNCHANGED pc
  BY Zenon DEF DrawHeader, Cutting, sentVars
<1>3. WidthFromUTF8(mem) = Width(B[L])
  BY <1>1, MeasuredIs DEF CutFits
<1>4. CASE Fits /\ pc' = "draw" /\ UNCHANGED mem
  <2>1. Width(B[L]) <= Room
    BY <1>3, <1>4, Zenon DEF Fits
  <2>2. L = n \/ text[L + 1] \notin Continues
    <3> SUFFICES ASSUME L # n, text[L + 1] \in Continues PROVE FALSE
      OBVIOUS
    <3>1. L + 1 \in L + 1 .. n /\ L \in 0 .. n /\ L + 1 \in L .. n
      BY <1>1
    <3>2. Width(B[L + 1]) > Room
      BY <3>1, Zenon DEF CutFits
    <3>3. B[L + 1] = B[L]
      <4> HIDE DEF L
      <4>1. \A j \in L + 1 .. L + 1 : j = L + 1
        BY <1>1
      <4> QED BY <1>1, <3>1, <4>1, SpelledOn
    <3>4. Width(B[L]) \in Nat
      BY <1>1, WidthNat
    <3> HIDE DEF B, L
    <3> QED BY <2>1, <3>2, <3>3, <3>4, NumbersAssumption
  <2>3. /\ way = "header" /\ mem' = mem /\ text' = text /\ way' = way /\ p' = p /\ sent' = sent
        /\ pc' = "draw"
    BY <1>2, <1>4, Zenon DEF DrawnFits, SentTo
  <2>4. CutFits'
    BY <2>2, <2>3, Zenon DEF CutFits, CutClean
  <2>5. DrawnFits'
    <3>1. way' # "list" /\ pc' # "cut header" /\ pc' # "cut list"
      BY <2>3
    <3> QED BY <2>1, <2>3, <3>1, Zenon DEF DrawnFits, SentTo
  <2> QED BY <2>4, <2>5
<1>5. CASE ~Fits /\ mem' = [mem EXCEPT ![L] = NUL] /\ UNCHANGED pc
  <2>1. L # 0
    <3> SUFFICES ASSUME L = 0 PROVE FALSE
      OBVIOUS
    <3>1. WidthFromUTF8(mem) = 0
      BY <1>1, <1>3, NoWidth
    <3> QED BY <1>5, <3>1, NumbersAssumption DEF Fits
  <2>2. L \in 1 .. L /\ way # "list"
    <3>1. way = "header"
      BY <1>2, Zenon DEF DrawnFits, SentTo
    <3> HIDE DEF L
    <3> QED BY <1>1, <2>1, <3>1
  <2>3. \A j \in L + 1 .. L : text[j] \in Continues
    BY <1>1
  <2>4. GoesAt(L)
    BY <2>2, <2>3, Zenon DEF GoesAt
  <2>5. IsCut
    BY <1>2, Zenon DEF IsCut
  <2> QED BY <1>2, <1>5, <2>5, <2>4, CutOff, Zenon DEF NulAt
<1> QED BY <1>2, <1>4, <1>5

\* The last byte that is left and begins a character, in a text that was not cut within one.
LEMMA LastStartIs ==
  ASSUME HoldsText, mem \in Seq(Bytes), strlen(mem) # 0
  PROVE  /\ LastStart(mem) \in 1 .. strlen(mem)
         /\ LastStart(mem) = 1 \/ text[LastStart(mem)] \notin Continues
         /\ \A j \in LastStart(mem) + 1 .. strlen(mem) : text[j] \in Continues
<1> DEFINE T == {j \in 1 .. strlen(mem) : j = 1 \/ mem[j] \notin Continues}
<1>a. PICK L : L = strlen(mem)
  BY Zenon
<1>1. L \in Nat /\ L # 0 /\ \A j \in 1 .. L : mem[j] = text[j]
  <2>1. /\ strlen(mem) \in 0 .. Len(text)
        /\ \A j \in 1 .. strlen(mem) : mem[j] = text[j] /\ mem[j] # NUL
    BY StrlenIs
  <2>2. Len(text) \in Nat
    BY DEF HoldsText
  <2>3. L \in 0 .. Len(text) /\ L # 0
    BY <1>a, <2>1, Zenon
  <2> QED BY <1>a, <2>1, <2>2, <2>3
<1>2. T = {j \in 1 .. L : j = 1 \/ mem[j] \notin Continues}
  BY <1>a, Zenon
<1> HIDE DEF T
<1>3. 1 \in T /\ T \subseteq 0 .. L
  BY <1>1, <1>2
<1>4. PICK i \in T : \A j \in T : j <= i
  BY <1>1, <1>3, GreatestBelow
<1>5. \A j \in T : j \in Int
  BY <1>3
<1>6. Max(T) \in T /\ \A j \in T : j <= Max(T)
  <2>1. \E x \in T : \A y \in T : x >= y
    BY <1>4, <1>5
  <2>2. Max(T) \in T /\ \A y \in T : Max(T) >= y
    BY <2>1, Zenon DEF Max
  <2> QED BY <1>5, <2>2
<1>7. PICK m : m = Max(T)
  BY Zenon
<1>8. m \in 1 .. L /\ (m = 1 \/ text[m] \notin Continues)
  BY <1>1, <1>2, <1>6, <1>7
<1>9. ASSUME NEW j \in m + 1 .. L PROVE text[j] \in Continues
  <2>1. j \in 1 .. L /\ j # 1 /\ ~(j <= m)
    BY <1>1, <1>8
  <2>2. j \notin T
    BY <1>6, <1>7, <2>1, Zenon
  <2> QED BY <1>1, <1>2, <2>1, <2>2, Zenon
<1>10. LastStart(mem) = m
  BY <1>7, Zenon DEF LastStart, T
<1> QED BY <1>a, <1>8, <1>9, <1>10, Zenon

\* DrawGameList takes off the last character.
LEMMA ListFits ==
  ASSUME BufferInv, HoldsText, utf8_is_valid(text), CutFits, DrawnFits, DrawGameList
  PROVE  CutFits' /\ DrawnFits'
<1>a. PICK L : L = strlen(mem)
  BY Zenon
<1>b. PICK n : n = Len(text)
  BY Zenon
<1>c. PICK B : B = Spelled(text)
  BY Zenon
<1>d. PICK i : i = LastStart(mem)
  BY Zenon
<1>1. /\ mem \in Seq(Bytes) /\ n \in Nat /\ L \in 0 .. n
      /\ \A j \in 1 .. L : mem[j] = text[j] /\ mem[j] # NUL
  <2>1. mem \in Seq(Bytes)
    BY Zenon DEF BufferInv
  <2>2. Len(text) \in Nat
    BY DEF HoldsText
  <2> QED BY <1>a, <1>b, <2>1, <2>2, StrlenIs, Zenon
<1>2. /\ pc = "cut list" /\ UNCHANGED <<text, way, p, sent>>
      /\ \/ ~Fits /\ L > 1 /\ (i > 1 \/ mem[1] \in ASCII) /\ mem' = NulAt(mem, i) /\ UNCHANGED pc
         \/ ~(~Fits /\ L > 1 /\ (i > 1 \/ mem[1] \in ASCII)) /\ pc' = "draw" /\ UNCHANGED mem
  BY <1>a, <1>d, Zenon DEF DrawGameList, Cutting, NulAt, sentVars
<1>3. way = "list" /\ p = 1
  BY <1>2, Zenon DEF DrawnFits, SentTo
<1>4. WidthFromUTF8(mem) = Width(B[L])
  BY <1>1, <1>a, <1>c, MeasuredIs, Zenon DEF CutFits
<1>5. L # 0 => /\ i \in 1 .. L /\ (i = 1 \/ text[i] \notin Continues)
               /\ \A j \in i + 1 .. L : text[j] \in Continues
  BY <1>1, <1>a, <1>d, LastStartIs, Zenon
<1>6. L # 0 => AtStart(text, 1) /\ text[1] \notin Continues /\ 1 <= n
  <2> SUFFICES ASSUME L # 0 PROVE AtStart(text, 1) /\ text[1] \notin Continues /\ 1 <= n
    OBVIOUS
  <2>1. 1 <= n
    BY <1>1
  <2>2. AtStart(text, 1)
    BY <1>1, <1>b, StartsWhole, Zenon
  <2> QED BY <1>1, <1>b, <2>1, <2>2, StartIs, Zenon
<1>7. CASE ~Fits /\ L > 1 /\ (i > 1 \/ mem[1] \in ASCII) /\ mem' = NulAt(mem, i) /\ UNCHANGED pc
  <2>1. L # 0 /\ 1 \in 1 .. L /\ 2 \in 1 .. L /\ 2 <= n /\ L \in Nat
    BY <1>1, <1>7
  <2>2. i # 1
    <3> SUFFICES ASSUME i = 1 PROVE FALSE
      OBVIOUS
    <3>1. mem[1] \in ASCII
      BY <1>7
    <3>2. utf8_char_len(text[1]) = 1
      <4>1. text[1] \in ASCII
        BY <1>1, <2>1, <3>1
      <4>2. utf8_char_len("a") = 1 /\ utf8_char_len(Blank) = 1
        BY DEF utf8_char_len, ASCII, Blank, NUL
      <4> QED BY <4>1, <4>2, Zenon DEF ASCII
    <3>3. Taken(text[1]) = 1
      <4>1. 1 # 0
        OBVIOUS
      <4> QED BY <3>2, <4>1, Zenon DEF Taken
    <3>4. AtStart(text, 1 + 1)
      BY <1>1, <1>6, <1>b, <2>1, <3>3, StartIs, Zenon
    <3>5. AtStart(text, 2)
      BY <3>4
    <3>6. text[2] \notin Continues
      BY <1>1, <1>b, <2>1, <3>5, StartIs, Zenon
    <3>7. 2 \in i + 1 .. L
      BY <2>1
    <3> QED BY <1>5, <2>1, <3>6, <3>7, Zenon
  <2>3. GoesAt(i)
    BY <1>5, <1>a, <2>1, <2>2, Zenon DEF GoesAt
  <2>4. IsCut
    BY <1>2, Zenon DEF IsCut
  <2>5. UNCHANGED <<text, way, p, sent, pc>> /\ ~Fits /\ mem' = NulAt(mem, i)
    BY <1>2, <1>7, Zenon
  <2> QED BY <2>3, <2>4, <2>5, CutOff, Zenon
<1>8. CASE ~(~Fits /\ L > 1 /\ (i > 1 \/ mem[1] \in ASCII)) /\ pc' = "draw" /\ UNCHANGED mem
  <2>1. Width(B[L]) <= Room \/ Len(B[L]) = 1
    <3> SUFFICES ASSUME ~Fits PROVE Len(B[L]) = 1
      BY <1>4, Zenon DEF Fits
    <3>1. L # 0
      <4> SUFFICES ASSUME L = 0 PROVE FALSE
        OBVIOUS
      <4>1. WidthFromUTF8(mem) = 0
        BY <1>1, <1>4, <1>b, <1>c, NoWidth
      <4>2. ~(0 <= Room)
        BY <4>1, Zenon DEF Fits
      <4> QED BY <4>2, NumbersAssumption
    <3>2. \A j \in 1 + 1 .. L : text[j] \in Continues
      <4>1. CASE L > 1
        <5>1. i = 1
          <6>1. ~(i > 1)
            BY <1>8, <4>1, Zenon
          <6> QED BY <1>1, <1>5, <3>1, <6>1
        <5> QED BY <1>5, <3>1, <5>1
      <4>2. CASE ~(L > 1)
        BY <1>1, <4>2
      <4> QED BY <4>1, <4>2
    <3>3. 1 \in 0 .. n /\ L \in 1 .. n /\ 1 - 1 = 0 /\ 1 \in 1 .. n
      BY <1>1, <3>1
    <3>4. B[L] = B[1]
      BY <1>1, <1>b, <1>c, <3>2, <3>3, SpelledOn, Zenon
    <3>5. B[1] = Append(<<>>, CharAt(text, 1))
      <4>1. B[1] = Append(B[1 - 1], CharAt(text, 1)) /\ B[0] = <<>>
        BY <1>1, <1>6, <1>b, <1>c, <3>1, SpelledStart, SpelledIs, Zenon
      <4> QED BY <4>1, <3>3, Zenon
    <3>6. Len(B[1]) = 1
      BY <3>5
    <3> QED BY <3>4, <3>6
  <2>2. /\ mem' = mem /\ text' = text /\ way' = way /\ p' = p /\ sent' = sent /\ pc' = "draw"
        /\ way' = "list" /\ way # "header"
    <3>1. way # "header"
      BY <1>3
    <3> QED BY <1>2, <1>3, <1>8, <3>1, Zenon
  <2>3. CutFits'
    BY <2>2, Zenon DEF CutFits, CutClean
  <2>4. DrawnFits'
    <3>1. way' # "header" /\ pc' # "cut header" /\ pc' # "cut list"
      BY <2>2
    <3>2. Width(Spelled(text)[strlen(mem)]) <= Room \/ Len(Spelled(text)[strlen(mem)]) = 1
      BY <2>1, <1>a, <1>c, Zenon
    <3> QED BY <2>2, <3>1, <3>2, Zenon DEF DrawnFits, SentTo
  <2> QED BY <2>3, <2>4
<1> QED BY <1>2, <1>7, <1>8

\* Before the first NUL, what is left of a text and is drawn begins with a character, which
\* is there whole and is the next to be sent.
LEMMA NextSent ==
  ASSUME BufferInv, HoldsText, utf8_is_valid(text), CutFits, DrawnFits, pc = "draw", mem[p] # NUL
  PROVE  /\ mem[p] \notin Continues /\ mem[p] # "?" /\ utf8_char_len(mem[p]) # 0
         /\ Taken(mem[p]) \in 1 .. 4
         /\ p + Taken(mem[p]) - 1 <= strlen(mem) /\ p \in 1 .. strlen(mem)
         /\ \A k \in p + 1 .. p + Taken(mem[p]) - 1 : mem[k] \in Continues
         /\ SentTo(text, mem, p + Taken(mem[p]), Append(sent, CharAt(mem, p)))
<1>a. PICK L : L = strlen(mem)
  BY Zenon
<1>b. PICK n : n = Len(text)
  BY Zenon
<1>c. PICK B : B = Spelled(text)
  BY Zenon
<1>d. PICK t : t = Taken(text[p])
  BY Zenon
<1>1. /\ mem \in Seq(Bytes) /\ n \in Nat /\ L \in 0 .. n /\ mem[L + 1] = NUL
      /\ \A j \in 1 .. L : mem[j] = text[j] /\ mem[j] # NUL
  <2>1. mem \in Seq(Bytes)
    BY Zenon DEF BufferInv
  <2>2. Len(text) \in Nat
    BY DEF HoldsText
  <2> QED BY <1>a, <1>b, <2>1, <2>2, StrlenIs, Zenon
<1>2. AtStart(text, p) /\ p <= L + 1 /\ sent = B[p - 1]
  BY <1>a, <1>c, Zenon DEF DrawnFits, SentTo
<1>3. p \in 1 .. n + 1
  BY <1>2, <1>b, Zenon DEF AtStart
<1>4. p \in 1 .. L /\ p <= n
  <2>1. p # L + 1
    BY <1>1, Zenon
  <2> QED BY <1>1, <1>2, <1>3, <2>1
<1>5. mem[p] = text[p]
  BY <1>1, <1>4
<1>6. /\ text[p] \notin Continues /\ text[p] # "?" /\ utf8_char_len(text[p]) # 0 /\ t \in 1 .. 4
      /\ p + t <= n + 1 /\ (\A k \in p + 1 .. p + t - 1 : text[k] \in Continues)
      /\ AtStart(text, p + t)
  BY <1>1, <1>2, <1>4, <1>b, <1>d, StartIs, Zenon
<1>7. L = n \/ text[L + 1] \notin Continues
  BY <1>a, <1>b, Zenon DEF CutFits
<1>8. p + t - 1 <= L
  <2> SUFFICES ASSUME ~(p + t - 1 <= L) PROVE FALSE
    OBVIOUS
  <2>1. L + 1 \in p + 1 .. p + t - 1 /\ L # n
    BY <1>1, <1>4, <1>6
  <2> QED BY <1>6, <1>7, <2>1, Zenon
<1>9. ASSUME NEW k \in p + 1 .. p + t - 1 PROVE mem[k] \in Continues
  <2>1. k \in 1 .. L
    BY <1>1, <1>4, <1>6, <1>8
  <2> QED BY <1>1, <1>6, <2>1, Zenon
<1>10. B[p + t - 1] = Append(B[p - 1], CharAt(text, p))
  <2>1. Spelled(text)[p] = Append(Spelled(text)[p - 1], CharAt(text, p))
        /\ Spelled(text)[p + Taken(text[p]) - 1] = Spelled(text)[p]
    BY <1>1, <1>2, <1>4, <1>b, SpelledStart, Zenon
  <2> QED BY <2>1, <1>c, <1>d, Zenon
<1>11. CharAt(mem, p) = CharAt(text, p)
  <2>1. CharAt(mem, p) = SubSeq(mem, p, p + t - 1) /\ CharAt(text, p) = SubSeq(text, p, p + t - 1)
    BY <1>5, <1>d, Zenon DEF CharAt
  <2>2. \A k \in p .. p + t - 1 : mem[k] = text[k]
    <3>1. \A k \in p .. p + t - 1 : k \in 1 .. L
      BY <1>1, <1>4, <1>6, <1>8
    <3> QED BY <1>1, <3>1, Zenon
  <2>3. \A k \in 1 .. t : p + k - 1 \in p .. p + t - 1
    BY <1>4, <1>6
  <2>4. SubSeq(mem, p, p + t - 1) = SubSeq(text, p, p + t - 1)
    <3> DEFINE u == SubSeq(mem, p, p + t - 1)
               v == SubSeq(text, p, p + t - 1)
    <3>1. text \in Seq(Bytes) /\ Len(text) = n /\ Len(mem) = n + 1
      BY <1>b DEF HoldsText
    <3>2. /\ p \in 1 .. Len(mem) + 1 /\ p \in 1 .. Len(text) + 1
          /\ p + t - 1 \in p - 1 .. Len(mem) /\ p + t - 1 \in p - 1 .. Len(text) /\ (p + t - 1) - p + 1 = t
      BY <1>1, <1>4, <1>6, <3>1
    <3>3. u \in Seq(Bytes) /\ Len(u) = t /\ \A k \in 1 .. t : u[k] = mem[p + k - 1]
      BY <1>1, <3>2, SubSeqProperties
    <3>4. v \in Seq(Bytes) /\ Len(v) = t /\ \A k \in 1 .. t : v[k] = text[p + k - 1]
      BY <3>1, <3>2, SubSeqProperties
    <3>5. \A k \in 1 .. t : mem[p + k - 1] = text[p + k - 1]
      BY <2>2, <2>3, Zenon
    <3> HIDE DEF u, v
    <3>6. \A k \in 1 .. Len(u) : u[k] = v[k]
      BY <3>3, <3>4, <3>5, Zenon
    <3>7. u = v
      BY <3>3, <3>4, <3>6, SeqEqual
    <3> QED BY <3>7, Zenon DEF u, v
  <2> QED BY <2>1, <2>4, Zenon
<1>12. p + t <= L + 1
  BY <1>1, <1>4, <1>6, <1>8
<1>13. Taken(mem[p]) = t
  BY <1>5, <1>d, Zenon
<1>14. B[p + t - 1] = Append(sent, CharAt(mem, p))
  BY <1>2, <1>10, <1>11, Zenon
<1>15. SentTo(text, mem, p + t, Append(sent, CharAt(mem, p)))
  <2>1. p + t <= strlen(mem) + 1
    BY <1>12, <1>a, Zenon
  <2>2. Append(sent, CharAt(mem, p)) = Spelled(text)[p + t - 1]
    BY <1>14, <1>c, Zenon
  <2>3. AtStart(text, p + t)
    BY <1>6
  <2>4. (p + t) - 1 = p + t - 1
    BY <1>4, <1>6
  <2> QED BY <2>1, <2>2, <2>3, <2>4, Zenon DEF SentTo
<1> QED BY <1>4, <1>5, <1>6, <1>8, <1>9, <1>13, <1>15, <1>a, Zenon

\* The next character is sent.
LEMMA SendsNext ==
  ASSUME BufferInv, HoldsText, utf8_is_valid(text), CutFits, DrawnFits, pc = "draw", mem[p] # NUL,
         UNCHANGED <<text, way, mem, pc>>, p' = p + Taken(mem[p]), sent' = Append(sent, CharAt(mem, p))
  PROVE  CutFits' /\ DrawnFits'
<1>1. CutFits'
  <2>1. text' = text /\ way' = way /\ mem' = mem /\ pc' = pc
    BY Zenon
  <2> QED BY <2>1, Zenon DEF CutFits, CutClean
<1>2. DrawnFits'
  <2>1. SentTo(text, mem, p + Taken(mem[p]), Append(sent, CharAt(mem, p)))
    BY NextSent, Zenon
  <2>2. text' = text /\ way' = way /\ mem' = mem /\ pc' = "draw" /\ pc' # "cut header" /\ pc' # "cut list"
    <3>1. pc' = "draw" /\ text' = text /\ way' = way /\ mem' = mem
      BY Zenon
    <3>2. "draw" # "cut header" /\ "draw" # "cut list"
      OBVIOUS
    <3> QED BY <3>1, <3>2, Zenon
  <2>3. SentTo(text', mem', p', sent')
    BY <2>1, <2>2, Zenon
  <2> QED BY <2>2, <2>3, Zenon DEF DrawnFits
<1> QED BY <1>1, <1>2

\* A pass over the text begins, with nothing sent of it.
LEMMA PassBegins ==
  ASSUME HoldsText, utf8_is_valid(text), CutFits, DrawnFits, pc = "draw", BufferInv,
         UNCHANGED <<text, way, mem, pc>>, p' = 1, sent' = <<>>
  PROVE  CutFits' /\ DrawnFits'
<1>1. text' = text /\ way' = way /\ mem' = mem /\ pc' = "draw" /\ pc = "draw"
  BY Zenon
<1>2. CutFits'
  BY <1>1, Zenon DEF CutFits, CutClean
<1>3. Len(text) \in Nat /\ mem \in Seq(Bytes)
  BY DEF HoldsText, BufferInv
<1>4. AtStart(text, 1) /\ Spelled(text)[0] = <<>>
  BY <1>3, StartsWhole, SpelledIs, Zenon
<1>5. 1 <= strlen(mem) + 1 /\ 1 - 1 = 0
  <2>1. strlen(mem) \in 0 .. Len(text)
    BY <1>3, StrlenIs
  <2> QED BY <1>3, <2>1
<1>6. AtStart(text', p') /\ p' <= strlen(mem') + 1 /\ sent' = Spelled(text')[p' - 1]
  BY <1>1, <1>4, <1>5, Zenon
<1>7. pc' # "cut header" /\ pc' # "cut list"
  BY <1>1
<1>8. DrawnFits'
  BY <1>1, <1>6, <1>7, Zenon DEF DrawnFits, SentTo
<1> QED BY <1>2, <1>8

\* What display_ttf_string makes of the next character of a well-formed text is the whole
\* character, and it goes on.
LEMMA DisplayedWhole ==
  ASSUME BufferInv, HoldsText, utf8_is_valid(text), CutFits, DrawnFits, pc = "draw", mem[p] # NUL
  PROVE  /\ Displayed(mem, p).code = CharAt(mem, p)
         /\ Displayed(mem, p).next = p + Taken(mem[p])
         /\ ~AtEnd
<1> DEFINE len == DisplayLength(mem[p])
           wanted == p + 1 .. p + len - 1
           bad == {i \in wanted : i > Len(mem) \/ mem[i] \notin Continues}
           next == IF bad = {} THEN p + len ELSE Min(bad)
           d == Displayed(mem, p)
           t == Taken(mem[p])
<1>0. mem[p] \in Bytes \ {NUL}
  <2>1. mem \in Seq(Bytes) /\ p \in 1 .. strlen(mem) /\ strlen(mem) \in 0 .. Len(text) /\ Len(mem) = Len(text) + 1
    BY NextSent, StrlenIs DEF BufferInv, HoldsText
  <2> QED BY <2>1 DEF HoldsText
<1>1. /\ mem[p] \notin Continues /\ mem[p] # "?" /\ t \in 1 .. 4
      /\ p + t - 1 <= strlen(mem) /\ p \in 1 .. strlen(mem)
      /\ \A k \in p + 1 .. p + t - 1 : mem[k] \in Continues
  BY NextSent, Zenon
<1>2. len = t
  BY <1>1, Zenon DEF DisplayLength
<1>3. d = [code |-> IF next = p + 1 /\ mem[p] \notin ASCII THEN <<"a">> ELSE SubSeq(mem, p, next - 1),
           next |-> next,
           more |-> ~(bad # {} /\ next \in DOMAIN mem /\ mem[next] = NUL)]
  BY Zenon DEF Displayed
<1> HIDE DEF d, t, len
<1>4. bad = {}
  <2>1. strlen(mem) \in 0 .. Len(text) /\ Len(mem) = Len(text) + 1 /\ Len(text) \in Nat
    <3>1. mem \in Seq(Bytes) /\ Len(mem) = Len(text) + 1 /\ Len(text) \in Nat
      BY DEF BufferInv, HoldsText
    <3> QED BY <3>1, StrlenIs
  <2>2. PICK L : L = strlen(mem)
    BY Zenon
  <2>3. \A i \in wanted : i \in p + 1 .. p + t - 1
    BY <1>2
  <2>4. ASSUME NEW i \in wanted PROVE ~(i > Len(mem))
    <3>1. i <= p + t - 1 /\ i \in Int /\ p \in Int /\ t \in Int
      BY <1>1, <2>3
    <3>2. p + t - 1 <= L /\ L <= Len(text)
      BY <1>1, <2>1, <2>2
    <3>3. L \in Int
      BY <2>1, <2>2
    <3> QED BY <2>1, <3>1, <3>2, <3>3
  <2> QED BY <1>1, <2>3, <2>4, Zenon
<1> HIDE DEF bad
<1>5. next = p + t
  BY <1>2, <1>4
<1> HIDE DEF next
<1>6. d.next = p + t /\ d.code = SubSeq(mem, p, next - 1) /\ d.more = TRUE
  <2>1. next = p + 1 => t = 1
    BY <1>1, <1>5
  <2>2. t = 1 => mem[p] \in ASCII
    BY <1>0, <1>1 DEF t, Taken, utf8_char_len, Continues, Bytes
  <2> QED BY <1>3, <1>4, <1>5, <2>1, <2>2
<1>7. d.code = CharAt(mem, p)
  <2>1. CharAt(mem, p) = SubSeq(mem, p, p + t - 1)
    BY Zenon DEF CharAt, t
  <2>2. PICK L : L = strlen(mem)
    BY Zenon
  <2>3. strlen(mem) \in 0 .. Len(text) /\ Len(text) \in Nat
    BY StrlenIs DEF BufferInv, HoldsText
  <2>4. L \in 0 .. Len(text) /\ p \in 1 .. L
    BY <1>1, <2>2, <2>3, Zenon
  <2>5. (p + t) - 1 = p + t - 1
    BY <1>1, <2>3, <2>4
  <2> QED BY <1>5, <1>6, <2>1, <2>5, Zenon
<1>8. ~AtEnd
  BY <1>6, Zenon DEF AtEnd, d
<1> QED BY <1>6, <1>7, <1>8, Zenon DEF d, t

\* Every step of the loop over a character sends the next one.
LEMMA DrawsNext ==
  ASSUME BufferInv, HoldsText, utf8_is_valid(text), CutFits, DrawnFits, pc = "draw", mem[p] # NUL
  PROVE  /\ DrawUTF8String /\ pc' = pc => p' = p + Taken(mem[p]) /\ sent' = Append(sent, CharAt(mem, p))
         /\ PassOver => p' = p + Taken(mem[p]) /\ sent' = Append(sent, CharAt(mem, p))
         /\ DrawGlyph /\ pc' = pc => p' = p + Taken(mem[p]) /\ sent' = Append(sent, CharAt(mem, p))
         /\ ~EndOfText
<1>1. mem[p] \notin Continues /\ utf8_char_len(mem[p]) # 0 /\ p \in 1 .. strlen(mem)
  BY NextSent, Zenon
<1>2. /\ Displayed(mem, p).code = CharAt(mem, p) /\ Displayed(mem, p).next = p + Taken(mem[p])
      /\ ~AtEnd
  BY DisplayedWhole, Zenon
<1>3. utf8_decode(mem, p) = CharAt(mem, p)
  BY <1>1, Zenon DEF utf8_decode, CharAt
<1>4. ASSUME DrawUTF8String, pc' = pc PROVE p' = p + Taken(mem[p]) /\ sent' = Append(sent, CharAt(mem, p))
  <2>1. \/ pc' = "undefined" \/ mem[p] = NUL
        \/ sent' = Append(sent, utf8_decode(mem, p)) /\ p' = p + Taken(mem[p])
    BY <1>4, Zenon DEF DrawUTF8String, Send
  <2>2. pc' # "undefined"
    BY <1>4
  <2> QED BY <1>3, <2>1, <2>2, Zenon
<1>5. ASSUME PassOver PROVE p' = p + Taken(mem[p]) /\ sent' = Append(sent, CharAt(mem, p))
  <2>1. mem[p] = Blank /\ p' = p + 1 /\ sent' = Append(sent, <<Blank>>)
    BY <1>1, <1>5, Zenon DEF PassOver
  <2>2. Taken(Blank) = 1
    BY DEF Taken, utf8_char_len, ASCII, Blank, NUL
  <2>3. CharAt(mem, p) = <<Blank>>
    <3>1. CharAt(mem, p) = SubSeq(mem, p, p + 1 - 1)
      BY <2>1, <2>2, Zenon DEF CharAt
    <3>2. PICK L : L = strlen(mem)
      BY Zenon
    <3>3. p \in 1 .. L /\ L \in Nat
      <4>1. strlen(mem) \in 0 .. Len(text) /\ Len(text) \in Nat
        BY StrlenIs DEF BufferInv, HoldsText
      <4> QED BY <1>1, <3>2, <4>1
    <3>4. p \in Int /\ p + 1 - 1 = p
      BY <3>3
    <3>5. SubSeq(mem, p, p) = <<mem[p]>>
      <4> DEFINE u == SubSeq(mem, p, p)
                 b == mem[p]
      <4>1. \A k \in p .. p : mem[k] \in Bytes
        <5>1. mem \in Seq(Bytes) /\ L \in 0 .. Len(text) /\ Len(mem) = Len(text) + 1 /\ Len(text) \in Nat
          BY <3>2, StrlenIs DEF BufferInv, HoldsText
        <5> QED BY <3>3, <5>1
      <4>2. u \in Seq(Bytes) /\ Len(u) = 1 /\ \A k \in 1 .. p - p + 1 : u[k] = mem[p + k - 1]
        BY <3>4, <4>1, SubSeqProperties
      <4>3. u[1] = b /\ b \in Bytes
        <5>1. 1 \in 1 .. p - p + 1 /\ p + 1 - 1 = p /\ p \in p .. p
          BY <3>4
        <5> QED BY <4>1, <4>2, <5>1, Zenon
      <4> HIDE DEF u, b
      <4>4. <<b>> \in Seq(Bytes) /\ Len(<<b>>) = 1 /\ <<b>>[1] = b
        BY <4>3
      <4>5. \A k \in 1 .. Len(u) : u[k] = <<b>>[k]
        BY <4>2, <4>3, <4>4
      <4>6. u = <<b>>
        BY <4>2, <4>4, <4>5, SeqEqual
      <4> QED BY <4>6 DEF u, b
    <3> QED BY <2>1, <3>1, <3>4, <3>5, Zenon
  <2> QED BY <2>1, <2>2, <2>3, Zenon
<1>6. ASSUME DrawGlyph, pc' = pc PROVE p' = p + Taken(mem[p]) /\ sent' = Append(sent, CharAt(mem, p))
  <2>1. pc' # "no texture"
    BY <1>6
  <2>2. \/ pc' = "no texture"
        \/ sent' = Append(sent, Displayed(mem, p).code) /\ p' = Displayed(mem, p).next
    BY <1>6, Zenon DEF DrawGlyph, Send
  <2> QED BY <1>2, <2>1, <2>2, Zenon
<1>7. ~EndOfText
  BY <1>2, Zenon DEF EndOfText
<1> QED BY <1>4, <1>5, <1>6, <1>7, Zenon

\* Every step leaves what fits, and sends it in order.
LEMMA FitNext == TextInv /\ ReadInv /\ FitInv /\ [Next]_vars => FitInv'
<1> SUFFICES ASSUME TextInv, ReadInv, FitInv, [Next]_vars, utf8_is_valid(text'), Handled'
             PROVE  CutFits' /\ DrawnFits'
  BY Zenon DEF FitInv
<1>0. HoldsText /\ BufferInv
  BY Zenon DEF ReadInv, TextInv
<1>a. pc' # "idle" /\ pc' # "undefined" /\ pc' # "no texture"
  BY DEF Handled
<1>b. pc \in {"cut header", "cut list", "draw"} /\ text' = text => utf8_is_valid(text) /\ CutFits /\ DrawnFits
  BY Zenon DEF FitInv, Handled
<1>c. ~Done
  BY <1>a, Zenon DEF Done
<1>1. CASE UNCHANGED vars
  <2>1. text' = text /\ way' = way /\ mem' = mem /\ p' = p /\ sent' = sent /\ pc' = pc
    BY <1>1, Zenon DEF vars, sentVars
  <2>2. CutFits /\ DrawnFits
    <3>1. pc \in {"cut header", "cut list", "draw"}
      BY <2>1, Zenon DEF Handled
    <3> QED BY <1>b, <2>1, <3>1, Zenon
  <2>3. CutFits'
    BY <2>1, <2>2, Zenon DEF CutFits, CutClean
  <2>4. DrawnFits'
    BY <2>1, <2>2, Zenon DEF DrawnFits
  <2> QED BY <2>3, <2>4
<1>2. CASE Ask
  <2>1. FitInv'
    BY <1>2, AskFits
  <2> QED BY <2>1, Zenon DEF FitInv
<1>3. CASE ReadsBehind \/ Flip
  BY <1>3, <1>a, Zenon DEF ReadsBehind, Flip
<1>4. CASE DrawHeader
  <2>1. pc \in {"cut header", "cut list", "draw"} /\ text' = text
    BY <1>4, Zenon DEF DrawHeader, Cutting
  <2> QED BY <1>0, <1>b, <1>4, <2>1, HeaderFits, Zenon
<1>5. CASE DrawGameList
  <2>1. pc \in {"cut header", "cut list", "draw"} /\ text' = text
    BY <1>5, Zenon DEF DrawGameList, Cutting
  <2> QED BY <1>0, <1>b, <1>5, <2>1, ListFits, Zenon
<1>6. ASSUME pc = "draw", UNCHANGED <<text, way, mem, pc>>, mem[p] # NUL,
             \/ DrawUTF8String
             \/ PassOver
             \/ DrawGlyph
      PROVE  CutFits' /\ DrawnFits'
  <2>1. utf8_is_valid(text) /\ CutFits /\ DrawnFits
    BY <1>b, <1>6, Zenon
  <2>2. p' = p + Taken(mem[p]) /\ sent' = Append(sent, CharAt(mem, p))
    BY <1>0, <1>6, <2>1, DrawsNext, Zenon
  <2> QED BY <1>0, <1>6, <2>1, <2>2, SendsNext, Zenon
<1>7. CASE DrawUTF8String
  <2>1. pc = "draw"
    BY <1>7, Zenon DEF DrawUTF8String, Drawing
  <2>2. mem[p] # NUL /\ UNCHANGED <<text, way, mem, pc>>
    BY <1>7, <1>a, <1>c, Zenon DEF DrawUTF8String
  <2> QED BY <1>6, <1>7, <2>1, <2>2, Zenon
<1>8. CASE PassOver
  <2>1. pc = "draw" /\ mem[p] \in Continues \cup {Blank} /\ UNCHANGED <<text, way, mem, pc>>
    BY <1>8, Zenon DEF PassOver, Drawing
  <2>2. mem[p] # NUL
    BY <2>1, NulIs, Zenon
  <2> QED BY <1>6, <1>8, <2>1, <2>2, Zenon
<1>9. CASE EndOfText
  <2>1. pc = "draw" /\ p' = 1 /\ sent' = <<>> /\ UNCHANGED <<text, way, mem, pc>>
    BY <1>9, <1>c, Zenon DEF EndOfText, EndPass, Drawing
  <2>2. utf8_is_valid(text) /\ CutFits /\ DrawnFits
    BY <1>b, <2>1, Zenon
  <2> QED BY <1>0, <2>1, <2>2, PassBegins, Zenon
<1>10. CASE DrawGlyph
  <2>1. pc = "draw" /\ mem[p] # NUL
    BY <1>10, Zenon DEF DrawGlyph, Drawing, AtEnd
  <2>2. UNCHANGED <<text, way, mem, pc>>
    BY <1>10, <1>a, Zenon DEF DrawGlyph
  <2> QED BY <1>6, <1>10, <2>1, <2>2, Zenon
<1> QED BY <1>1, <1>2, <1>3, <1>4, <1>5, <1>7, <1>8, <1>9, <1>10, Zenon DEF Next, DrawStep

LEMMA FitInit == Init => FitInv
<1> SUFFICES ASSUME Init PROVE ~Handled
  BY Zenon DEF FitInv
<1>1. pc = "idle"
  BY Zenon DEF Init
<1> QED BY <1>1 DEF Handled

\* The first characters of a text, by their number and by their bytes.
LEMMA FirstCharacters ==
  ASSUME NEW s, Len(s) \in Nat, NEW j \in 0 .. Len(s)
  PROVE  SubSeq(CharsOf(s), 1, Len(Spelled(s)[j])) = Spelled(s)[j]
<1> DEFINE chars == CharsOf(s)
           b == Spelled(s)[j]
           u == SubSeq(chars, 1, Len(b))
<1>1. Len(s) \in j .. Len(s) /\ Len(s) \in 0 .. Len(s)
  OBVIOUS
<1>2. chars = Spelled(s)[Len(s)]
  BY Zenon DEF CharsOf
<1>3. /\ Len(b) \in Nat /\ Len(chars) \in Nat /\ Len(b) <= Len(chars)
      /\ \A i \in 1 .. Len(b) : chars[i] = b[i]
  <2>1. /\ Len(Spelled(s)[j]) \in Nat /\ Len(Spelled(s)[Len(s)]) \in Nat
        /\ Len(Spelled(s)[j]) <= Len(Spelled(s)[Len(s)])
        /\ \A i \in 1 .. Len(Spelled(s)[j]) : Spelled(s)[Len(s)][i] = Spelled(s)[j][i]
    <3> HIDE DEF b, chars
    <3> QED BY <1>1, SpelledOn, Zenon
  <2> QED BY <1>2, <2>1, Zenon
<1>4. b \in Seq(Parts(s)) /\ chars \in Seq(Parts(s))
  BY <1>1, <1>2, SpelledIs
<1> HIDE DEF chars, b
<1>5. 1 \in Int /\ Len(b) \in Int /\ \A i \in 1 .. Len(b) : chars[i] \in Parts(s)
  BY <1>3, <1>4
<1>6. u \in Seq(Parts(s)) /\ Len(u) = Len(b) /\ \A i \in 1 .. Len(b) - 1 + 1 : u[i] = chars[1 + i - 1]
  BY <1>3, <1>5, SubSeqProperties
<1>7. \A i \in 1 .. Len(u) : u[i] = b[i]
  <2>1. \A i \in 1 .. Len(u) : i \in 1 .. Len(b) - 1 + 1 /\ 1 + i - 1 = i /\ i \in 1 .. Len(b)
    BY <1>3, <1>6
  <2> HIDE DEF u
  <2> QED BY <1>3, <1>6, <2>1, Zenon
<1> HIDE DEF u
<1>8. u = b
  BY <1>4, <1>6, <1>7, SeqEqual
<1> QED BY <1>8 DEF u, b, chars

\* What is sent in the end is as much as fits.
LEMMA FitsMost ==
  ASSUME TextInv, ReadInv, FitInv, pc = "draw", AtEnd, utf8_is_valid(text)
  PROVE  LET chars == CharsOf(text)
             fits == {n \in 0 .. Len(chars) : Width(SubSeq(chars, 1, n)) <= Room}
             least == IF way = "list" /\ chars # <<>> THEN {1} ELSE {}
         IN  sent = IF way = "plain" THEN chars ELSE SubSeq(chars, 1, Max(fits \cup least))
<1> DEFINE chars == CharsOf(text)
           fits == {r \in 0 .. Len(chars) : Width(SubSeq(chars, 1, r)) <= Room}
           least == IF way = "list" /\ chars # <<>> THEN {1} ELSE {}
           T == fits \cup least
<1>0. HoldsText /\ BufferInv /\ CutFits /\ DrawnFits
  BY Zenon DEF TextInv, ReadInv, FitInv, Handled
<1>a. PICK L : L = strlen(mem)
  BY Zenon
<1>b. PICK n : n = Len(text)
  BY Zenon
<1>c. PICK B : B = Spelled(text)
  BY Zenon
<1>1. /\ n \in Nat /\ L \in 0 .. n /\ n \in 0 .. n /\ \A j \in 1 .. L : mem[j] # NUL
  <2>1. mem \in Seq(Bytes)
    BY <1>0, Zenon DEF BufferInv
  <2>2. Len(text) \in Nat
    BY <1>0 DEF HoldsText
  <2>3. n \in Nat /\ L \in 0 .. n /\ \A j \in 1 .. L : mem[j] # NUL
    BY <1>0, <1>a, <1>b, <2>1, <2>2, StrlenIs, Zenon
  <2> QED BY <2>3
<1>2. AtStart(text, p) /\ p <= L + 1 /\ sent = B[p - 1]
  BY <1>0, <1>a, <1>c, Zenon DEF DrawnFits, SentTo
<1>3. mem[p] = NUL
  BY <1>0, DisplayedWhole, Zenon
<1>4. p - 1 = L
  <2>1. p \in 1 .. n + 1
    BY <1>2, <1>b, Zenon DEF AtStart
  <2>2. p \notin 1 .. L
    BY <1>1, <1>3, Zenon
  <2> QED BY <1>1, <1>2, <2>1, <2>2
<1>5. sent = B[L] /\ chars = B[n]
  BY <1>2, <1>4, <1>b, <1>c, Zenon DEF CharsOf
<1>6. CASE way = "plain"
  <2>1. L = n
    BY <1>0, <1>6, <1>a, <1>b, Zenon DEF CutFits
  <2> HIDE DEF chars, fits, least
  <2>2. sent = chars
    BY <1>5, <2>1
  <2> QED BY <1>6, <2>2, Zenon DEF chars, fits, least
<1>7. CASE way # "plain"
  <2> DEFINE m == Len(B[L])
  <2>1. \A j \in 0 .. n : Len(B[j]) \in Nat /\ SubSeq(chars, 1, Len(B[j])) = B[j]
    <3> SUFFICES ASSUME NEW j \in 0 .. n PROVE Len(B[j]) \in Nat /\ SubSeq(chars, 1, Len(B[j])) = B[j]
      OBVIOUS
    <3>1. SubSeq(chars, 1, Len(B[j])) = B[j]
      BY <1>1, <1>b, <1>c, FirstCharacters, Zenon
    <3>2. B[j] \in Seq(Parts(text))
      BY <1>1, <1>b, <1>c, SpelledIs
    <3>3. Len(B[j]) \in Nat
      BY <3>2
    <3> QED BY <3>1, <3>3, Zenon
  <2>2. m \in Nat /\ Len(chars) \in Nat /\ m <= Len(chars)
    <3>1. L \in 0 .. Len(text) /\ Len(text) \in L .. Len(text) /\ Len(text) \in Nat
      BY <1>1, <1>b
    <3> QED BY <3>1, <1>5, <1>b, <1>c, SpelledOn
  <2>3. ASSUME NEW r \in 0 .. Len(chars), Width(SubSeq(chars, 1, r)) <= Room PROVE r <= m
    <3>1. PICK j \in 0 .. n : Len(B[j]) = r
      <4>1. n \in 0 .. Len(text) /\ r \in 0 .. Len(Spelled(text)[n]) /\ Len(text) \in Nat
        BY <1>1, <1>5, <1>b, <1>c
      <4>2. \E j \in 0 .. n : Len(Spelled(text)[j]) = r
        BY <4>1, SpelledAll
      <4> QED BY <4>2, <1>c, Zenon
    <3>2. Width(B[j]) <= Room
      BY <2>1, <2>3, <3>1, Zenon
    <3>3. CASE j \in L + 1 .. n
      <4>1. Width(B[j]) > Room
        BY <1>0, <1>a, <1>b, <1>c, <3>3, Zenon DEF CutFits
      <4>2. Width(B[j]) \in Nat
        BY <1>1, <1>b, <1>c, WidthNat
      <4> DEFINE w == Width(B[j])
      <4> HIDE DEF w
      <4>3. w <= Room /\ w > Room /\ w \in Nat
        BY <3>2, <4>1, <4>2 DEF w
      <4> QED BY <4>3, NumbersAssumption
    <3>4. CASE j \notin L + 1 .. n
      <4>1. L \in j .. Len(text) /\ j \in 0 .. Len(text) /\ Len(text) \in Nat
        BY <1>1, <1>b, <3>4
      <4>2. Len(B[j]) <= Len(B[L])
        BY <4>1, <1>c, SpelledOn
      <4> QED BY <3>1, <4>2
    <3> QED BY <3>3, <3>4
  <2>4. ASSUME way = "list", chars # <<>> PROVE 1 <= m
    <3>1. L # 0
      <4> SUFFICES ASSUME L = 0 PROVE FALSE
        OBVIOUS
      <4>1. n = 0
        BY <1>0, <2>4, <1>a, <1>b, Zenon DEF CutFits
      <4>2. B[0] = <<>>
        BY <1>1, <1>b, <1>c, SpelledIs
      <4> QED BY <1>5, <2>4, <4>1, <4>2
    <3>2. AtStart(text, 1) /\ 1 <= Len(text) /\ Len(text) \in Nat /\ 1 \in 0 .. Len(text) /\ L \in 1 .. Len(text)
          /\ 1 - 1 = 0
      BY <1>1, <1>b, <3>1, StartsWhole
    <3>3. B[1] = Append(<<>>, CharAt(text, 1))
      <4>1. B[1] = Append(B[1 - 1], CharAt(text, 1)) /\ B[0] = <<>>
        BY <3>2, <1>c, SpelledStart, SpelledIs, Zenon
      <4> QED BY <3>2, <4>1, Zenon
    <3>4. Len(B[1]) = 1
      BY <3>3
    <3>5. Len(B[1]) <= Len(B[L])
      BY <3>2, <1>c, SpelledOn
    <3> QED BY <3>4, <3>5
  <2>5. m \in T
    <3>1. SubSeq(chars, 1, m) = B[L]
      BY <1>1, <2>1, Zenon
    <3>2. Width(B[L]) <= Room \/ (way = "list" /\ m = 1)
      <4>1. way \in Ways
        BY Zenon DEF TextInv
      <4> QED BY <1>0, <1>7, <1>a, <1>c, <4>1, Zenon DEF DrawnFits, Ways
    <3>3. CASE Width(B[L]) <= Room
      <4>1. m \in 0 .. Len(chars)
        BY <2>2
      <4> HIDE DEF chars, m
      <4> QED BY <3>1, <3>3, <4>1, Zenon
    <3>4. CASE way = "list" /\ m = 1
      <4>1. chars # <<>>
        <5> HIDE DEF chars
        <5> QED BY <2>2, <3>4
      <4> HIDE DEF chars, m, fits
      <4> QED BY <3>4, <4>1, Zenon
    <3> QED BY <3>2, <3>3, <3>4
  <2>6. \A r \in T : r <= m /\ r \in Int
    <3> SUFFICES ASSUME NEW r \in T PROVE r <= m /\ r \in Int
      OBVIOUS
    <3>1. CASE r \in fits
      <4>1. r \in 0 .. Len(chars) /\ Width(SubSeq(chars, 1, r)) <= Room
        BY <3>1
      <4> HIDE DEF chars, m, fits
      <4> QED BY <2>3, <4>1
    <3>2. CASE r \in least
      <4>1. r = 1 /\ way = "list" /\ chars # <<>>
        <5> HIDE DEF chars
        <5> QED BY <3>2
      <4> HIDE DEF chars, m
      <4> QED BY <2>4, <4>1
    <3> QED BY <3>1, <3>2
  <2> HIDE DEF T, m, chars
  <2>7. Max(T) = m
    <3>1. \A x \in T : (\A y \in T : x >= y) => x = m
      BY <2>2, <2>5, <2>6
    <3>2. \A y \in T : m >= y
      BY <2>2, <2>6
    <3>3. Max(T) \in T /\ \A y \in T : Max(T) >= y
      BY <2>5, <3>2, Zenon DEF Max
    <3> QED BY <3>1, <3>3, Zenon
  <2>8. sent = SubSeq(chars, 1, Max(T))
    <3>1. SubSeq(chars, 1, m) = B[L]
      BY <1>1, <2>1, Zenon DEF m
    <3> QED BY <3>1, <1>5, <2>7, Zenon
  <2> QED BY <1>7, <2>8, Zenon DEF T, chars
<1> QED BY <1>6, <1>7

-----------------------------------------------------------------------------
(* The pictures of what has been sent                                      *)

\* The pictures drawn are those of the characters that have one.
PicturesInv == (\E S : sent \in Seq(S)) /\ drawn = {n \in 1 .. Len(sent) : HasPicture(sent[n])}

\* A character in the cache is one that some font has.
MadeInv == \A s \in 0 .. Slots : data[s].drawn => TTF_to_Bitmap(data[s].ttf)

\* Nothing is sent at first, or when a text is done.
LEMMA NothingSent == ASSUME sent' = <<>>, drawn' = {} PROVE PicturesInv'
<1>1. sent' \in Seq({0}) /\ 1 .. Len(sent') = {}
  OBVIOUS
<1>2. {n \in 1 .. Len(sent') : HasPicture(sent[n])'} = {}
  BY <1>1
<1> QED BY <1>1, <1>2 DEF PicturesInv

\* Nothing more is.
LEMMA NothingMore ==
  ASSUME PicturesInv, UNCHANGED <<screen, way, sent, drawn>> PROVE PicturesInv'
<1>1. \A c : HasPicture(c)' <=> HasPicture(c)
  BY Zenon DEF HasPicture, TTFLoadFont
<1> QED BY <1>1, Zenon DEF PicturesInv, HasPicture, TTFLoadFont

\* One more character is sent, with its picture.
LEMMA OneMore ==
  ASSUME PicturesInv, UNCHANGED <<screen, way>>, NEW char, sent' = Append(sent, char),
         drawn' = IF HasPicture(char) THEN drawn \cup {Len(sent) + 1} ELSE drawn
  PROVE  PicturesInv'
<1> DEFINE has(c) == HasPicture(c)
<1>1. \A c : HasPicture(c)' <=> has(c)
  BY Zenon DEF HasPicture, TTFLoadFont
<1>2. PICK S : sent \in Seq(S)
  BY DEF PicturesInv
<1>3. sent \in Seq(S \cup {char})
  BY <1>2, SeqMonotonic
<1>4. drawn = {n \in 1 .. Len(sent) : has(sent[n])}
  BY Zenon DEF PicturesInv
<1> HIDE DEF has
<1>5. /\ sent' \in Seq(S \cup {char}) /\ Len(sent) \in Nat /\ Len(sent') = Len(sent) + 1
      /\ sent'[Len(sent) + 1] = char /\ \A n \in 1 .. Len(sent) : sent'[n] = sent[n]
  BY <1>3
<1>6. drawn' = IF has(char) THEN drawn \cup {Len(sent) + 1} ELSE drawn
  BY DEF has
<1>7. drawn' = {n \in 1 .. Len(sent') : has(sent'[n])}
  <2>1. \A n : n \in 1 .. Len(sent') <=> n \in 1 .. Len(sent) \/ n = Len(sent) + 1
    BY <1>5
  <2>2. \A n \in drawn' : n \in 1 .. Len(sent') /\ has(sent'[n])
    BY <1>4, <1>5, <1>6, <2>1
  <2>3. \A n \in 1 .. Len(sent') : has(sent'[n]) => n \in drawn'
    BY <1>4, <1>5, <1>6, <2>1
  <2> QED BY <2>2, <2>3
<1>8. \A n : HasPicture(sent[n])' <=> has(sent'[n])
  BY Zenon DEF HasPicture, TTFLoadFont, has
<1>9. drawn' = {n \in 1 .. Len(sent') : HasPicture(sent[n])'}
  BY <1>7, <1>8
<1> QED BY <1>5, <1>9 DEF PicturesInv

\* A picture that is made is of a character some font has, and so is one that is kept.
LEMMA MadeNext == CacheInv /\ MadeInv /\ [Next]_vars => MadeInv'
<1> SUFFICES ASSUME CacheInv, MadeInv, [Next]_vars PROVE MadeInv'
  OBVIOUS
<1>1. screen' = screen
  BY Zenon DEF vars, Next, DrawStep, Ask, ReadsBehind, DrawHeader, DrawGameList, DrawUTF8String,
     PassOver, EndOfText, DrawGlyph, Flip, Cutting, Drawing
<1>2. \A c : TTF_to_Bitmap(c)' <=> TTF_to_Bitmap(c)
  BY <1>1, Zenon DEF TTF_to_Bitmap, TTFLoadFont
<1>3. data \in [0 .. Slots -> Slot]
  BY DEF CacheInv
<1>4. ASSUME \A s \in 0 .. Slots :
               /\ data'[s].drawn => data[s].drawn \/ TTF_to_Bitmap(data'[s].ttf)
               /\ data'[s].drawn /\ data[s].drawn => data'[s].ttf = data[s].ttf \/ TTF_to_Bitmap(data'[s].ttf)
      PROVE  MadeInv'
  <2>1. ASSUME NEW s \in 0 .. Slots, data'[s].drawn PROVE TTF_to_Bitmap(data'[s].ttf)
    BY <1>4, <2>1, Zenon DEF MadeInv
  <2>2. \A s : TTF_to_Bitmap(data[s].ttf)' <=> TTF_to_Bitmap(data'[s].ttf)
    BY <1>1, Zenon DEF TTF_to_Bitmap, TTFLoadFont
  <2> QED BY <2>1, <2>2, Zenon DEF MadeInv
<1>5. CASE data' = data
  BY <1>4, <1>5, Zenon
<1>6. CASE DrawGlyph
  <2> DEFINE char == Displayed(mem, p).code
             l == SlotOf(char)
             kept == data[l].drawn /\ data[l].ttf = char
             renders == kept \/ TTF_to_Bitmap(char)
             new == [ttf |-> IF renders THEN char ELSE data[l].ttf,
                     drawn |-> renders, used |-> TRUE, r_use |-> r_use,
                     picture |-> IF renders THEN char ELSE None]
  <2>1. data' = data \/ data' = [data EXCEPT ![l] = new]
    BY <1>6, Zenon DEF DrawGlyph
  <2>2. (new.drawn <=> renders) /\ (renders => new.ttf = char)
    OBVIOUS
  <2>3. renders => (data[l].drawn /\ data[l].ttf = char) \/ TTF_to_Bitmap(char)
    OBVIOUS
  <2> HIDE DEF char, l, kept, renders, new
  <2>4. CASE data' = [data EXCEPT ![l] = new]
    <3>1. ASSUME NEW s \in 0 .. Slots PROVE data'[s] = data[s] \/ (s = l /\ data'[s] = new)
      BY <1>3, <2>4
    <3>2. new.drawn => (data[l].drawn /\ new.ttf = data[l].ttf) \/ TTF_to_Bitmap(new.ttf)
      BY <2>2, <2>3, Zenon
    <3> QED BY <1>4, <3>1, <3>2, Zenon
  <2> QED BY <1>5, <2>1, <2>4
<1>7. CASE Flip
  <2>1. data' = data \/ data' = [s \in DOMAIN data |-> [data[s] EXCEPT !.used = FALSE]]
    BY <1>7, Zenon DEF Flip
  <2>2. CASE data' = [s \in DOMAIN data |-> [data[s] EXCEPT !.used = FALSE]]
    <3>1. ASSUME NEW s \in 0 .. Slots
          PROVE  data'[s].drawn = data[s].drawn /\ data'[s].ttf = data[s].ttf
      <4>1. DOMAIN data = 0 .. Slots /\ data[s] \in Slot
        BY <1>3
      <4>2. data'[s] = [data[s] EXCEPT !.used = FALSE]
        BY <2>2, <4>1, Zenon
      <4> QED BY <4>1, <4>2 DEF Slot
    <3> QED BY <1>4, <3>1, Zenon
  <2> QED BY <1>5, <2>1, <2>2
<1>8. CASE UNCHANGED vars
  BY <1>5, <1>8, Zenon DEF vars, cacheVars
<1>9. CASE Ask \/ ReadsBehind \/ DrawHeader \/ DrawGameList \/ DrawUTF8String \/ PassOver \/ EndOfText
  BY <1>5, <1>9, OtherSteps, Zenon
<1> QED BY <1>6, <1>7, <1>8, <1>9, Zenon DEF Next, DrawStep

\* Every step hands over the pictures of the characters that have one.
LEMMA PicturesNext == TextInv /\ CacheInv /\ MadeInv /\ PicturesInv /\ [Next]_vars => PicturesInv'
<1> SUFFICES ASSUME TextInv, CacheInv, MadeInv, PicturesInv, [Next]_vars PROVE PicturesInv'
  OBVIOUS
<1>1. CASE UNCHANGED <<screen, way, sent, drawn>>
  BY <1>1, NothingMore
<1>2. CASE sent' = <<>> /\ drawn' = {}
  BY <1>2, NothingSent
<1>3. ASSUME NEW char, NEW picture, Send(char, picture), picture <=> HasPicture(char),
             UNCHANGED <<screen, way>>
      PROVE  PicturesInv'
  <2>1. sent' = Append(sent, char) /\ drawn' = IF HasPicture(char) THEN drawn \cup {Len(sent) + 1} ELSE drawn
    BY <1>3, Zenon DEF Send
  <2> QED BY <1>3, <2>1, OneMore
<1>4. CASE UNCHANGED vars
  BY <1>1, <1>4, Zenon DEF vars, sentVars
<1>5. CASE Ask
  BY <1>2, <1>5, Zenon DEF Ask
<1>6. CASE ReadsBehind \/ DrawHeader \/ DrawGameList
  BY <1>1, <1>6, Zenon DEF ReadsBehind, DrawHeader, DrawGameList, Cutting, sentVars
<1>7. CASE DrawUTF8String
  <2> DEFINE char == utf8_decode(mem, p)
             picture == char \notin {<<c>> : c \in ASCII} /\ TTF_to_Bitmap(char)
  <2>1. way = "list" /\ screen' = screen
    BY <1>7, Zenon DEF DrawUTF8String, Drawing
  <2>2. \/ UNCHANGED <<way, sent, drawn>>
        \/ Done
        \/ Send(char, picture) /\ way' = way
    BY <1>7, Zenon DEF DrawUTF8String, sentVars
  <2>3. picture <=> HasPicture(char)
    <3>1. Blank \in ASCII
      BY DEF ASCII, Blank
    <3> HIDE DEF char
    <3> QED BY <2>1, <3>1, Zenon DEF HasPicture, TTF_to_Bitmap
  <2> HIDE DEF char, picture
  <2> QED BY <1>1, <1>2, <1>3, <2>1, <2>2, <2>3, Zenon DEF Done
<1>8. CASE PassOver
  <2>1. screen' = screen /\ way' = way /\ drawn' = drawn
        /\ sent' = IF mem[p] = Blank THEN Append(sent, <<Blank>>) ELSE sent
    BY <1>8, Zenon DEF PassOver, Drawing
  <2>2. CASE mem[p] = Blank
    <3>1. ~HasPicture(<<Blank>>)
      BY Zenon DEF HasPicture
    <3> QED BY <2>1, <2>2, <3>1, OneMore, Zenon
  <2> QED BY <1>1, <2>1, <2>2
<1>9. CASE EndOfText
  BY <1>2, <1>9, Zenon DEF EndOfText, EndPass, Done
<1>10. CASE DrawGlyph
  <2> DEFINE char == Displayed(mem, p).code
             l == SlotOf(char)
             kept == data[l].drawn /\ data[l].ttf = char
             renders == kept \/ TTF_to_Bitmap(char)
  <2>1. /\ way # "list" /\ screen' = screen /\ way' = way
        /\ mem[p] \notin Continues \cup {Blank} /\ ~AtEnd
    BY <1>10, Zenon DEF DrawGlyph, Drawing
  <2>2. UNCHANGED <<sent, drawn>> \/ Send(char, renders)
    BY <1>10, Zenon DEF DrawGlyph, sentVars
  <2>3. BufferInv /\ p <= Len(mem) /\ r_use \in Int /\ data \in [0 .. Slots -> Slot]
    BY <2>1 DEF TextInv, BufferInv, CacheInv
  <2>4. char \in {<<c>> : c \in ASCII} => char = <<"a">>
    BY <2>1, <2>3, DisplayedIs, Zenon
  <2> HIDE DEF char
  <2>5. char # <<Blank>>
    <3>1. Blank \in ASCII
      BY DEF ASCII, Blank
    <3>2. <<Blank>> # <<"a">>
      BY DEF Blank
    <3> QED BY <2>4, <3>1, <3>2, Zenon
  <2>6. kept => TTF_to_Bitmap(char)
    <3>1. Where(l, char)
      BY <2>3, SlotIs
    <3> HIDE DEF l
    <3>2. l \in 0 .. Slots
      BY <3>1, NumbersAssumption DEF Where, Pool
    <3> QED BY <3>2, Zenon DEF MadeInv
  <2>7. renders <=> HasPicture(char)
    BY <2>1, <2>5, <2>6, Zenon DEF HasPicture, TTF_to_Bitmap
  <2> HIDE DEF renders
  <2> QED BY <1>1, <1>3, <2>1, <2>2, <2>7, Zenon
<1>11. CASE Flip
  BY <1>1, <1>11, Zenon DEF Flip, sentVars
<1> QED BY <1>4, <1>5, <1>6, <1>7, <1>8, <1>9, <1>10, <1>11, Zenon DEF Next, DrawStep

\* At first nothing is sent, and no slot holds a picture.
LEMMA PicturesInit == Init => PicturesInv /\ MadeInv
<1> SUFFICES ASSUME Init PROVE PicturesInv /\ MadeInv
  OBVIOUS
<1>1. sent = <<>> /\ drawn = {} /\ data = [s \in 0 .. Slots |-> Empty]
  BY Zenon DEF Init
<1>2. PicturesInv
  <2>1. sent \in Seq({0}) /\ 1 .. Len(sent) = {}
    BY <1>1
  <2>2. {n \in 1 .. Len(sent) : HasPicture(sent[n])} = {}
    BY <2>1
  <2> QED BY <1>1, <2>1, <2>2 DEF PicturesInv
<1>3. MadeInv
  <2>1. ~Empty.drawn
    BY DEF Empty
  <2> QED BY <1>1, <2>1, Zenon DEF MadeInv
<1> QED BY <1>2, <1>3

-----------------------------------------------------------------------------
(* The theorems                                                            *)

\* TypeOK: the texts, their buffers, the decoder's place in them and the slots of the
\* cache are what they should be, for any texts (TextDraw; libfont.c, ttf_render.c).
THEOREM TypeCorrect == Spec => []TypeOK
<1>1. Init => TextInv /\ CacheInv
  BY TextInit, CacheInit
<1>2. TextInv /\ CacheInv /\ [Next]_vars => (TextInv /\ CacheInv)'
  BY TextNext, CacheNext
<1>3. TextInv /\ CacheInv => TypeOK
  <2> SUFFICES ASSUME TextInv, CacheInv PROVE TypeOK
    OBVIOUS
  <2>1. /\ way \in Ways /\ text \in Screens[screen].texts[way] \cup {<<>>} /\ pass \in {1, 2}
        /\ r_use \in 0 .. flips /\ mem \in Seq(Bytes) /\ mem[Len(mem)] = NUL
    BY Zenon DEF TextInv, BufferInv
  <2>2. p \in 1 .. Len(mem) + 4
    BY DEF TextInv, BufferInv
  <2>3. Last(mem) = NUL
    BY <2>1, Zenon DEF Last
  <2>4. DOMAIN data = 0 .. Slots
    BY DEF CacheInv
  <2>5. \A s \in DOMAIN data : data[s].drawn => data[s].picture = data[s].ttf /\ data[s].ttf # None
    BY <2>4, Zenon DEF CacheInv
  <2>6. data[0].ttf \in {None} \cup {<<c>> : c \in ASCII}
    <3>1. "a" \in ASCII /\ data[0].ttf \in {None, <<"a">>}
      BY Zenon DEF ASCII, CacheInv
    <3> QED BY <3>1, Zenon
  <2>7. \A i, j \in Pool : data[i].ttf = data[j].ttf /\ i # j => data[i].ttf = None
    BY Zenon DEF CacheInv
  <2> QED BY <2>1, <2>2, <2>3, <2>5, <2>6, <2>7, Zenon DEF TypeOK
<1> QED BY <1>1, <1>2, <1>3, PTL DEF Spec

\* KeptInFrame: a picture the RSX has yet to read stays in its slot until the frame is
\* flipped, whatever is drawn after it and whatever fails to be, for any texts, any fonts
\* and any number of slots, in a frame that asks for no more characters than there are
\* slots (display_ttf_string, reset_ttf_frame).
THEOREM KeptInFrameAlways ==
  ASSUME "init_ttf_table" \in Calls => "reset_ttf_frame" \in Calls
  PROVE  Spec => []KeptInFrame
<1>1. Init => TextInv /\ CacheInv /\ FrameInv
  BY TextInit, CacheInit
<1>2. TextInv /\ CacheInv /\ FrameInv /\ [Next]_vars => (TextInv /\ CacheInv /\ FrameInv)'
  BY TextNext, CacheNext, FrameNext
<1>3. FrameInv => KeptInFrame
  BY Zenon DEF FrameInv, KeptInFrame, Asked
<1> QED BY <1>1, <1>2, <1>3, PTL DEF Spec

\* InBuffer: a well-formed string, of any length, is never read behind its buffer, cut by
\* bytes or by characters, measured or drawn (utf8_decode, WidthFromUTF8, DrawHeader,
\* DrawGameList, DrawUTF8String).
THEOREM InBufferAlways == Spec => []InBuffer
<1>1. Init => TextInv /\ ReadInv
  BY TextInit, ReadInit
<1>2. TextInv /\ ReadInv /\ [Next]_vars => (TextInv /\ ReadInv)'
  BY TextNext, ReadNext
<1>3. ReadInv => InBuffer
  BY Zenon DEF ReadInv, InBuffer
<1> QED BY <1>1, <1>2, <1>3, PTL DEF Spec

\* What is asked to be drawn of a well-formed string are its characters, whole and in
\* order: as many as fit, and one more than none in the list.  The decoders that cut it
\* byte by byte (WidthFromUTF8, the loop of DrawGameList) and the one that draws it
\* (DrawUTF8String, display_ttf_string) come to the same, for any room and any texts.
\* And the RSX gets a picture of each that has one, for any fonts, whatever the cache
\* holds: none of ASCII in the list, for which there is no bitmap font.
THEOREM CutAsFitsAlways == Spec => []CutAsFits
<1> DEFINE Inv == TextInv /\ ReadInv /\ FitInv /\ CacheInv /\ MadeInv /\ PicturesInv
<1>1. Init => Inv
  BY TextInit, ReadInit, FitInit, CacheInit, PicturesInit, Zenon
<1>2. Inv /\ [Next]_vars => Inv'
  BY TextNext, ReadNext, FitNext, CacheNext, MadeNext, PicturesNext, Zenon
<1>3. Inv => CutAsFits
  <2> SUFFICES ASSUME Inv, pc = "draw", pass = 2, AtEnd, utf8_is_valid(text)
               PROVE  LET chars == CharsOf(text)
                          fits == {n \in 0 .. Len(chars) : Width(SubSeq(chars, 1, n)) <= Room}
                          least == IF way = "list" /\ chars # <<>> THEN {1} ELSE {}
                      IN  /\ sent = IF way = "plain" THEN chars ELSE SubSeq(chars, 1, Max(fits \cup least))
                          /\ drawn = {n \in DOMAIN sent : HasPicture(sent[n])}
    BY Zenon DEF CutAsFits
  <2>1. LET chars == CharsOf(text)
            fits == {n \in 0 .. Len(chars) : Width(SubSeq(chars, 1, n)) <= Room}
            least == IF way = "list" /\ chars # <<>> THEN {1} ELSE {}
        IN  sent = IF way = "plain" THEN chars ELSE SubSeq(chars, 1, Max(fits \cup least))
    BY FitsMost, Zenon
  <2>2. drawn = {n \in DOMAIN sent : HasPicture(sent[n])}
    <3>1. PICK S : sent \in Seq(S)
      BY DEF PicturesInv
    <3>2. DOMAIN sent = 1 .. Len(sent)
      BY <3>1
    <3> QED BY <3>2, Zenon DEF PicturesInv
  <2> QED BY <2>1, <2>2, Zenon
<1> QED BY <1>1, <1>2, <1>3, PTL DEF Spec
=============================================================================
