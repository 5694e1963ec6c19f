---------------------------- MODULE MCCodeEngine ----------------------------
(***************************************************************************)
(* Programs for the code engine: every list of the small grammar below.    *)
(***************************************************************************)
EXTENDS CodeEngineProps, Bitwise, SequencesExt

Ref == INSTANCE CodeMeaning

\* Words of four bits; the mapped words stand well above the small offsets.
MCCells == {10, 11, 12}
MCNVals == 16
MCMem(x, y, z) == [c \in MCCells |-> CASE c = 10 -> x [] c = 11 -> y [] c = 12 -> z]
MCInitialMems == {MCMem(3, 2, 10), MCMem(3, 3, 0), MCMem(11, 3, 10), MCMem(3, 11, 11)}

Set(h, a, v) == [do |-> "set", at |-> a, how |-> h, val |-> v]
Fill(a, v, t, s, m) == [do |-> "fill", at |-> a, val |-> v, times |-> t, step |-> s, more |-> m]
Ptr(a, o, s) == [do |-> "pointer", at |-> a, off |-> o, then |-> s]
Copy(a, t) == [do |-> "copy", at |-> a, to |-> t]
Take(a) == [do |-> "take", at |-> a]
PasteAt(a) == [do |-> "paste", at |-> a]
Replace(a, t, m, o, n) == [do |-> "replace", at |-> a, to |-> t, max |-> m, old |-> o, new |-> n]
If(h, a, v, b) == [do |-> "if", at |-> a, how |-> h, val |-> v, body |-> b]
Float(a, v, d) == [do |-> "float", at |-> a, val |-> v, digits |-> d]
Gap == [do |-> "gap", at |-> 0]
Junk == [do |-> "junk", at |-> 0]

Plains ==
    <<Set(0, 10, 2), Set(1, 11, 2), Set(2, 10, 1), Set(3, 11, 1),
      Fill(10, 14, 2, 1, 3), Copy(10, 11), Gap,
      Replace(10, 13, 1, 3, 7), Replace(12, 10, 0, 3, 5), Float(11, 5, 4),
      Ptr(12, 1, Set(0, 0, 4)), Ptr(12, 0, Ptr(0, 0, Set(0, 0, 6))),
      Ptr(12, 0, Fill(0, 3, 3, 1, 0))>>
Each(f(_), s) == [i \in DOMAIN s |-> f(s[i])]
Statements ==
    Plains
        \o Each(LAMBDA s : If("D", 10, 3, <<s>>), Plains)
        \o Each(LAMBDA s : If("E", 11, 2, <<s, Set(0, 12, 10)>>), Plains)
        \o Each(LAMBDA s : If("D", 11, 3, <<Gap, If("E", 10, 1, <<s, Gap>>), Set(0, 12, 0)>>),
                Plains)
        \o Each(LAMBDA s : Ptr(12, 0, If("D", 0, 3, <<s>>)), Plains)
Bodies ==
    Each(LAMBDA s : <<s, Set(0, 11, 1)>>, Statements)
        \o Each(LAMBDA s : <<s, Ptr(12, 0, Set(0, 0, 5))>>, Statements)
        \o Each(LAMBDA s : <<Take(10), s, PasteAt(11)>>, Plains)
Code(b, c) == [constant |-> c, body |-> b]

\* Each body before each tail, with any constant flags.
Tails == <<Code(<<Set(1, 10, 4)>>, FALSE), Code(<<Set(1, 10, 4)>>, TRUE),
           Code(<<Ptr(12, 1, Set(0, 0, 8))>>, FALSE), Code(<<Ptr(12, 1, Set(0, 0, 8))>>, TRUE)>>
Programs ==
    FlattenSeq(Each(LAMBDA t : Each(LAMBDA b : <<Code(b, FALSE), t>>, Bodies)
                                 \o Each(LAMBDA b : <<Code(b, TRUE), t>>, Bodies), Tails))

\* A few, for a game that keeps running.
FewPrograms ==
    <<<<Code(<<If("D", 10, 3, <<Fill(10, 1, 2, 1, 2)>>), Set(0, 11, 1)>>, TRUE),
        Code(<<Ptr(12, 1, Copy(0, 10))>>, FALSE)>>,
      <<Code(<<Replace(10, 13, 1, 3, 7)>>, FALSE), Code(<<Set(3, 11, 1), Junk>>, TRUE)>>,
      <<Code(<<If("E", 11, 2, <<Gap, Ptr(12, 0, Set(1, 0, 2))>>), Set(0, 11, 1)>>, FALSE),
        Code(<<Ptr(12, 1, Copy(0, 10))>>, TRUE)>>,
      <<Code(<<Take(10), Junk, Ptr(12, 1, PasteAt(0)), Gap, Junk>>, TRUE)>>>>
FewMems == {MCMem(3, 2, 10), MCMem(3, 3, 0)}

\* Two-address and float codes whose outcome depends on how they are written down.
OddPrograms ==
    Each(LAMBDA s : <<Code(<<s>>, FALSE)>>,
         <<Replace(10, 13, 1, 3, 7), Replace(13, 10, 1, 3, 7), Float(10, 5, 4), Float(10, 5, 6)>>)

\* A list is known by its place among them.  The many are for a quiet game, whose
\* list is loaded once, some of them one after another; the few for one that writes.
AllPrograms == Programs \o FewPrograms \o OddPrograms
AllLines == <<>> \o Each(Ref!CompileList, AllPrograms)
Places(s, behind) == {Len(behind) + i : i \in DOMAIN s}
Game(l, m, w, n) == [lists |-> l, mems |-> m, writes |-> w, loads |-> n]
Games1 == <<Game(Places(Programs, <<>>), MCInitialMems, {}, 1),
            Game({l \in DOMAIN Programs : l % 37 = 0}, MCInitialMems, {}, 2),
            Game(Places(FewPrograms, Programs), FewMems, {3}, 2)>>
Games2 == <<Game(Places(OddPrograms, Programs \o FewPrograms), FewMems, {}, 1)>>

\* (TLC evaluates a definition without parameters once, but not one that a
\* configuration puts in the place of a constant.)
MCLinesOf == AllLines
MCGames == Games1
MCOddGames == Games2
BitTable == <<[p \in (0 .. 15) \X (0 .. 15) |-> p[1] | p[2]],
              [p \in (0 .. 15) \X (0 .. 15) |-> p[1] & p[2]],
              [p \in (0 .. 15) \X (0 .. 15) |-> p[1] ^^ p[2]]>>
MCBits == BitTable

\* No code of these lists ends in a pointer.
ASSUME MCPointersUsed == PointersUsed(AllLines)

\* When a pass is over, and the game did not write meanwhile, its memory is what the
\* list means: two-line codes, conditions with their bodies, pointers, constant flags,
\* forced and repeated passes, line by line (ConvertCodes, ParseLine).
MatchesMeaning ==
    pc = "idle" /\ Games[game].writes = {} =>
        mem = Ref!ListMeaning(AllPrograms[list], doForceWrite,
                              [mem |-> before.mem, word |-> before.typeA.val]).mem
=============================================================================
