---------------------------- MODULE CodeMeaning ----------------------------
(***************************************************************************)
(* What a code list means, independently of how the engine reads it: a     *)
(* list is a sequence of codes, a code a sequence of statements, and a     *)
(* condition holds the statements it guards.  Compile writes a list down   *)
(* in lines, as the authors of .ncl files do; Meaning is what the game's   *)
(* memory becomes.  (Recursive: for TLC's runs only.)                      *)
(***************************************************************************)
EXTENDS Integers, Sequences, FiniteSets, SequencesExt

CONSTANTS Cells, NVals, Bits

L(o, nn, a, v) == [op |-> o, n |-> nn, addr |-> a, val |-> v]
Plain(o) == L(o, 0, 0, 0)

-----------------------------------------------------------------------------
(* Lines of a statement; "at" is 0 behind a pointer.                       *)

RECURSIVE Compile(_, _), CompileAll(_)

CompileAll(body) ==
    FoldLeft(LAMBDA acc, s : acc \o Compile(s, s.at), <<>>, body)

Compile(s, at) ==
    CASE s.do = "set"     -> <<L("0", s.how, at, s.val)>>
      [] s.do = "fill"    -> <<L("4", 0, at, s.val), L("4", s.more, s.step, s.times)>>
      [] s.do = "pointer" -> <<L("6", 0, at, s.off)>> \o Compile(s.then, 0)
      [] s.do = "copy"    -> <<L("F", 1, at, s.to)>>
      [] s.do = "take"    -> <<L("A", 1, at, 1)>>
      [] s.do = "paste"   -> <<L("A", 2, at, 0)>>
      [] s.do = "replace" -> <<L("B", s.max, at, s.to), L("B", 0, s.old, s.new)>>
      [] s.do = "if"      -> LET body == CompileAll(s.body)
                                 n == Len(SelectSeq(body, LAMBDA l : l.op # ""))
                             IN  <<L(s.how, n, at, s.val)>> \o body
      [] s.do = "float"   -> <<L("2", s.digits, at, s.val)>>
      [] s.do = "gap"     -> <<Plain("")>>
      [] s.do = "junk"    -> <<Plain("/")>>

CompileCode(c) ==
    <<Plain("N"), Plain(IF c.constant THEN "1" ELSE "0")>>
        \o CompileAll(c.body) \o <<Plain("#")>>

CompileList(codes) == FoldLeft(LAMBDA acc, c : acc \o CompileCode(c), <<>>, codes)

-----------------------------------------------------------------------------
(* The meaning of a statement: st holds the memory and the word taken.     *)

Put(st, a, v) ==
    IF a \in Cells THEN [st EXCEPT !.mem[a] = v] ELSE st

Combined(how, old, v) == IF how = 0 THEN v ELSE Bits[how][<<old, v>>]

Holds(s, st, at) ==
    /\ at \in Cells
    /\ IF s.how = "D" THEN st.mem[at] = s.val
                      ELSE Bits[2][<<st.mem[at], s.val>>] = s.val

RECURSIVE Meaning(_, _, _, _), MeaningAll(_, _, _)

MeaningAll(body, st, force) ==
    FoldLeft(LAMBDA acc, s : Meaning(s, s.at, acc, force), st, body)

Replaced(s, at, st) ==
    LET In == {c \in Cells : c \in at .. s.to - 1 \/ c \in s.to .. at - 1}
        Old == {c \in In : st.mem[c] = s.old}
        First == {c \in Old : s.max = 0 \/ Cardinality({d \in Old : d < c}) < s.max}
    IN  [st EXCEPT !.mem = [c \in Cells |-> IF c \in First THEN s.new ELSE @[c]]]

Meaning(s, at, st, force) ==
    CASE s.do = "set"     -> IF at \in Cells THEN Put(st, at, Combined(s.how, st.mem[at], s.val))
                                             ELSE st
      [] s.do = "fill"    -> FoldLeft(LAMBDA acc, k : Put(acc, at + (k - 1) * s.step,
                                                          (s.val + (k - 1) * s.more) % NVals),
                                      st, [k \in 1 .. s.times |-> k])
      [] s.do = "pointer" -> IF at \in Cells THEN Meaning(s.then, st.mem[at] + s.off, st, force)
                                             ELSE Meaning(s.then, 0, st, force)
      [] s.do = "copy"    -> Put(st, s.to, st.mem[at])
      [] s.do = "take"    -> [st EXCEPT !.word = st.mem[at]]
      [] s.do = "paste"   -> Put(st, at, st.word)
      [] s.do = "replace" -> IF force THEN Replaced(s, at, st) ELSE st
      [] s.do = "if"      -> IF Holds(s, st, at) THEN MeaningAll(s.body, st, force) ELSE st
      [] s.do = "float"   -> Put(st, at, s.val)
      [] s.do \in {"gap", "junk"} -> st

ListMeaning(codes, force, st) ==
    FoldLeft(LAMBDA acc, c : IF c.constant \/ force THEN MeaningAll(c.body, acc, force) ELSE acc,
             st, codes)
=============================================================================
