-------------------------- MODULE CodeEngineProps --------------------------
(***************************************************************************)
(* What is claimed of a pass of the code engine.                           *)
(***************************************************************************)
EXTENDS CodeEngine

\* The code line p lies in starts behind the last "#" before it.
CodeStart(p) ==
    CHOOSE s \in 1 .. p :
        /\ s = 1 \/ Text[s - 1].op = "#"
        /\ \A q \in s .. p - 1 : Text[q].op # "#"

SameCode(p, q) == CodeStart(p) = CodeStart(q)
ConstantCode(p) == Text[CodeStart(p) + 1].op \in {"1", "T"}

\* A step of the engine, not of the game.
EngineStep == pos' # pos \/ pc' # pc

\* The lines a guard has counted when p has been parsed.
Counted(g, p) == Cardinality({q \in parsed : g.at < q /\ q <= p})
Covers(g, p) == g.at < p /\ SameCode(g.at, p) /\ Counted(g, p) <= g.span

\* A line is executed exactly when no false condition, and no first line of a
\* two-line code, before it in its own code reaches as far as it: skip counts neither
\* too much nor too little and nothing of it outlives a "#" (main.c:518-520, 790).
GuardsExact ==
    \A p \in parsed :
        p \in ran <=> /\ doForceWrite \/ ConstantCode(p)
                      /\ \A g \in guards : ~Covers(g, p)

\* Behind a '6' line, and before the "#" of its code, there is another code.
PointersUsed(lists) ==
    \A l \in DOMAIN lists : \A p \in DOMAIN lists[l] :
        lists[l][p].op = "6" =>
            \E q \in p + 1 .. Len(lists[l]) :
                /\ lists[l][q].op \in CodeOps
                /\ \A r \in p + 1 .. q : lists[l][r].op # "#"

\* A pointer read by a '6' line serves the next line handed to ParseLine, and dies with
\* it: none waits in ptrAddr for another code or another pass (main.c:492, 541-545),
\* if no code of the lists ends in a pointer (PointersUsed).
PointerScoped ==
    ptrAddr # 0 =>
        \E p \in ran :
            /\ Text[p].op = "6"
            /\ \A q \in parsed : q <= p
            /\ SameCode(p, pos)

-----------------------------------------------------------------------------
(* What the comments say and the code does not always do.                  *)

\* main.c:638, "Write float": a float is written whole, and alone.
FloatWritesOneWord ==
    [][EngineStep /\ pc = "line" /\ AtLine /\ Line.op = "2" /\ lineNum = 2 =>
        \A c \in Cells : mem'[c] = mem[c] \/ (c = addr /\ mem'[c] = Line.val)]_vars
=============================================================================
