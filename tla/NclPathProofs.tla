---------------------------- MODULE NclPathProofs ----------------------------
(* For any files in the forms of docs/codes: ReadNCL stays within the file  *)
(* and the table, and finds in the file what was written there; parseVTID   *)
(* deals out the words of the file's name; and a code that is plain is      *)
(* exported as the file means it.                                           *)
(*                                                                          *)
(* The argument of the second: the text that is read is the lines of the    *)
(* file, each with one "\n", but perhaps for the last (FileIsRead), so the  *)
(* place of every line is known (LinePlaced, RowPlaced); the marks that end *)
(* the codes are among those the table is made for (BreaksAre); and each    *)
(* step of the reader takes it from one place to the next (Stage), with one *)
(* more part of the code in the table (ReadInv).                            *)
(*                                                                          *)
(* The argument of the third: the place of every word is known (WordsAt);   *)
(* what is found lies within one word (WithinWord), and the first of them   *)
(* is found (FindsVersion, FindsTitle); to cut it out moves the words       *)
(* behind it (CutKeepsWords), and those that are left are read (WordsKept). *)
(*                                                                          *)
(* The argument of the fourth: a function on texts that takes them apart    *)
(* from their beginning is what it is defined to be (TailRecursion), so     *)
(* the loops of the export can be followed by the length of what is left.   *)
(* ParseOptionsCode puts the value into every place of the tag, and only    *)
(* there (LoopRight), which is what Filled does (FillRight, FilledIs);      *)
(* StripMultilineComments takes out every comment (StripsAll); ShrinkLines  *)
(* keeps the lines the plugin takes (SameValid, ShrunkClosed); and what     *)
(* AppendCode puts before and behind them is Meant (AppendedIs).  The codes *)
(* are exported in order (ExportInv); and a tag that fits is the option its *)
(* author means: its end is found (TagPlaced, EndFound), each of its        *)
(* elements has one sign (SignIs), the code counts those up to it as its    *)
(* author does (MarksAre, ElementIs), and so reads the value there          *)
(* (ValueIs, TagRead).                                                      *)
EXTENDS NclPathProps, NatLemmas, FiniteSetTheorems, SequenceTheorems, TLAPS

-----------------------------------------------------------------------------
(* Texts made of pieces                                                    *)

\* p[k] is the text of the first k pieces.
Pieces(p, s, S) ==
  /\ p \in [0 .. Len(s) -> Seq(S)] /\ p[0] = <<>>
  /\ \A k \in 1 .. Len(s) : p[k] = p[k - 1] \o s[k]

\* The function FlattenSeq is defined with.
Flattens(f, s) == f = [i \in 1 .. Len(s) |-> IF i = 1 THEN s[i] ELSE f[i - 1] \o s[i]]

\* There is one.
LEMMA FlattensThere ==
  ASSUME NEW S, NEW s \in Seq(Seq(S))
  PROVE  \E f : Flattens(f, s)
<1> DEFINE n == Len(s)
           step == [k \in 1 .. n |-> [a \in Seq(S) |-> a \o s[k]]]
<1>1. n \in Nat /\ \A k \in 1 .. n : s[k] \in Seq(S)
  OBVIOUS
<1> HIDE DEF n
<1>2. \A a \in Seq(S), k \in 1 .. n : a \o s[k] \in Seq(S)
  BY <1>1, ConcatProperties
<1>3. step \in [1 .. n -> [Seq(S) -> Seq(S)]]
  BY <1>2
<1>4. <<>> \in Seq(S)
  OBVIOUS
<1> HIDE DEF step
<1>5. PICK f \in [0 .. n -> Seq(S)] : Recursive(f, <<>>, step, n)
  BY <1>1, <1>3, <1>4, Recursion
<1>6. \A k \in 0 .. n : f[k] = IF k = 0 THEN <<>> ELSE step[k][f[k - 1]]
  BY <1>5 DEF Recursive
<1>7. ASSUME NEW k \in 1 .. n PROVE f[k] = f[k - 1] \o s[k]
  <2>1. k - 1 \in 0 .. n /\ k \in 0 .. n /\ k # 0
    BY <1>1
  <2>2. f[k] = step[k][f[k - 1]] /\ f[k - 1] \in Seq(S)
    BY <1>5, <1>6, <2>1
  <2> QED BY <2>2 DEF step
<1> DEFINE g == [i \in 1 .. n |-> f[i]]
<1>8. ASSUME NEW i \in 1 .. n PROVE g[i] = IF i = 1 THEN s[i] ELSE g[i - 1] \o s[i]
  <2>1. CASE i = 1
    <3>1. 1 \in 1 .. n /\ 0 \in 0 .. n /\ 1 - 1 = 0
      BY <1>1, <2>1
    <3>2. f[0] = <<>> /\ f[1] = f[0] \o s[1]
      BY <1>6, <1>7, <3>1
    <3> QED BY <1>1, <2>1, <3>2
  <2>2. CASE i # 1
    <3>1. i - 1 \in 1 .. n
      BY <1>1, <2>2
    <3> QED BY <1>7, <2>2, <3>1
  <2> QED BY <2>1, <2>2
<1>9. Flattens(g, s)
  BY <1>8 DEF Flattens, n
<1> QED BY <1>9

\* FlattenSeq makes the text of all pieces.
LEMMA FlattenIs ==
  ASSUME NEW S, NEW s \in Seq(Seq(S))
  PROVE  \E p : Pieces(p, s, S) /\ FlattenSeq(s) = p[Len(s)]
<1> DEFINE n == Len(s)
           f == CHOOSE f : Flattens(f, s)
           p == [k \in 0 .. n |-> IF k = 0 THEN <<>> ELSE f[k]]
<1>1. Flattens(f, s)
  BY FlattensThere, Zenon
<1>2. FlattenSeq(s) = IF n = 0 THEN s ELSE f[n]
  BY Zenon DEF FlattenSeq, Flattens
<1> HIDE DEF f
<1>3. n \in Nat /\ \A k \in 1 .. n : s[k] \in Seq(S)
  OBVIOUS
<1>4. \A k \in 1 .. n : f[k] = IF k = 1 THEN s[k] ELSE f[k - 1] \o s[k]
  BY <1>1 DEF Flattens
<1> HIDE DEF n
<1>5. ASSUME NEW k \in 1 .. n PROVE p[k] = p[k - 1] \o s[k]
  <2>1. CASE k = 1
    BY <1>3, <1>4, <2>1
  <2>2. CASE k # 1
    <3>1. k - 1 \in 1 .. n /\ k \in 1 .. n
      BY <1>3, <2>2
    <3>2. p[k] = f[k] /\ p[k - 1] = f[k - 1]
      BY <1>3, <3>1
    <3> QED BY <1>4, <2>2, <3>2
  <2> QED BY <2>1, <2>2
<1>6. p[0] = <<>>
  BY <1>3
<1>7. p = [k \in 0 .. n |-> p[k]]
  OBVIOUS
<1>8. FlattenSeq(s) = p[n]
  <2>1. n = 0 => s = <<>>
    BY DEF n
  <2> QED BY <1>2, <1>3, <2>1
<1> HIDE DEF p
<1> DEFINE Good == {k \in Nat : k <= n => p[k] \in Seq(S)}
<1>9. 0 \in Good
  <2>1. <<>> \in Seq(S)
    OBVIOUS
  <2> QED BY <1>6, <2>1
<1>10. ASSUME NEW k \in Nat, k \in Good PROVE k + 1 \in Good
  <2> SUFFICES ASSUME k + 1 <= n PROVE p[k + 1] \in Seq(S)
    OBVIOUS
  <2>1. k + 1 \in 1 .. n /\ (k + 1) - 1 = k /\ k <= n
    BY <1>3
  <2>2. p[k + 1] = p[k] \o s[k + 1] /\ p[k] \in Seq(S) /\ s[k + 1] \in Seq(S)
    BY <1>3, <1>5, <1>10, <2>1
  <2> QED BY <2>2, ConcatProperties
<1>11. \A k \in 0 .. n : p[k] \in Seq(S)
  <2> HIDE DEF Good
  <2>1. Nat \subseteq Good
    BY <1>9, <1>10, NatInd
  <2> QED BY <1>3, <2>1 DEF Good
<1>12. Pieces(p, s, S)
  BY <1>5, <1>6, <1>7, <1>11 DEF Pieces, n
<1> QED BY <1>8, <1>12 DEF n

\* It is a text of their characters.
LEMMA FlattenType ==
  ASSUME NEW S, NEW s \in Seq(Seq(S))
  PROVE  FlattenSeq(s) \in Seq(S)
<1>1. PICK p : Pieces(p, s, S) /\ FlattenSeq(s) = p[Len(s)]
  BY FlattenIs
<1>2. Len(s) \in 0 .. Len(s)
  OBVIOUS
<1> QED BY <1>1, <1>2 DEF Pieces

\* The next of some characters is where the text goes on, or behind its end.
LEMMA NextIs ==
  ASSUME NEW s, Len(s) \in Nat, NEW k \in Nat, k <= Len(s) + 1, NEW stop
  PROVE  /\ findNext(s, k, stop) \in k .. Len(s) + 1
         /\ \A j \in k .. findNext(s, k, stop) - 1 : s[j] \notin stop
         /\ findNext(s, k, stop) <= Len(s) => s[findNext(s, k, stop)] \in stop
<1> DEFINE at == {i \in k .. Len(s) : s[i] \in stop}
<1>1. CASE at = {}
  <2>1. findNext(s, k, stop) = Len(s) + 1
    BY <1>1, Zenon DEF findNext
  <2>2. (Len(s) + 1) - 1 = Len(s) /\ Len(s) + 1 \in k .. Len(s) + 1 /\ ~(Len(s) + 1 <= Len(s))
    OBVIOUS
  <2> QED BY <1>1, <2>1, <2>2
<1>2. CASE at # {}
  <2>1. at \subseteq Nat
    OBVIOUS
  <2> HIDE DEF at
  <2>2. \E m \in at : \A j \in at : m <= j
    BY <1>2, <2>1, LeastNat
  <2>3. Min(at) \in at /\ \A j \in at : Min(at) <= j
    BY <2>2, Zenon DEF Min
  <2>4. findNext(s, k, stop) = Min(at)
    BY <1>2, Zenon DEF findNext, at
  <2>5. \A j \in k .. Min(at) - 1 : j \notin at /\ j \in k .. Len(s)
    BY <2>1, <2>3 DEF at
  <2> QED BY <2>3, <2>4, <2>5 DEF at
<1> QED BY <1>1, <1>2

\* A piece of a text is a text.
LEMMA SubText ==
  ASSUME NEW S, NEW s \in Seq(S), NEW i \in Nat \ {0}, NEW j \in 0 .. Len(s)
  PROVE  SubSeq(s, i, j) \in Seq(S)
PROOF OBVIOUS

\* Lines with their ends.
Ended(l, e) == [i \in DOMAIN l |-> l[i] \o e]

LEMMA EndedType ==
  ASSUME NEW l \in Seq(Text), NEW e \in Text
  PROVE  /\ Ended(l, e) \in Seq(Text) /\ Len(Ended(l, e)) = Len(l)
         /\ \A i \in 1 .. Len(l) : Ended(l, e)[i] = l[i] \o e
<1> DEFINE s == Ended(l, e)
<1>1. Len(l) \in Nat /\ DOMAIN l = 1 .. Len(l) /\ \A i \in 1 .. Len(l) : l[i] \in Text
  OBVIOUS
<1>2. \A i \in 1 .. Len(l) : l[i] \o e \in Text
  BY <1>1, ConcatProperties DEF Text
<1>3. s \in [1 .. Len(l) -> Text] /\ \A i \in 1 .. Len(l) : s[i] = l[i] \o e
  BY <1>1, <1>2 DEF Ended
<1> HIDE DEF s
<1>4. s \in Seq(Text)
  BY <1>1, <1>3, IsASeq
<1>5. Len(s) = Len(l)
  BY <1>1, <1>3, <1>4
<1> QED BY <1>3, <1>4, <1>5 DEF s

LEMMA LinedText ==
  ASSUME NEW l \in Seq(Text), NEW e \in Text
  PROVE  Lined(l, e) \in Text
<1>1. Ended(l, e) \in Seq(Seq(Chars))
  BY EndedType DEF Text
<1>2. FlattenSeq(Ended(l, e)) \in Text
  BY <1>1, FlattenType DEF Text
<1> QED BY <1>2 DEF Lined, Ended

\* The lines of a code, and the text of the file.
Blocks == [old : BOOLEAN, name : Lines, mark : Chars \ (Marks \cup {"\n", "\r"}), body : Seq(Lines)]

LEMMA LineIsText == Lines \subseteq Text
<1>1. ASSUME NEW l \in Seq(Chars \ {"\n", "\r"}) PROVE l \in Seq(Chars)
  BY SeqMonotonic
<1> QED BY <1>1 DEF Lines, Text

LEMMA FewOf ==
  ASSUME NEW S, NEW a \in S, NEW b \in S, NEW c \in S
  PROVE  <<a>> \in Seq(S) /\ <<a, b>> \in Seq(S) /\ <<a, b, c>> \in Seq(S)
PROOF OBVIOUS

LEMMA WrittenLines ==
  ASSUME NEW b \in Blocks
  PROVE  Written(b) \in Seq(Lines)
<1>1. b.name \in Lines /\ b.mark \in Chars \ {"\n", "\r"} /\ b.body \in Seq(Lines)
  BY DEF Blocks
<1>2. \A c \in Chars \ {"\n", "\r"} : <<c>> \in Lines
  BY DEF Lines
<1>3. <<"{">> \in Lines /\ <<b.mark>> \in Lines /\ <<"}">> \in Lines /\ <<"#">> \in Lines
  <2>1. {"{", "}", "#"} \subseteq Chars \ {"\n", "\r"}
    BY DEF Chars
  <2> HIDE DEF Lines
  <2> QED BY <1>1, <1>2, <2>1
<1> HIDE DEF Blocks, Lines
<1>4. <<<<"{">>, <<b.mark>>, b.name>> \in Seq(Lines) /\ <<b.name, <<b.mark>>>> \in Seq(Lines)
      /\ <<<<"}">>>> \in Seq(Lines) /\ <<<<"#">>>> \in Seq(Lines)
  BY <1>1, <1>3, FewOf
<1>5. <<<<"{">>, <<b.mark>>, b.name>> \o b.body \in Seq(Lines) /\ <<b.name, <<b.mark>>>> \o b.body \in Seq(Lines)
  BY <1>1, <1>4, ConcatProperties
<1>6. /\ <<<<"{">>, <<b.mark>>, b.name>> \o b.body \o <<<<"}">>>> \in Seq(Lines)
      /\ <<b.name, <<b.mark>>>> \o b.body \o <<<<"#">>>> \in Seq(Lines)
  BY <1>4, <1>5, ConcatProperties
<1> QED BY <1>6, Zenon DEF Written

LEMMA EndIsText == Ends \subseteq Text
<1>1. "\n" \in Chars /\ "\r" \in Chars
  BY DEF Chars, Hex
<1>2. <<"\n">> \in Text /\ <<"\r", "\n">> \in Text /\ <<"\n", "\r", "\n">> \in Text
  BY <1>1, FewOf DEF Text
<1> QED BY <1>2 DEF Ends

\* The lines of a file.
AllWritten(bl) == [i \in DOMAIN bl |-> Written(bl[i])]
AllLines(bl) == FlattenSeq(AllWritten(bl))

LEMMA AllWrittenType ==
  ASSUME NEW bl \in Seq(Blocks)
  PROVE  /\ AllWritten(bl) \in Seq(Seq(Lines)) /\ Len(AllWritten(bl)) = Len(bl)
         /\ \A i \in 1 .. Len(bl) : AllWritten(bl)[i] = Written(bl[i])
<1> DEFINE s == AllWritten(bl)
<1>1. Len(bl) \in Nat /\ DOMAIN bl = 1 .. Len(bl) /\ \A i \in 1 .. Len(bl) : bl[i] \in Blocks
  OBVIOUS
<1>2. \A i \in 1 .. Len(bl) : Written(bl[i]) \in Seq(Lines)
  BY <1>1, WrittenLines
<1>3. s = [i \in 1 .. Len(bl) |-> s[i]] /\ \A i \in 1 .. Len(bl) : s[i] = Written(bl[i])
  BY <1>1 DEF AllWritten
<1> HIDE DEF s
<1>4. s \in Seq(Seq(Lines))
  BY <1>1, <1>2, <1>3, IsASeq
<1>5. DOMAIN s = 1 .. Len(bl)
  BY <1>3
<1>6. Len(s) = Len(bl)
  BY <1>1, <1>4, <1>5
<1> QED BY <1>3, <1>4, <1>6 DEF s

LEMMA AllLinesType ==
  ASSUME NEW bl \in Seq(Blocks)
  PROVE  AllLines(bl) \in Seq(Lines) /\ AllLines(bl) \in Seq(Text)
<1>1. AllLines(bl) \in Seq(Lines)
  <2> HIDE DEF Lines
  <2> QED BY AllWrittenType, FlattenType DEF AllLines
<1> QED BY <1>1, LineIsText, SeqMonotonic

LEMMA FileIs ==
  ASSUME file \in Files
  PROVE  /\ blocks \in Seq(Blocks) /\ eol \in Ends
         /\ FileText = Lined(AllLines(blocks), eol) /\ FileText \in Text
<1>1. blocks \in Seq(Blocks) /\ eol \in Ends
  BY FilesAssumption DEF blocks, eol, Blocks
<1>2. eol \in Text /\ AllLines(blocks) \in Seq(Text)
  BY <1>1, EndIsText, AllLinesType
<1>3. FileText = Lined(AllLines(blocks), eol)
  BY Zenon DEF FileText, AllLines, AllWritten
<1>4. Lined(AllLines(blocks), eol) \in Text
  BY <1>2, LinedText
<1> QED BY <1>1, <1>3, <1>4

\* What is kept of the text of a file, character by character.
Keeps(t, behind, i) ==
  t[i] # "\r" /\ (t[i] = "\n" => At(t \o behind, findNext(t \o behind, i + 1, Chars \ {"\r"})) # "\n")
Kept(t, behind) == [i \in DOMAIN t |-> IF Keeps(t, behind, i) THEN <<t[i]>> ELSE <<>>]

LEMMA ReadIsKept ==
  ASSUME NEW t, NEW behind
  PROVE  readFileBuffered(t, behind) = FlattenSeq(Kept(t, behind))
PROOF BY Zenon DEF readFileBuffered, Kept, Keeps

LEMMA KeptType ==
  ASSUME NEW t \in Text, NEW behind
  PROVE  Kept(t, behind) \in Seq(Text) /\ Len(Kept(t, behind)) = Len(t)
<1> DEFINE s == Kept(t, behind)
<1>1. Len(t) \in Nat /\ DOMAIN t = 1 .. Len(t)
  BY DEF Text
<1>2. \A i \in DOMAIN t : <<t[i]>> \in Text /\ <<>> \in Text
  BY DEF Text
<1>3. s = [i \in 1 .. Len(t) |-> s[i]] /\ \A i \in 1 .. Len(t) : s[i] \in Text
  BY <1>1, <1>2 DEF Kept
<1> HIDE DEF s
<1>4. s \in Seq(Text)
  BY <1>1, <1>3, IsASeq
<1>5. DOMAIN s = 1 .. Len(t)
  BY <1>3
<1>6. Len(s) = Len(t)
  BY <1>1, <1>4, <1>5
<1> QED BY <1>4, <1>6 DEF s

\* What is read of it is a text.
LEMMA ReadIsText ==
  ASSUME NEW t \in Text, NEW behind
  PROVE  readFileBuffered(t, behind) \in Text
PROOF BY ReadIsKept, KeptType, FlattenType DEF Text

-----------------------------------------------------------------------------
(* The reader stays within the file and the table                          *)

Entries == [name : Text \cup {Null}, cwrite : BOOLEAN, codes : Text]

\* A line is begun no sooner than the one before is over: cur_line is below x, which
\* is what keeps it within the file.  Nothing is sel or written before the file is read.
TypeInv ==
  /\ pc \in {"list", "open", "null", "read", "loaded", "export", "exported", "lost"}
  /\ file \in Files /\ buffer \in Text
  /\ x \in 1 .. Len(buffer) + 2 /\ cur_line \in Int /\ -1 <= cur_line /\ cur_line < x
  /\ cur_line <= Len(buffer)
  /\ code_count \in Nat /\ cur_count \in 0 .. code_count /\ load_old_format \in BOOLEAN
  /\ ret \in Seq(Entries) /\ Len(ret) = code_count
  /\ (\E S : art \in Seq(S)) /\ (\E S : sel \in Seq(S))
  /\ Len(art) <= code_count /\ Len(sel) <= code_count
  /\ pc \in {"list", "open"} => x = 1 /\ cur_line = 0 /\ cur_count = 0 /\ sel = <<>> /\ art = <<>>

LEMMA TypeInit == Init => TypeInv
<1> SUFFICES ASSUME Init PROVE TypeInv
  OBVIOUS
<1>1. <<>> \in Text /\ <<>> \in Seq(Entries) /\ Len(<<>>) = 0
  BY DEF Text
<1>2. (\E S : art \in Seq(S)) /\ (\E S : sel \in Seq(S))
  <2>1. art \in Seq({0}) /\ sel \in Seq({0})
    BY DEF Init
  <2> QED BY <2>1
<1>3. /\ buffer = <<>> /\ x = 1 /\ code_count = 0 /\ cur_count = 0 /\ cur_line = 0
      /\ ret = <<>> /\ sel = <<>> /\ art = <<>> /\ pc = "list" /\ file \in Files
      /\ load_old_format = FALSE
  BY DEF Init
<1>4. x \in 1 .. Len(buffer) + 2 /\ -1 <= cur_line /\ cur_line < x /\ cur_line <= Len(buffer)
      /\ cur_count \in 0 .. code_count /\ cur_line \in Int /\ code_count \in Nat
      /\ Len(ret) = code_count /\ Len(art) <= code_count /\ Len(sel) <= code_count
  BY <1>1, <1>3
<1>5. buffer \in Text /\ ret \in Seq(Entries) /\ load_old_format \in BOOLEAN
  BY <1>1, <1>3
<1> HIDE DEF Entries
<1> QED BY <1>2, <1>3, <1>4, <1>5, Zenon DEF TypeInv

\* The reader is within the file when it reads.
LEMMA InFile ==
  ASSUME TypeInv, NEW chars, Reading(chars)
  PROVE  /\ x \in 1 .. Len(buffer) /\ Len(buffer) \in Nat /\ cur_count + 1 \in 1 .. Len(ret)
         /\ \A stop : findNext(buffer, x, stop) \in x .. Len(buffer) + 1
<1>1. /\ x \in 1 .. Len(buffer) /\ Len(buffer) \in Nat /\ cur_count + 1 \in 1 .. Len(ret)
  BY DEF TypeInv, Reading, Text
<1>2. x \in Nat /\ x <= Len(buffer) + 1
  BY <1>1
<1> QED BY <1>1, <1>2, NextIs

\* A step of the reader to another place, with another table.
LEMMA TypeMoves ==
  ASSUME TypeInv, pc = "read", UNCHANGED <<file, entry, buffer, code_count, sel, art, pc>>,
         x' \in x .. Len(buffer) + 2, cur_count' \in 0 .. code_count,
         cur_line' \in Int, -1 <= cur_line', cur_line' < x', cur_line' <= Len(buffer),
         load_old_format' \in BOOLEAN,
         ret' \in Seq(Entries), Len(ret') = Len(ret)
  PROVE  TypeInv'
<1>1. x' \in 1 .. Len(buffer) + 2
  <2>1. x \in Nat /\ 1 <= x /\ Len(buffer) \in Nat
    BY DEF TypeInv, Text
  <2> QED BY <2>1
<1> HIDE DEF Entries
<1> QED BY <1>1 DEF TypeInv

\* One entry of the table gets another field.
LEMMA TypeEntry ==
  ASSUME NEW r \in Seq(Entries), NEW i \in 1 .. Len(r), NEW e \in Entries
  PROVE  [r EXCEPT ![i] = e] \in Seq(Entries) /\ Len([r EXCEPT ![i] = e]) = Len(r)
PROOF BY ExceptSeq

LEMMA TypeRead ==
  ASSUME TypeInv,
         EndCode \/ OpenCode \/ NextLine \/ ReadName \/ ReadMark \/ PassOver \/ ReadCodes
  PROVE  TypeInv'
<1>1. ret \in Seq(Entries) /\ cur_count \in 0 .. code_count /\ code_count \in Nat
      /\ cur_line \in Int /\ -1 <= cur_line /\ cur_line < x /\ cur_line <= Len(buffer)
      /\ load_old_format \in BOOLEAN
  BY DEF TypeInv
<1>2. ASSUME NEW chars, Reading(chars)
      PROVE  /\ pc = "read" /\ UNCHANGED <<file, entry, buffer, code_count, sel, art, pc>>
             /\ cur_count < code_count
  BY <1>2, Zenon DEF Reading
<1>3. CASE EndCode
  <2>1. /\ Reading({"#", "}"}) /\ cur_count' = cur_count + 1 /\ cur_line' = 0
        /\ load_old_format' \in BOOLEAN /\ x' = findNextLine(buffer, x) + 1 /\ UNCHANGED ret
    BY <1>3 DEF EndCode
  <2>2. x \in 1 .. Len(buffer) /\ Len(buffer) \in Nat /\ findNextLine(buffer, x) \in x .. Len(buffer) + 1
    BY <2>1, InFile DEF findNextLine
  <2>3. x' \in x .. Len(buffer) + 2 /\ 0 < x' /\ cur_count' \in 0 .. code_count
    <3>1. x' = findNextLine(buffer, x) + 1 /\ cur_count' = cur_count + 1 /\ cur_count < code_count
      BY <1>2, <2>1
    <3> QED BY <1>1, <2>2, <3>1
  <2>4. cur_line' \in Int /\ -1 <= cur_line' /\ cur_line' < x' /\ cur_line' <= Len(buffer)
    <3>1. cur_line' = 0
      BY <2>1
    <3> QED BY <2>2, <2>3, <3>1
  <2> HIDE DEF Entries
  <2> QED BY <1>1, <1>2, <2>1, <2>3, <2>4, TypeMoves
<1>4. CASE OpenCode
  <2>1. /\ Reading({"{"}) /\ cur_line' = -1 /\ load_old_format' = TRUE /\ x' = x + 1
        /\ UNCHANGED <<cur_count, ret>>
    BY <1>4 DEF OpenCode
  <2>2. x \in 1 .. Len(buffer) /\ Len(buffer) \in Nat
    BY <2>1, InFile
  <2>3. /\ x' \in x .. Len(buffer) + 2
        /\ cur_line' \in Int /\ -1 <= cur_line' /\ cur_line' < x' /\ cur_line' <= Len(buffer)
    <3>1. cur_line' = -1 /\ x' = x + 1
      BY <2>1
    <3> QED BY <2>2, <3>1
  <2> HIDE DEF Entries
  <2> QED BY <1>1, <1>2, <2>1, <2>3, TypeMoves
<1>5. CASE NextLine
  <2>1. /\ Reading({"\n"}) /\ cur_line' = cur_line + 1 /\ x' = x + 1
        /\ UNCHANGED <<cur_count, load_old_format, ret>>
    BY <1>5 DEF NextLine
  <2>2. x \in 1 .. Len(buffer) /\ Len(buffer) \in Nat
    BY <2>1, InFile
  <2>3. x' \in x .. Len(buffer) + 2 /\ cur_line' < x' /\ cur_line' <= Len(buffer) /\ -1 <= cur_line' /\ cur_line' \in Int
    BY <1>1, <2>1, <2>2
  <2> HIDE DEF Entries
  <2> QED BY <1>1, <1>2, <2>1, <2>3, TypeMoves
<1>6. ASSUME NEW line, InCode(line), x' \in x .. Len(buffer) + 1, ret' \in Seq(Entries), Len(ret') = Len(ret)
      PROVE  TypeInv'
  <2>1. Reading(Chars \ {"#", "}", "{", "\n"}) /\ UNCHANGED <<cur_count, cur_line, load_old_format>>
    BY <1>6 DEF InCode
  <2>2. x \in 1 .. Len(buffer) /\ Len(buffer) \in Nat
    BY <2>1, InFile
  <2>3. x' \in x .. Len(buffer) + 2 /\ cur_line < x'
    BY <1>1, <1>6, <2>2
  <2> HIDE DEF Entries
  <2> QED BY <1>1, <1>2, <1>6, <2>1, <2>3, TypeMoves
<1>7. ASSUME NEW line, InCode(line)
      PROVE  /\ x \in 1 .. Len(buffer) /\ cur_count + 1 \in 1 .. Len(ret) /\ Len(buffer) \in Nat
             /\ findNextLine(buffer, x) \in x .. Len(buffer) + 1
             /\ findNextBreak(buffer, x) \in x .. Len(buffer) + 1
             /\ ret[cur_count + 1] \in Entries
  <2>1. Reading(Chars \ {"#", "}", "{", "\n"})
    BY <1>7 DEF InCode
  <2>2. cur_count + 1 \in 1 .. Len(ret)
    BY <2>1, InFile
  <2>3. ret[cur_count + 1] \in Entries
    BY <1>1, <2>2, ElementOfSeq
  <2> QED BY <2>1, <2>2, <2>3, InFile DEF findNextLine, findNextBreak
<1>8. \A i \in Nat \ {0}, j \in 0 .. Len(buffer) : SubSeq(buffer, i, j) \in Text
  BY SubText DEF TypeInv, Text
<1>9. CASE ReadName
  <2> DEFINE text == SubSeq(buffer, x, findNextLine(buffer, x) - 1)
             e == [ret[cur_count + 1] EXCEPT !.name = text]
  <2>1. InCode(NameLine) /\ ret' = [ret EXCEPT ![cur_count + 1] = e] /\ x' = findNextLine(buffer, x)
    BY <1>9 DEF ReadName
  <2>2. text \in Text
    BY <1>7, <1>8, <2>1
  <2>3. e \in Entries
    BY <1>7, <2>1, <2>2 DEF Entries
  <2>4. ret' \in Seq(Entries) /\ Len(ret') = Len(ret)
    BY <1>1, <1>7, <2>1, <2>3, TypeEntry
  <2> QED BY <1>6, <1>7, <2>1, <2>4
<1>10. CASE ReadMark
  <2> DEFINE e == [ret[cur_count + 1] EXCEPT !.cwrite = (buffer[x] = "1")]
  <2>1. InCode(MarkLine) /\ ret' = [ret EXCEPT ![cur_count + 1] = e] /\ x' = findNextLine(buffer, x)
    BY <1>10 DEF ReadMark
  <2>2. e \in Entries
    BY <1>7, <2>1 DEF Entries
  <2>3. ret' \in Seq(Entries) /\ Len(ret') = Len(ret)
    BY <1>1, <1>7, <2>1, <2>2, TypeEntry
  <2> QED BY <1>6, <1>7, <2>1, <2>3
<1>11. CASE PassOver
  <2>1. InCode(-1) /\ x' = x + 1 /\ UNCHANGED ret
    BY <1>11 DEF PassOver
  <2>2. x' \in x .. Len(buffer) + 1
    BY <1>7, <2>1
  <2> QED BY <1>1, <1>6, <2>1, <2>2
<1>12. CASE ReadCodes
  <2> DEFINE text == SubSeq(buffer, x, findNextBreak(buffer, x) - 1)
             e == [ret[cur_count + 1] EXCEPT !.codes = text]
  <2>1. PICK line : InCode(line)
    BY <1>12 DEF ReadCodes
  <2>2. ret' = [ret EXCEPT ![cur_count + 1] = e] /\ x' = findNextBreak(buffer, x)
    BY <1>12 DEF ReadCodes
  <2>3. text \in Text
    BY <1>7, <1>8, <2>1
  <2>4. e \in Entries
    BY <1>7, <2>1, <2>3 DEF Entries
  <2>5. ret' \in Seq(Entries) /\ Len(ret') = Len(ret)
    BY <1>1, <1>7, <2>1, <2>2, <2>4, TypeEntry
  <2> QED BY <1>6, <1>7, <2>1, <2>2, <2>5
<1> QED BY <1>3, <1>4, <1>5, <1>9, <1>10, <1>11, <1>12

\* How many characters of a text are of some kind is a number.
LEMMA CountNat ==
  ASSUME NEW s \in Text, NEW chars
  PROVE  CountOf(s, chars) \in Nat
<1>1. IsFiniteSet(1 .. Len(s)) /\ {i \in DOMAIN s : s[i] \in chars} \subseteq 1 .. Len(s)
  BY FS_Interval DEF Text
<1>2. IsFiniteSet({i \in DOMAIN s : s[i] \in chars})
  BY <1>1, FS_Subset
<1> QED BY <1>2, FS_CardinalityType DEF CountOf

\* A table of equal entries.
LEMMA Repeated ==
  ASSUME NEW S, NEW e \in S, NEW n \in Nat
  PROVE  [i \in 1 .. n |-> e] \in Seq(S) /\ Len([i \in 1 .. n |-> e]) = n
PROOF OBVIOUS

LEMMA TypeOpen == ASSUME TypeInv, Open PROVE TypeInv'
<1>1. PICK behind \in Behind : buffer' = readFileBuffered(FileText, behind)
  BY DEF Open
<1>2. /\ code_count' = CountOf(buffer', {"#", "}"}) /\ ret' = [i \in 1 .. code_count' |-> Unread]
      /\ pc' \in {"null", "read"} /\ pc = "open"
      /\ UNCHANGED <<file, entry, x, cur_count, cur_line, load_old_format, sel, art>>
  BY DEF Open
<1>3. buffer' \in Text
  <2>1. FileText \in Text
    BY FileIs DEF TypeInv
  <2> QED BY <1>1, <2>1, ReadIsText
<1>4. code_count' \in Nat /\ Len(buffer') \in Nat
  <2>1. Len(buffer') \in Nat
    BY <1>3 DEF Text
  <2>2. CountOf(buffer', {"#", "}"}) \in Nat
    BY <1>3, CountNat
  <2> QED BY <1>2, <2>1, <2>2
<1>5. Unread \in Entries
  BY DEF Unread, Entries, Text
<1> HIDE DEF Entries, Unread
<1>6. ret' \in Seq(Entries) /\ Len(ret') = code_count'
  BY <1>2, <1>4, <1>5, Repeated
<1>7. /\ file \in Files /\ x = 1 /\ cur_line = 0 /\ cur_count = 0 /\ sel = <<>> /\ art = <<>>
      /\ load_old_format \in BOOLEAN /\ (\E S : art \in Seq(S))
      /\ (\E S : sel \in Seq(S))
  BY <1>2 DEF TypeInv
<1>8. /\ x' \in 1 .. Len(buffer') + 2 /\ cur_line' \in Int /\ -1 <= cur_line' /\ cur_line' < x'
      /\ cur_line' <= Len(buffer') /\ cur_count' \in 0 .. code_count'
      /\ Len(art') <= code_count' /\ Len(sel') <= code_count'
  <2>1. /\ x' = 1 /\ cur_line' = 0 /\ cur_count' = 0 /\ sel' = <<>> /\ art' = <<>>
    BY <1>2, <1>7
  <2>2. Len(sel') = 0 /\ Len(art') = 0
    BY <2>1
  <2> QED BY <1>4, <2>1, <2>2
<1>9. /\ pc' \in {"list", "open", "null", "read", "loaded", "export", "exported", "lost"}
      /\ pc' \notin {"list", "open"} /\ file' \in Files /\ load_old_format' \in BOOLEAN
      /\ (\E S : art' \in Seq(S)) /\ (\E S : sel' \in Seq(S))
  BY <1>2, <1>7
<1> QED BY <1>3, <1>4, <1>6, <1>8, <1>9, Zenon DEF TypeInv

\* A step of the player's.
LEMMA ChooseIs ==
  ASSUME ChooseOptions
  PROVE  /\ UNCHANGED <<file, entry, readVars, x, art>> /\ pc = "loaded" /\ Len(sel) < Len(ret)
         /\ \E c : sel' \in {sel, Append(sel, c)} /\ pc' \in {"export", "loaded", "lost"}
<1> DEFINE s == ret[Len(sel) + 1].codes
           options == IF ret[Len(sel) + 1].name = Null THEN <<>> ELSE ReadOptions(s)
<1>1. /\ UNCHANGED <<file, entry, readVars, x, art>> /\ pc = "loaded" /\ Len(sel) < Len(ret)
      /\ \/ /\ \E choice \in [DOMAIN options -> 1 .. Len(s)] : sel' = Append(sel, choice)
            /\ pc' = IF Len(sel) + 1 = Len(ret) THEN "export" ELSE pc
         \/ sel' = sel /\ pc' = "lost"
  BY Zenon DEF ChooseOptions
<1> HIDE DEF s, options
<1> QED BY <1>1

LEMMA TypeNext == TypeInv /\ [Next]_vars => TypeInv'
<1> SUFFICES ASSUME TypeInv, [Next]_vars PROVE TypeInv'
  OBVIOUS
<1> HIDE DEF Entries
<1>1. CASE UNCHANGED vars
  BY <1>1 DEF vars, readVars, TypeInv
<1>2. CASE ListFile
  BY <1>2 DEF ListFile, readVars, TypeInv
<1>3. CASE EndOfFile
  BY <1>3 DEF EndOfFile, readVars, TypeInv
<1>4. CASE Exported
  BY <1>4 DEF Exported, readVars, TypeInv
<1>5. CASE ChooseOptions
  <2>1. /\ UNCHANGED <<file, entry, readVars, x, art>> /\ pc = "loaded" /\ Len(sel) < Len(ret)
        /\ \E c : sel' \in {sel, Append(sel, c)} /\ pc' \in {"export", "loaded", "lost"}
    BY <1>5, ChooseIs
  <2>2. PICK c : sel' \in {sel, Append(sel, c)} /\ pc' \in {"export", "loaded", "lost"}
    BY <2>1
  <2>3. PICK S : sel \in Seq(S)
    BY DEF TypeInv
  <2>4. sel \in Seq(S \cup {c})
    BY <2>3, SeqMonotonic
  <2>5. sel' \in Seq(S \cup {c}) /\ Len(sel') <= Len(sel) + 1 /\ Len(sel) \in Nat
    BY <2>2, <2>4
  <2>6. Len(sel') <= code_count
    BY <2>1, <2>5 DEF TypeInv
  <2>7. \E T : sel' \in Seq(T)
    BY <2>5
  <2> QED BY <2>1, <2>2, <2>6, <2>7 DEF TypeInv, readVars
<1>6. CASE Export
  <2>1. /\ UNCHANGED <<file, entry, readVars, x, sel>> /\ Len(art) < Len(ret) /\ pc = "export"
        /\ \E a : art' \in {art, Append(art, a)} /\ pc' \in {"lost", pc}
    <3>1. /\ UNCHANGED <<file, entry, readVars, x, sel>> /\ Len(art) < Len(ret) /\ pc = "export"
      BY <1>6, Zenon DEF Export
    <3> DEFINE i == Len(art) + 1
    <3>2. PICK moved \in BOOLEAN :
            IF ret[i].name = Null \/ NeverStripped[ParseOptionsCode(Chosen(ret[i].codes, sel[i]), ret[i].codes, moved)]
            THEN pc' = "lost" /\ art' = art
            ELSE pc' = pc /\ art' = Append(art, AppendCode(ret[i], Chosen(ret[i].codes, sel[i]), moved))
      BY <1>6, Zenon DEF Export
    <3>3. \/ pc' = "lost" /\ art' = art
          \/ pc' = pc /\ art' = Append(art, AppendCode(ret[i], Chosen(ret[i].codes, sel[i]), moved))
      BY <3>2, Zenon
    <3> QED BY <3>1, <3>3
  <2>2. PICK a : art' \in {art, Append(art, a)} /\ pc' \in {"lost", pc}
    BY <2>1
  <2>3. PICK S : art \in Seq(S)
    BY DEF TypeInv
  <2>4. art \in Seq(S \cup {a})
    BY <2>3, SeqMonotonic
  <2>5. art' \in Seq(S \cup {a}) /\ Len(art') <= Len(art) + 1 /\ Len(art) \in Nat
    BY <2>2, <2>4
  <2>6. Len(art') <= code_count
    BY <2>1, <2>5 DEF TypeInv
  <2>7. \E T : art' \in Seq(T)
    BY <2>5
  <2> QED BY <2>1, <2>2, <2>6, <2>7 DEF TypeInv, readVars
<1> QED BY <1>1, <1>2, <1>3, <1>4, <1>5, <1>6, TypeOpen, TypeRead DEF Next

\* What TypeOK says follows, for any files in the forms of docs/codes.
THEOREM TypeCorrect == Spec => []TypeOK
<1>1. TypeInv => TypeOK
  <2> SUFFICES ASSUME TypeInv PROVE TypeOK
    OBVIOUS
  <2>1. Len(buffer) \in Nat /\ DOMAIN ret = 1 .. Len(ret)
    BY DEF TypeInv, Text
  <2>2. \A i \in DOMAIN ret : ret[i] \in Entries
    BY DEF TypeInv
  <2>3. cur_line \in -1 .. Len(buffer)
    BY <2>1 DEF TypeInv
  <2> QED BY <2>2, <2>3, Zenon DEF TypeInv, TypeOK, Entries
<1> QED BY <1>1, TypeInit, TypeNext, PTL DEF Spec

\* One more piece.
LEMMA PieceNext ==
  ASSUME NEW S, NEW s \in Seq(Seq(S)), NEW p, Pieces(p, s, S), NEW k \in 1 .. Len(s)
  PROVE  p[k - 1] \in Seq(S) /\ s[k] \in Seq(S) /\ p[k] = p[k - 1] \o s[k]
<1>1. k - 1 \in 0 .. Len(s)
  OBVIOUS
<1>2. s[k] \in Seq(S)
  BY ElementOfSeq
<1>3. p \in [0 .. Len(s) -> Seq(S)] /\ p[k] = p[k - 1] \o s[k]
  BY Zenon DEF Pieces
<1>4. p[k - 1] \in Seq(S)
  BY <1>1, <1>3
<1> QED BY <1>2, <1>3, <1>4

LEMMA PieceType ==
  ASSUME NEW S, NEW s \in Seq(Seq(S)), NEW p, Pieces(p, s, S), NEW k \in 0 .. Len(s)
  PROVE  p[k] \in Seq(S) /\ Len(p[k]) \in Nat
<1>1. p \in [0 .. Len(s) -> Seq(S)]
  BY Zenon DEF Pieces
<1>2. p[k] \in Seq(S)
  BY <1>1
<1> QED BY <1>2, LenProperties

\* Its place is behind the others.
LEMMA PieceLen ==
  ASSUME NEW S, NEW s \in Seq(Seq(S)), NEW p, Pieces(p, s, S), NEW k \in 1 .. Len(s)
  PROVE  Len(p[k - 1]) \in Nat /\ Len(s[k]) \in Nat /\ Len(p[k]) = Len(p[k - 1]) + Len(s[k])
<1>1. p[k - 1] \in Seq(S) /\ s[k] \in Seq(S) /\ p[k] = p[k - 1] \o s[k]
  BY PieceNext
<1> DEFINE a == p[k - 1]
           t == s[k]
<1> HIDE DEF a, t
<1>2. a \in Seq(S) /\ t \in Seq(S) /\ p[k] = a \o t
  BY <1>1 DEF a, t
<1>3. Len(a) \in Nat /\ Len(t) \in Nat /\ Len(a \o t) = Len(a) + Len(t)
  BY <1>2, Joined
<1> QED BY <1>2, <1>3 DEF a, t

\* A text that another begins with.
Begins(a, b) == Len(a) <= Len(b) /\ \A i \in 1 .. Len(a) : b[i] = a[i]

LEMMA BeginsOn ==
  ASSUME NEW a, NEW b, NEW c, Len(a) \in Nat, Len(b) \in Nat, Len(c) \in Nat, Begins(a, b), Begins(b, c)
  PROVE  Begins(a, c)
PROOF BY DEF Begins

\* The first pieces are how the whole begins.
LEMMA PiecesBegin ==
  ASSUME NEW S, NEW s \in Seq(Seq(S)), NEW p, Pieces(p, s, S), NEW k \in 0 .. Len(s)
  PROVE  Begins(p[k], p[Len(s)])
<1> DEFINE n == Len(s)
           Good == {r \in Nat : k + r <= n => Begins(p[k], p[k + r])}
<1>1. n \in Nat
  BY LenProperties
<1> HIDE DEF n
<1>2. k \in Nat /\ k <= n
  BY <1>1 DEF n
<1>3. \A m \in 0 .. n : Len(p[m]) \in Nat
  BY PieceType DEF n
<1>4. ASSUME NEW m \in 1 .. n PROVE Begins(p[m - 1], p[m])
  <2>1. p[m - 1] \in Seq(S) /\ s[m] \in Seq(S) /\ p[m] = p[m - 1] \o s[m]
    BY PieceNext DEF n
  <2> DEFINE a == p[m - 1]
             t == s[m]
  <2> HIDE DEF a, t
  <2>2. a \in Seq(S) /\ t \in Seq(S) /\ p[m] = a \o t
    BY <2>1 DEF a, t
  <2>3. Begins(a, a \o t)
    <3>1. Len(a) \in Nat /\ Len(t) \in Nat /\ Len(a \o t) = Len(a) + Len(t)
          /\ \A j \in 1 .. Len(a) : (a \o t)[j] = a[j]
      BY <2>2, Joined
    <3> QED BY <3>1 DEF Begins
  <2> QED BY <2>2, <2>3 DEF a
<1>5. 0 \in Good
  BY <1>2, <1>3 DEF Begins
<1>6. ASSUME NEW r \in Nat, r \in Good PROVE r + 1 \in Good
  <2> SUFFICES ASSUME k + (r + 1) <= n PROVE Begins(p[k], p[k + (r + 1)])
    OBVIOUS
  <2> DEFINE m == k + (r + 1)
  <2>1. m \in 1 .. n /\ m - 1 = k + r /\ k + r <= n /\ m - 1 \in 0 .. n /\ k \in 0 .. n /\ m \in 0 .. n
    BY <1>1, <1>2
  <2>2. Begins(p[k], p[k + r])
    BY <1>6, <2>1
  <2> HIDE DEF m
  <2>3. Begins(p[k], p[m - 1]) /\ Begins(p[m - 1], p[m])
    BY <1>4, <2>1, <2>2
  <2>4. Len(p[k]) \in Nat /\ Len(p[m - 1]) \in Nat /\ Len(p[m]) \in Nat
    BY <1>3, <2>1
  <2>5. Begins(p[k], p[m])
    BY <2>3, <2>4, BeginsOn
  <2> QED BY <2>5 DEF m
<1>7. Nat \subseteq Good
  <2> HIDE DEF Good
  <2> QED BY <1>5, <1>6, NatInd
<1>8. n - k \in Nat /\ k + (n - k) = n /\ k + (n - k) <= n
  BY <1>1, <1>2
<1>9. Begins(p[k], p[n])
  BY <1>7, <1>8
<1> QED BY <1>9 DEF n

\* A text lies in another, behind its first a characters.
Lies(l, t, a) == a + Len(l) <= Len(t) /\ \A j \in 1 .. Len(l) : t[a + j] = l[j]

\* So do its parts.
LEMMA LiesSplit ==
  ASSUME NEW S, NEW l \in Seq(S), NEW e \in Seq(S), NEW t, Len(t) \in Nat, NEW a \in Nat, Lies(l \o e, t, a)
  PROVE  Lies(l, t, a) /\ Lies(e, t, a + Len(l))
<1> DEFINE w == l \o e
           m == Len(l)
           n == Len(e)
<1>1. /\ m \in Nat /\ n \in Nat /\ Len(w) = m + n
      /\ \A j \in 1 .. m : w[j] = l[j]
      /\ \A j \in 1 .. n : w[m + j] = e[j]
  BY Joined
<1>2. a + Len(w) <= Len(t) /\ \A j \in 1 .. Len(w) : t[a + j] = w[j]
  BY DEF Lies
<1> HIDE DEF w, m, n
<1>3. a + m <= Len(t) /\ (a + m) + n <= Len(t)
  BY <1>1, <1>2
<1>4. \A j \in 1 .. m : t[a + j] = l[j]
  BY <1>1, <1>2
<1>5. ASSUME NEW j \in 1 .. n PROVE t[(a + m) + j] = e[j]
  <2>1. m + j \in 1 .. m + n /\ a + (m + j) = (a + m) + j
    BY <1>1
  <2>2. t[a + (m + j)] = w[m + j] /\ w[m + j] = e[j]
    BY <1>1, <1>2, <2>1
  <2> QED BY <2>1, <2>2
<1> QED BY <1>3, <1>4, <1>5 DEF Lies, m, n

\* Where the pieces lie in the whole.
LEMMA PieceAt ==
  ASSUME NEW S, NEW s \in Seq(Seq(S)), NEW p, Pieces(p, s, S), NEW k \in 1 .. Len(s)
  PROVE  Lies(s[k], p[Len(s)], Len(p[k - 1]))
<1> DEFINE w == p[Len(s)]
           a == p[k - 1]
           t == s[k]
<1>1. p[k - 1] \in Seq(S) /\ s[k] \in Seq(S) /\ p[k] = p[k - 1] \o s[k]
  BY PieceNext
<1>2. Begins(p[k], p[Len(s)])
  <2>1. k \in 0 .. Len(s)
    OBVIOUS
  <2> QED BY <2>1, PiecesBegin
<1> HIDE DEF w, a, t
<1>3. a \in Seq(S) /\ t \in Seq(S) /\ Begins(a \o t, w)
  BY <1>1, <1>2 DEF w, a, t
<1>4. Len(a) \in Nat /\ Len(t) \in Nat /\ Len(a \o t) = Len(a) + Len(t)
      /\ \A i \in 1 .. Len(t) : (a \o t)[Len(a) + i] = t[i]
  BY <1>3, Joined
<1>5. Len(a) + Len(t) <= Len(w) /\ \A i \in 1 .. Len(a) + Len(t) : w[i] = (a \o t)[i]
  BY <1>3, <1>4 DEF Begins
<1>6. ASSUME NEW j \in 1 .. Len(t) PROVE w[Len(a) + j] = t[j]
  <2>1. Len(a) + j \in 1 .. Len(a) + Len(t)
    BY <1>4
  <2> QED BY <1>4, <1>5, <2>1
<1>7. Lies(t, w, Len(a))
  BY <1>5, <1>6 DEF Lies
<1> QED BY <1>7 DEF w, a, t

\* Every place of the whole is a place of a piece.
PlaceOf(p, s, i) == \E k \in 1 .. Len(s) : \E j \in 1 .. Len(s[k]) : i = Len(p[k - 1]) + j

LEMMA PieceOf ==
  ASSUME NEW S, NEW s \in Seq(Seq(S)), NEW p, Pieces(p, s, S), NEW i \in 1 .. Len(p[Len(s)])
  PROVE  PlaceOf(p, s, i)
<1> DEFINE at == {k \in 0 .. Len(s) : i <= Len(p[k])}
<1>1. Len(s) \in Nat
  BY LenProperties
<1>2. Len(p[0]) = 0
  <2>1. p[0] = <<>>
    BY Zenon DEF Pieces
  <2> QED BY <2>1
<1>3. Len(p[Len(s)]) \in Nat
  <2>1. Len(s) \in 0 .. Len(s)
    BY <1>1
  <2> QED BY <2>1, PieceType
<1>4. at \subseteq Nat /\ Len(s) \in at
  BY <1>1, <1>3
<1>5. PICK k \in at : \A m \in at : k <= m
  BY <1>4, LeastNat
<1>6. k \in 1 .. Len(s) /\ k - 1 \in 0 .. Len(s) /\ ~(k <= k - 1)
  <2>1. k # 0
    BY <1>2, <1>3, <1>5
  <2> QED BY <1>1, <1>5, <2>1
<1>7. ~(i <= Len(p[k - 1])) /\ i <= Len(p[k]) /\ i \in Nat
  BY <1>3, <1>5, <1>6
<1>8. Len(p[k - 1]) \in Nat /\ Len(s[k]) \in Nat /\ Len(p[k]) = Len(p[k - 1]) + Len(s[k])
  BY <1>6, PieceLen
<1> DEFINE a == Len(p[k - 1])
           b == Len(p[k])
           m == Len(s[k])
<1> HIDE DEF a, b, m
<1>9. a \in Nat /\ m \in Nat /\ b = a + m /\ ~(i <= a) /\ i <= b /\ i \in Nat
  BY <1>7, <1>8 DEF a, b, m
<1>10. i - a \in 1 .. m /\ i = a + (i - a)
  BY <1>9
<1> QED BY <1>6, <1>10 DEF PlaceOf, a, m

\* Pieces that are those of another text make that text.
RunsOver(p, a, q, r) == p[a + Len(r)] = p[a] \o q[Len(r)]

LEMMA PiecesRun ==
  ASSUME NEW S, NEW s \in Seq(Seq(S)), NEW p, Pieces(p, s, S),
         NEW r \in Seq(Seq(S)), NEW q, Pieces(q, r, S),
         NEW a \in Nat, Lies(r, s, a)
  PROVE  RunsOver(p, a, q, r)
<1> DEFINE n == Len(r)
           Is(m) == p[a + m] = p[a] \o q[m]
           Good == {m \in Nat : m <= n => Is(m)}
<1>1. n \in Nat /\ Len(s) \in Nat
  BY LenProperties
<1> HIDE DEF n
<1>2. a \in 0 .. Len(s) /\ a + n <= Len(s)
  BY <1>1 DEF n, Lies
<1>3. p[a] \in Seq(S)
  BY <1>2, PieceType
<1>4. 0 \in Good
  <2>1. q[0] = <<>>
    BY Zenon DEF Pieces
  <2>2. p[a] \o <<>> = p[a]
    BY <1>3, ConcatEmptySeq
  <2>3. a + 0 = a
    OBVIOUS
  <2>4. Is(0)
    BY <2>1, <2>2, <2>3, Zenon
  <2> HIDE DEF Is
  <2> QED BY <2>4
<1>5. ASSUME NEW m \in Nat, m \in Good PROVE m + 1 \in Good
  <2> HIDE DEF Is
  <2> SUFFICES ASSUME m + 1 <= n PROVE Is(m + 1)
    OBVIOUS
  <2> DEFINE k == m + 1
             i == a + (m + 1)
  <2>1. k \in 1 .. n /\ k - 1 = m /\ i \in 1 .. Len(s) /\ i - 1 = a + m /\ m <= n /\ i = a + k
    BY <1>1, <1>2
  <2> HIDE DEF k, i
  <2>2. p[i] = p[i - 1] \o s[i]
    BY <2>1, PieceNext
  <2>3. q[k - 1] \in Seq(S) /\ r[k] \in Seq(S) /\ q[k] = q[k - 1] \o r[k]
    BY <2>1, PieceNext DEF n
  <2>4. s[i] = r[k]
    BY <2>1 DEF n, Lies
  <2>5. p[i - 1] = p[a] \o q[k - 1]
    <3>1. Is(m)
      BY <1>5, <2>1
    <3> QED BY <3>1, <2>1, Zenon DEF Is
  <2>6. (p[a] \o q[k - 1]) \o r[k] = p[a] \o (q[k - 1] \o r[k])
    <3> DEFINE h == p[a]
               b == q[k - 1]
               c == r[k]
    <3>1. h \in Seq(S) /\ b \in Seq(S) /\ c \in Seq(S)
      BY <1>3, <2>3
    <3> HIDE DEF h, b, c
    <3>2. Regroups(h, b, c)
      BY <3>1, Regroup, Zenon
    <3> QED BY <3>2, Zenon DEF Regroups, h, b, c
  <2>7. p[i] = p[a] \o q[k]
    BY <2>2, <2>3, <2>4, <2>5, <2>6
  <2> QED BY <2>7, Zenon DEF i, k, Is
<1>6. Nat \subseteq Good
  <2> HIDE DEF Good
  <2> QED BY <1>4, <1>5, NatInd
<1>7. p[a + n] = p[a] \o q[n]
  <2>1. Is(n)
    <3> HIDE DEF Is
    <3> QED BY <1>1, <1>6
  <2> QED BY <2>1
<1> QED BY <1>7, Zenon DEF n, RunsOver

\* So do the characters of one.
Spelt(s, a, l) == \A j \in 1 .. Len(l) : s[a + j] = <<l[j]>>

LEMMA CharsRun ==
  ASSUME NEW S, NEW s \in Seq(Seq(S)), NEW p, Pieces(p, s, S), NEW l \in Seq(S),
         NEW a \in Nat, a + Len(l) <= Len(s), Spelt(s, a, l)
  PROVE  p[a + Len(l)] = p[a] \o l
<1> DEFINE n == Len(l)
           cut(m) == SubSeq(l, 1, m)
           Is(m) == p[a + m] = p[a] \o cut(m)
           Good == {m \in Nat : m <= n => Is(m)}
<1>1. n \in Nat /\ Len(s) \in Nat
  BY LenProperties
<1> HIDE DEF n
<1>2. a \in 0 .. Len(s) /\ a + n <= Len(s)
  BY <1>1 DEF n
<1>3. p[a] \in Seq(S)
  BY <1>2, PieceType
<1>4. 0 \in Good
  <2>1. cut(0) = <<>>
    BY SubSeqEmpty
  <2>2. p[a] \o <<>> = p[a]
    BY <1>3, ConcatEmptySeq
  <2>3. a + 0 = a
    OBVIOUS
  <2>4. Is(0)
    BY <2>1, <2>2, <2>3, Zenon
  <2> HIDE DEF Is
  <2> QED BY <2>4
<1>5. ASSUME NEW m \in Nat, m \in Good PROVE m + 1 \in Good
  <2> HIDE DEF Is
  <2> SUFFICES ASSUME m + 1 <= n PROVE Is(m + 1)
    OBVIOUS
  <2> DEFINE k == m + 1
             i == a + (m + 1)
  <2>1. k \in 1 .. n /\ k - 1 = m /\ i \in 1 .. Len(s) /\ i - 1 = a + m /\ m <= n /\ i = a + k
    BY <1>1, <1>2
  <2> HIDE DEF k, i
  <2>2. p[i] = p[i - 1] \o s[i]
    BY <2>1, PieceNext
  <2>3. cut(k) = cut(k - 1) \o <<l[k]>>
    <3>1. 1 \in 1 .. Len(l) /\ k \in 1 .. Len(l)
      BY <1>1, <2>1 DEF n
    <3> QED BY <3>1, SubSeqRecursiveSecond
  <2>4. cut(k - 1) \in Seq(S) /\ <<l[k]>> \in Seq(S)
    <3>1. \A j \in 1 .. k - 1 : l[j] \in S
      <4>1. \A j \in 1 .. k - 1 : j \in 1 .. Len(l)
        BY <1>1, <2>1 DEF n
      <4> QED BY <4>1, ElementOfSeq
    <3>2. cut(k - 1) \in Seq(S)
      BY <3>1, <2>1, SubSeqProperties
    <3>3. l[k] \in S
      BY <2>1, ElementOfSeq DEF n
    <3> QED BY <3>2, <3>3
  <2> HIDE DEF cut
  <2>5. s[i] = <<l[k]>>
    BY <2>1 DEF n, Spelt
  <2>6. p[i - 1] = p[a] \o cut(k - 1)
    <3>1. Is(m)
      BY <1>5, <2>1
    <3> QED BY <3>1, <2>1, Zenon DEF Is
  <2>7. (p[a] \o cut(k - 1)) \o <<l[k]>> = p[a] \o (cut(k - 1) \o <<l[k]>>)
    <3> DEFINE h == p[a]
               b == cut(k - 1)
               c == <<l[k]>>
    <3>1. h \in Seq(S) /\ b \in Seq(S) /\ c \in Seq(S)
      BY <1>3, <2>4, Zenon
    <3> HIDE DEF h, b, c
    <3>2. Regroups(h, b, c)
      BY <3>1, Regroup, Zenon
    <3> QED BY <3>2, Zenon DEF Regroups, h, b, c
  <2>8. p[i] = p[a] \o cut(k)
    BY <2>2, <2>3, <2>5, <2>6, <2>7
  <2> QED BY <2>8, Zenon DEF i, k, Is
<1>6. Nat \subseteq Good
  <2> HIDE DEF Good
  <2> QED BY <1>4, <1>5, NatInd
<1>7. p[a + n] = p[a] \o cut(n)
  <2>1. Is(n)
    <3> HIDE DEF Is
    <3> QED BY <1>1, <1>6
  <2> HIDE DEF cut
  <2> QED BY <2>1
<1>8. cut(n) = l
  BY SubSeqFull DEF n
<1> HIDE DEF cut
<1> QED BY <1>7, <1>8 DEF n

\* The next of some characters, where it is known.
LEMMA NextAt ==
  ASSUME NEW w, Len(w) \in Nat, NEW i \in Nat, NEW m \in Nat, i <= m, m <= Len(w) + 1, NEW stop,
         m <= Len(w) => w[m] \in stop, \A j \in i .. m - 1 : w[j] \notin stop
  PROVE  findNext(w, i, stop) = m
<1> DEFINE r == findNext(w, i, stop)
<1>1. i <= Len(w) + 1
  OBVIOUS
<1>2. /\ r \in i .. Len(w) + 1 /\ \A j \in i .. r - 1 : w[j] \notin stop
      /\ r <= Len(w) => w[r] \in stop
  BY <1>1, NextIs
<1> HIDE DEF r
<1>3. r \in Nat /\ i <= r /\ r <= Len(w) + 1
  BY <1>2
<1>4. ASSUME r < m PROVE FALSE
  <2>1. r \in i .. m - 1 /\ r <= Len(w)
    BY <1>3, <1>4
  <2> QED BY <1>2, <2>1
<1>5. ASSUME m < r PROVE FALSE
  <2>1. m \in i .. r - 1 /\ m <= Len(w)
    BY <1>3, <1>5
  <2> QED BY <1>2, <2>1
<1>6. r = m
  BY <1>3, <1>4, <1>5
<1> QED BY <1>6 DEF r

\* Where a line and its end are.
LEMMA LineAt ==
  ASSUME NEW l \in Seq(Text), NEW e \in Text, NEW q, Pieces(q, Ended(l, e), Chars), NEW k \in 1 .. Len(l)
  PROVE  /\ Len(q[k - 1]) \in Nat /\ Len(l[k]) \in Nat /\ Len(e) \in Nat
         /\ Len(q[k]) = (Len(q[k - 1]) + Len(l[k])) + Len(e) /\ Len(q[k]) <= Len(q[Len(l)])
         /\ Lies(l[k], q[Len(l)], Len(q[k - 1])) /\ Lies(e, q[Len(l)], Len(q[k - 1]) + Len(l[k]))
<1> DEFINE s == Ended(l, e)
           a == Len(q[k - 1])
           t == l[k]
           w == q[Len(l)]
<1>1. s \in Seq(Seq(Chars)) /\ Len(s) = Len(l) /\ s[k] = t \o e
  BY EndedType DEF Text
<1>2. t \in Seq(Chars) /\ e \in Seq(Chars)
  BY ElementOfSeq DEF Text
<1>3. Len(t) \in Nat /\ Len(e) \in Nat /\ Len(t \o e) = Len(t) + Len(e)
  BY <1>2, Joined
<1> HIDE DEF s
<1>4. Pieces(q, s, Chars) /\ k \in 1 .. Len(s)
  BY <1>1 DEF s
<1>5. a \in Nat /\ Len(s[k]) \in Nat /\ Len(q[k]) = a + Len(s[k])
  BY <1>1, <1>4, PieceLen
<1>6. Lies(s[k], q[Len(s)], a)
  BY <1>1, <1>4, PieceAt
<1>7. Len(q[k]) <= Len(q[Len(s)]) /\ Len(q[Len(s)]) \in Nat
  <2>1. k \in 0 .. Len(s) /\ Len(s) \in 0 .. Len(s)
    BY <1>1, <1>4, LenProperties
  <2> QED BY <1>1, <1>4, <2>1, PiecesBegin, PieceType DEF Begins
<1> HIDE DEF a, t, w
<1>8. Lies(t \o e, w, a) /\ Len(w) \in Nat /\ Len(q[k]) <= Len(w)
  BY <1>1, <1>6, <1>7, Zenon DEF w
<1>9. Lies(t, w, a) /\ Lies(e, w, a + Len(t))
  BY <1>2, <1>5, <1>8, LiesSplit
<1>10. Len(q[k]) = (a + Len(t)) + Len(e)
  <2>1. Len(s[k]) = Len(t) + Len(e)
    BY <1>1, <1>3, Zenon
  <2> QED BY <1>3, <1>5, <2>1
<1> QED BY <1>3, <1>5, <1>8, <1>9, <1>10 DEF a, t, w

\* The characters of a line are kept.
LEMMA RunRead ==
  ASSUME NEW t \in Text, NEW behind, NEW p, Pieces(p, Kept(t, behind), Chars),
         NEW l \in Seq(Chars \ {"\n", "\r"}), NEW a \in Nat, Lies(l, t, a)
  PROVE  p[a + Len(l)] = p[a] \o l
<1> DEFINE s == Kept(t, behind)
<1>1. s \in Seq(Seq(Chars)) /\ Len(s) = Len(t)
  BY KeptType DEF Text
<1>2. l \in Seq(Chars)
  BY SeqMonotonic
<1>3. Len(t) \in Nat /\ Len(l) \in Nat /\ DOMAIN t = 1 .. Len(t)
  BY <1>2, LenProperties DEF Text
<1>4. ASSUME NEW j \in 1 .. Len(l) PROVE s[a + j] = <<l[j]>>
  <2>1. a + j \in DOMAIN t /\ t[a + j] = l[j]
    BY <1>3 DEF Lies
  <2>2. l[j] \in Chars \ {"\n", "\r"}
    BY ElementOfSeq
  <2>3. Keeps(t, behind, a + j)
    BY <2>1, <2>2, Zenon DEF Keeps
  <2>4. s[a + j] = <<t[a + j]>>
    BY <2>1, <2>3, Zenon DEF Kept
  <2> QED BY <2>1, <2>4, Zenon
<1>5. Spelt(s, a, l)
  BY <1>4, Zenon DEF Spelt
<1>6. a + Len(l) <= Len(s)
  BY <1>1 DEF Lies
<1> HIDE DEF s
<1> QED BY <1>1, <1>2, <1>5, <1>6, CharsRun DEF s

\* A character is kept or not.
LEMMA StepRead ==
  ASSUME NEW t \in Text, NEW behind, NEW p, Pieces(p, Kept(t, behind), Chars), NEW i \in 1 .. Len(t)
  PROVE  /\ p[i - 1] \in Seq(Chars) /\ t[i] \in Chars
         /\ Keeps(t, behind, i) => p[i] = p[i - 1] \o <<t[i]>>
         /\ ~Keeps(t, behind, i) => p[i] = p[i - 1]
<1> DEFINE s == Kept(t, behind)
<1>1. s \in Seq(Seq(Chars)) /\ Len(s) = Len(t) /\ DOMAIN t = 1 .. Len(t) /\ t[i] \in Chars
  BY KeptType, LenProperties, ElementOfSeq DEF Text
<1>2. s[i] = IF Keeps(t, behind, i) THEN <<t[i]>> ELSE <<>>
  BY <1>1, Zenon DEF Kept
<1> HIDE DEF s
<1>3. p[i - 1] \in Seq(Chars) /\ p[i] = p[i - 1] \o s[i]
  <2>1. i \in 1 .. Len(s) /\ Pieces(p, s, Chars)
    BY <1>1 DEF s
  <2> QED BY <1>1, <2>1, PieceNext
<1>4. p[i - 1] \o <<>> = p[i - 1]
  BY <1>3, ConcatEmptySeq
<1> QED BY <1>1, <1>2, <1>3, <1>4, Zenon

LEMMA StepDropped ==
  ASSUME NEW t \in Text, NEW behind, NEW p, Pieces(p, Kept(t, behind), Chars), NEW i \in 1 .. Len(t),
         ~Keeps(t, behind, i), NEW h, i - 1 = h
  PROVE  p[i] = p[h]
PROOF BY StepRead, Zenon

\* What ends a line becomes one "\n", but at the end of the file, where nothing may
\* be left of it.
LEMMA EndRead ==
  ASSUME NEW t \in Text, NEW behind \in Text, NEW p, Pieces(p, Kept(t, behind), Chars),
         NEW e \in Ends, NEW b \in Nat, Lies(e, t, b),
         b + Len(e) < Len(t) => t[(b + Len(e)) + 1] \notin {"\n", "\r"}
  PROVE  /\ p[b] \in Seq(Chars)
         /\ p[b + Len(e)] = p[b] \/ p[b + Len(e)] = p[b] \o <<"\n">>
         /\ b + Len(e) < Len(t) => p[b + Len(e)] = p[b] \o <<"\n">>
<1> DEFINE all == t \o behind
           i == b + Len(e)
<1>1. /\ Len(t) \in Nat /\ Len(all) \in Nat /\ Len(t) <= Len(all)
      /\ \A j \in 1 .. Len(t) : all[j] = t[j]
  BY Joined DEF Text
<1>2. e = <<"\n">> \/ e = <<"\r", "\n">> \/ e = <<"\n", "\r", "\n">>
  BY DEF Ends
<1>3. i \in Nat /\ i >= 1 /\ i <= Len(t) /\ t[i] = "\n"
  <2>1. CASE e = <<"\n">>
    BY <2>1 DEF Lies
  <2>2. CASE e = <<"\r", "\n">>
    BY <2>2 DEF Lies
  <2>3. CASE e = <<"\n", "\r", "\n">>
    BY <2>3 DEF Lies
  <2> QED BY <1>2, <2>1, <2>2, <2>3
<1>4. p[i - 1] = p[b]
  <2>1. CASE e = <<"\n">>
    <3>1. i - 1 = b
      BY <2>1
    <3> QED BY <3>1, Zenon
  <2>2. CASE e = <<"\r", "\n">>
    <3>1. i - 1 = b + 1 /\ b + 1 \in 1 .. Len(t) /\ (b + 1) - 1 = b /\ t[b + 1] = "\r"
      BY <1>1, <2>2 DEF Lies
    <3>2. ~Keeps(t, behind, b + 1)
      BY <3>1, Zenon DEF Keeps
    <3>3. p[b + 1] = p[b]
      BY <3>1, <3>2, StepDropped
    <3> QED BY <3>1, <3>3, Zenon
  <2>3. CASE e = <<"\n", "\r", "\n">>
    <3>1. /\ i - 1 = b + 2 /\ b + 1 \in 1 .. Len(t) /\ b + 2 \in 1 .. Len(t) /\ b + 3 \in 1 .. Len(t)
          /\ (b + 1) - 1 = b /\ (b + 2) - 1 = b + 1
          /\ t[b + 1] = "\n" /\ t[b + 2] = "\r" /\ t[b + 3] = "\n"
      BY <1>1, <2>3 DEF Lies
    <3>2. ~Keeps(t, behind, b + 2)
      BY <3>1, Zenon DEF Keeps
    <3>3. findNext(all, b + 2, Chars \ {"\r"}) = b + 3
      <4>1. all[b + 2] = "\r" /\ all[b + 3] = "\n" /\ b + 2 \in Nat /\ b + 3 \in Nat /\ b + 2 <= b + 3 /\ b + 3 <= Len(all)
        BY <1>1, <3>1
      <4>2. "\n" \in Chars \ {"\r"}
        BY DEF Chars, Hex
      <4>3. \A j \in b + 2 .. (b + 3) - 1 : j = b + 2
        OBVIOUS
      <4>4. \A j \in b + 2 .. (b + 3) - 1 : all[j] \notin Chars \ {"\r"}
        BY <4>1, <4>3
      <4> HIDE DEF all
      <4> QED BY <1>1, <4>1, <4>2, <4>4, NextAt
    <3>4. At(all, b + 3) = "\n"
      <4>1. all \in Seq(Chars)
        BY Joined DEF Text
      <4> HIDE DEF all
      <4>2. b + 3 \in DOMAIN all /\ all[b + 3] = "\n"
        BY <1>1, <3>1, <4>1, LenProperties
      <4> QED BY <4>2 DEF At
    <3>5. ~Keeps(t, behind, b + 1)
      <4>1. (b + 1) + 1 = b + 2
        OBVIOUS
      <4> QED BY <3>1, <3>3, <3>4, <4>1, Zenon DEF Keeps
    <3>6. p[b + 2] = p[b + 1] /\ p[b + 1] = p[b]
      BY <3>1, <3>2, <3>5, StepDropped
    <3> QED BY <3>1, <3>6, Zenon
  <2> QED BY <1>2, <2>1, <2>2, <2>3
<1>5. i \in 1 .. Len(t)
  BY <1>1, <1>3
<1>6. /\ p[i - 1] \in Seq(Chars)
      /\ Keeps(t, behind, i) => p[i] = p[i - 1] \o <<t[i]>>
      /\ ~Keeps(t, behind, i) => p[i] = p[i - 1]
  <2> HIDE DEF i
  <2> QED BY <1>5, StepRead
<1>7. ASSUME i < Len(t) PROVE Keeps(t, behind, i)
  <2>1. i + 1 \in 1 .. Len(t) /\ t[i + 1] \in Chars /\ t[i + 1] \notin {"\n", "\r"}
    <3>1. i + 1 \in 1 .. Len(t)
      BY <1>1, <1>3, <1>7
    <3> HIDE DEF i
    <3>2. t[i + 1] \in Chars
      BY <3>1, ElementOfSeq DEF Text
    <3> QED BY <1>7, <3>1, <3>2 DEF i
  <2>2. all[i + 1] = t[i + 1] /\ i + 1 <= Len(all) /\ i + 1 \in Nat
    BY <1>1, <1>3, <2>1
  <2>3. findNext(all, i + 1, Chars \ {"\r"}) = i + 1
    <3>1. \A j \in i + 1 .. (i + 1) - 1 : FALSE
      BY <1>3
    <3> HIDE DEF all, i
    <3>2. all[i + 1] \in Chars \ {"\r"} /\ i + 1 <= i + 1
      BY <2>1, <2>2
    <3> QED BY <1>1, <2>2, <3>1, <3>2, NextAt
  <2>4. At(all, i + 1) # "\n"
    <3> HIDE DEF all, i
    <3>1. At(all, i + 1) = all[i + 1] \/ At(all, i + 1) = "end"
      BY Zenon DEF At
    <3> QED BY <2>1, <2>2, <3>1
  <2> HIDE DEF i
  <2> QED BY <1>3, <2>3, <2>4, Zenon DEF Keeps
<1> HIDE DEF i
<1>8. /\ p[b] \in Seq(Chars) /\ (p[i] = p[b] \/ p[i] = p[b] \o <<"\n">>)
      /\ i < Len(t) => p[i] = p[b] \o <<"\n">>
  BY <1>3, <1>4, <1>6, <1>7, Zenon
<1> QED BY <1>8, Zenon DEF i

\* What is read up to the end of a line: what is read up to its beginning, and the
\* line with or without "\n".
LineKept(p, q, l, k) ==
  LET a == Len(q[k - 1])
      b == Len(q[k])
  IN  /\ p[b] = p[a] \o l[k] \/ p[b] = (p[a] \o l[k]) \o <<"\n">>
      /\ k < Len(l) => p[b] = (p[a] \o l[k]) \o <<"\n">>

\* A line and its end are read as the line and "\n", the last one perhaps without it.
LEMMA LineRead ==
  ASSUME NEW l \in Seq(Lines), NEW e \in Ends, NEW behind \in Text, NEW q, Pieces(q, Ended(l, e), Chars),
         NEW t \in Text, t = q[Len(l)], NEW p, Pieces(p, Kept(t, behind), Chars), NEW k \in 1 .. Len(l)
  PROVE  LineKept(p, q, l, k)
<1> DEFINE a == Len(q[k - 1])
           b == a + Len(l[k])
<1>1. l \in Seq(Text) /\ e \in Text /\ Len(l) \in Nat
  BY LineIsText, EndIsText, SeqMonotonic, LenProperties
<1>2. \A i \in 1 .. Len(l) : l[i] \in Seq(Chars \ {"\n", "\r"}) /\ l[i] # <<>>
  <2>1. \A i \in 1 .. Len(l) : l[i] \in Lines
    BY ElementOfSeq
  <2> QED BY <2>1 DEF Lines
<1>3. \A i \in 1 .. Len(l) :
        /\ Len(q[i - 1]) \in Nat /\ Len(l[i]) \in Nat /\ Len(e) \in Nat
        /\ Len(q[i]) = (Len(q[i - 1]) + Len(l[i])) + Len(e) /\ Len(q[i]) <= Len(t)
        /\ Lies(l[i], t, Len(q[i - 1])) /\ Lies(e, t, Len(q[i - 1]) + Len(l[i]))
  BY <1>1, LineAt
<1>4. /\ a \in Nat /\ b \in Nat /\ Len(e) \in Nat /\ Len(t) \in Nat /\ Len(q[k]) = b + Len(e)
      /\ Lies(l[k], t, a) /\ Lies(e, t, b)
  <2>1. Len(t) \in Nat
    BY LenProperties DEF Text
  <2>2. /\ a \in Nat /\ Len(l[k]) \in Nat /\ Len(e) \in Nat /\ Len(q[k]) = b + Len(e)
        /\ Lies(l[k], t, a) /\ Lies(e, t, b)
    BY <1>3, Zenon
  <2>3. b \in Nat
    <3> HIDE DEF a
    <3> QED BY <2>2
  <2> QED BY <2>1, <2>2, <2>3, Zenon
<1>5. p[b] = p[a] \o l[k]
  <2> DEFINE u == l[k]
  <2>1. u \in Seq(Chars \ {"\n", "\r"})
    BY <1>2, Zenon
  <2>2. a \in Nat /\ Lies(u, t, a)
    BY <1>4
  <2> HIDE DEF a, u
  <2>3. p[a + Len(u)] = p[a] \o u
    BY ONLY t \in Text, Pieces(p, Kept(t, behind), Chars), <2>1, <2>2, RunRead
  <2> QED BY <2>3 DEF u
<1>6. ASSUME k < Len(l)
      PROVE  b + Len(e) < Len(t) /\ t[(b + Len(e)) + 1] \notin {"\n", "\r"}
  <2> DEFINE i == k + 1
  <2>1. i \in 1 .. Len(l) /\ i - 1 = k
    BY <1>1, <1>6
  <2> HIDE DEF i
  <2>2. /\ Len(l[i]) \in Nat /\ l[i] \in Seq(Chars \ {"\n", "\r"}) /\ l[i] # <<>>
        /\ Len(q[i]) = (Len(q[k]) + Len(l[i])) + Len(e) /\ Len(q[i]) <= Len(t) /\ Lies(l[i], t, Len(q[k]))
    BY <1>2, <1>3, <2>1
  <2>3. 1 \in 1 .. Len(l[i])
    BY <2>2, EmptySeq
  <2>4. l[i][1] \in Chars \ {"\n", "\r"}
    BY <2>2, <2>3, ElementOfSeq
  <2>5. t[Len(q[k]) + 1] = l[i][1]
    BY <2>2, <2>3 DEF Lies
  <2> HIDE DEF b
  <2>6. b + Len(e) < Len(t)
    <3> DEFINE y == Len(q[k])
               u == Len(l[i])
               v == Len(q[i])
    <3>1. u \in Nat /\ v = (y + u) + Len(e) /\ v <= Len(t)
      BY <2>2
    <3>2. 1 <= u
      BY <2>3, <3>1
    <3>3. b \in Nat /\ Len(e) \in Nat /\ Len(t) \in Nat /\ y = b + Len(e)
      BY <1>4
    <3> HIDE DEF y, u, v
    <3> QED BY <3>1, <3>2, <3>3
  <2> QED BY <1>4, <2>4, <2>5, <2>6
<1>7. b + Len(e) < Len(t) => k < Len(l)
  <2>1. k = Len(l) => Len(q[k]) = Len(t)
    OBVIOUS
  <2> HIDE DEF b
  <2>2. k # Len(l) => k < Len(l)
    BY <1>1
  <2> QED BY <1>4, <2>1, <2>2
<1> HIDE DEF b
<1>8. /\ p[b] \in Seq(Chars) /\ (p[b + Len(e)] = p[b] \/ p[b + Len(e)] = p[b] \o <<"\n">>)
      /\ b + Len(e) < Len(t) => p[b + Len(e)] = p[b] \o <<"\n">>
  <2>1. b + Len(e) < Len(t) => t[(b + Len(e)) + 1] \notin {"\n", "\r"}
    BY <1>6, <1>7
  <2> QED BY <1>4, <2>1, EndRead
<1>9. k < Len(l) => p[b + Len(e)] = p[b] \o <<"\n">>
  BY <1>6, <1>8
<1> HIDE DEF a
<1>10. /\ p[Len(q[k])] = p[a] \o l[k] \/ p[Len(q[k])] = (p[a] \o l[k]) \o <<"\n">>
       /\ k < Len(l) => p[Len(q[k])] = (p[a] \o l[k]) \o <<"\n">>
  BY <1>4, <1>5, <1>8, <1>9, Zenon
<1> QED BY <1>10, Zenon DEF a, LineKept

\* A line with its "\n" is one more piece of such lines.
LEMMA LineMore ==
  ASSUME NEW l \in Seq(Text), NEW c \in Text, NEW pp, Pieces(pp, Ended(l, c), Chars), NEW k \in 1 .. Len(l)
  PROVE  pp[k] = (pp[k - 1] \o l[k]) \o c
<1> DEFINE s == Ended(l, c)
           g == pp[k - 1]
           h == l[k]
<1>1. s \in Seq(Seq(Chars)) /\ Len(s) = Len(l) /\ s[k] = h \o c
  BY EndedType DEF Text
<1>2. h \in Seq(Chars) /\ c \in Seq(Chars)
  BY ElementOfSeq DEF Text
<1> HIDE DEF s
<1>3. Pieces(pp, s, Chars) /\ k \in 1 .. Len(s)
  BY <1>1 DEF s
<1>4. g \in Seq(Chars) /\ pp[k] = g \o s[k]
  BY <1>1, <1>3, PieceNext
<1> HIDE DEF g, h
<1>5. g \in Seq(Chars) /\ h \in Seq(Chars) /\ c \in Seq(Chars)
  BY <1>2, <1>4
<1>6. Regroups(g, h, c)
  BY <1>5, Regroup, Zenon
<1> QED BY <1>1, <1>4, <1>6, Zenon DEF Regroups, g, h

\* The lines of a file are read, the end of the last perhaps not.
LEMMA ReadIs ==
  ASSUME NEW l \in Seq(Lines), NEW e \in Ends, NEW behind \in Text,
         NEW pp, Pieces(pp, Ended(l, <<"\n">>), Chars)
  PROVE  \/ readFileBuffered(Lined(l, e), behind) = pp[Len(l)]
         \/ /\ Len(l) > 0
            /\ readFileBuffered(Lined(l, e), behind) = pp[Len(l) - 1] \o l[Len(l)]
<1> DEFINE n == Len(l)
<1>1. l \in Seq(Text) /\ e \in Text /\ n \in Nat
  BY LineIsText, EndIsText, SeqMonotonic, LenProperties
<1>2. Ended(l, e) \in Seq(Seq(Chars)) /\ Len(Ended(l, e)) = n
  BY <1>1, EndedType DEF Text
<1>3. PICK q : Pieces(q, Ended(l, e), Chars) /\ FlattenSeq(Ended(l, e)) = q[Len(Ended(l, e))]
  BY <1>2, FlattenIs
<1> DEFINE t == q[n]
<1>4. Lined(l, e) = t /\ t \in Text
  <2>1. Lined(l, e) = FlattenSeq(Ended(l, e))
    BY Zenon DEF Lined, Ended
  <2>2. n \in 0 .. Len(Ended(l, e))
    BY <1>1, <1>2
  <2>3. q[n] \in Seq(Chars)
    <3> HIDE DEF n
    <3> QED BY <1>2, <1>3, <2>2, PieceType
  <2> QED BY <1>2, <1>3, <2>1, <2>3, Zenon DEF Text
<1>5. Kept(t, behind) \in Seq(Seq(Chars)) /\ Len(Kept(t, behind)) = Len(t)
  BY <1>4, KeptType DEF Text
<1>6. PICK p : Pieces(p, Kept(t, behind), Chars) /\ FlattenSeq(Kept(t, behind)) = p[Len(Kept(t, behind))]
  BY <1>5, FlattenIs
<1>7. readFileBuffered(Lined(l, e), behind) = p[Len(t)]
  BY <1>4, <1>5, <1>6, ReadIsKept, Zenon
<1>8. p[0] = <<>> /\ pp[0] = <<>> /\ q[0] = <<>> /\ Len(q[0]) = 0
  <2>1. p[0] = <<>> /\ pp[0] = <<>> /\ q[0] = <<>>
    BY <1>3, <1>6, Zenon DEF Pieces
  <2> QED BY <2>1
<1> DEFINE At0(k) == Len(q[k])
           Step(k) == /\ \/ p[At0(k)] = p[At0(k - 1)] \o l[k]
                         \/ p[At0(k)] = (p[At0(k - 1)] \o l[k]) \o <<"\n">>
                      /\ k < n => p[At0(k)] = (p[At0(k - 1)] \o l[k]) \o <<"\n">>
<1>9. \A k \in 1 .. n : Step(k)
  <2> SUFFICES ASSUME NEW k \in 1 .. n PROVE Step(k)
    OBVIOUS
  <2> HIDE DEF t
  <2>1. /\ Pieces(q, Ended(l, e), Chars) /\ t \in Text /\ t = q[Len(l)]
        /\ Pieces(p, Kept(t, behind), Chars) /\ k \in 1 .. Len(l)
    BY <1>3, <1>4, <1>6 DEF t
  <2>2. LineKept(p, q, l, k)
    <3> HIDE DEF n, At0, Step
    <3> QED BY <2>1, LineRead
  <2> QED BY <2>2, Zenon DEF LineKept
<1>10. \A k \in 1 .. n : pp[k] = (pp[k - 1] \o l[k]) \o <<"\n">>
  <2>1. <<"\n">> \in Text
    BY EndIsText DEF Ends
  <2> QED BY <1>1, <2>1, LineMore
<1> DEFINE Same(k) == p[At0(k)] = pp[k]
           Good == {k \in Nat : k < n => Same(k)}
<1>11. 0 \in Good
  <2>1. Same(0)
    BY <1>8, Zenon
  <2> HIDE DEF Same
  <2> QED BY <2>1
<1> HIDE DEF n, t
<1>12. ASSUME NEW k \in Nat, k \in Good PROVE k + 1 \in Good
  <2> HIDE DEF Same
  <2> SUFFICES ASSUME k + 1 < n PROVE Same(k + 1)
    OBVIOUS
  <2> DEFINE i == k + 1
  <2>1. i \in 1 .. n /\ i - 1 = k /\ k < n /\ i < n
    BY <1>1
  <2>2. Same(i - 1)
    BY <1>12, <2>1
  <2> HIDE DEF i
  <2>3. /\ p[At0(i)] = (p[At0(i - 1)] \o l[i]) \o <<"\n">>
        /\ pp[i] = (pp[i - 1] \o l[i]) \o <<"\n">>
    BY <1>9, <1>10, <2>1, Zenon
  <2>4. Same(i)
    BY <2>2, <2>3, Zenon DEF Same
  <2> QED BY <2>4 DEF i
<1>13. Nat \subseteq Good
  <2> HIDE DEF Good
  <2> QED BY <1>11, <1>12, NatInd
<1>14. CASE n = 0
  <2>1. p[Len(t)] = pp[n]
    BY <1>8, <1>14, Zenon DEF t
  <2> QED BY <1>7, <2>1 DEF n
<1>15. CASE n # 0
  <2>1. n \in 1 .. n /\ n - 1 \in Nat /\ n - 1 < n /\ n > 0
    BY <1>1, <1>15
  <2>2. Same(n - 1)
    <3> HIDE DEF Same
    <3> QED BY <1>13, <2>1
  <2>3. Step(n) /\ pp[n] = (pp[n - 1] \o l[n]) \o <<"\n">>
    <3> HIDE DEF Step
    <3> QED BY <1>9, <1>10, <2>1
  <2>4. p[Len(t)] = pp[n] \/ p[Len(t)] = pp[n - 1] \o l[n]
    BY <2>2, <2>3, Zenon DEF t
  <2> QED BY <1>7, <2>1, <2>4 DEF n
<1> QED BY <1>14, <1>15

-----------------------------------------------------------------------------
(* Where the lines of a file are in what is read of it                     *)

\* The text of the lines, each with its "\n", the text of the first of them, and where
\* a line and its "\n" are in it.
Whole(l) == Lined(l, <<"\n">>)
Upto(l) ==
  CHOOSE p : Pieces(p, Ended(l, <<"\n">>), Chars)
               /\ FlattenSeq(Ended(l, <<"\n">>)) = p[Len(Ended(l, <<"\n">>))]
Start(l, k) == Len(Upto(l)[k - 1]) + 1
Stop(l, k) == Start(l, k) + Len(l[k])

LEMMA UptoIs ==
  ASSUME NEW l \in Seq(Text)
  PROVE  /\ Pieces(Upto(l), Ended(l, <<"\n">>), Chars) /\ Whole(l) = Upto(l)[Len(l)]
         /\ Whole(l) \in Text /\ <<"\n">> \in Text
<1> DEFINE c == <<"\n">>
           s == Ended(l, c)
           p == Upto(l)
<1>1. c \in Text
  BY EndIsText DEF Ends
<1> HIDE DEF c
<1>2. s \in Seq(Seq(Chars)) /\ Len(s) = Len(l)
  BY <1>1, EndedType DEF Text
<1>3. Lined(l, c) = FlattenSeq(s)
  BY Zenon DEF Lined, Ended
<1>4. Lined(l, c) \in Text
  BY <1>1, LinedText
<1> HIDE DEF s
<1>5. \E f : Pieces(f, s, Chars) /\ FlattenSeq(s) = f[Len(s)]
  BY <1>2, FlattenIs
<1>6. Pieces(p, s, Chars) /\ FlattenSeq(s) = p[Len(s)]
  BY <1>5, Zenon DEF Upto, s, c
<1> HIDE DEF p
<1> QED BY <1>1, <1>2, <1>3, <1>4, <1>6, Zenon DEF Whole, p, s, c

\* What is read of the lines of a file: their text, perhaps without the last "\n".
Read(w, l) == w \in Text /\ Begins(w, Whole(l)) /\ Len(Whole(l)) <= Len(w) + 1

LEMMA FileIsRead ==
  ASSUME NEW l \in Seq(Lines), NEW e \in Ends, NEW behind \in Text
  PROVE  Read(readFileBuffered(Lined(l, e), behind), l)
<1> DEFINE w == readFileBuffered(Lined(l, e), behind)
           pp == Upto(l)
           z == Whole(l)
           n == Len(l)
<1>1. l \in Seq(Text) /\ e \in Text /\ n \in Nat
  BY LineIsText, EndIsText, SeqMonotonic, LenProperties
<1>2. Pieces(pp, Ended(l, <<"\n">>), Chars) /\ z = pp[n] /\ z \in Text /\ <<"\n">> \in Text
  BY <1>1, UptoIs
<1>3. w \in Text
  BY <1>1, LinedText, ReadIsText
<1>4. w = pp[n] \/ (n > 0 /\ w = pp[n - 1] \o l[n])
  <2> HIDE DEF pp
  <2> QED BY <1>2, ReadIs
<1>5. n > 0 => pp[n] = (pp[n - 1] \o l[n]) \o <<"\n">>
  <2> SUFFICES ASSUME n > 0 PROVE pp[n] = (pp[n - 1] \o l[n]) \o <<"\n">>
    OBVIOUS
  <2>1. n \in 1 .. Len(l)
    BY <1>1
  <2> HIDE DEF pp, n
  <2> QED BY <1>1, <1>2, <2>1, LineMore
<1> HIDE DEF w, pp, z, n
<1>6. z = w \/ z = w \o <<"\n">>
  BY <1>2, <1>4, <1>5, Zenon
<1>7. Begins(w, z) /\ Len(z) <= Len(w) + 1
  <2>1. Len(w) \in Nat
    BY <1>3, LenProperties DEF Text
  <2>2. CASE z = w
    BY <2>1, <2>2 DEF Begins
  <2>3. CASE z = w \o <<"\n">>
    <3> DEFINE c == <<"\n">>
    <3>1. Len(c) = 1
      OBVIOUS
    <3>2. w \in Seq(Chars) /\ c \in Seq(Chars) /\ z = w \o c
      BY <1>2, <1>3, <2>3 DEF Text
    <3> HIDE DEF c
    <3>3. Len(w \o c) = Len(w) + Len(c) /\ \A j \in 1 .. Len(w) : (w \o c)[j] = w[j]
      BY <3>2, Joined
    <3> QED BY <2>1, <3>1, <3>2, <3>3 DEF Begins
  <2> QED BY <1>6, <2>2, <2>3
<1>8. Read(w, l)
  BY <1>3, <1>7, Zenon DEF Read, z
<1> QED BY <1>8 DEF w

\* A line in a text that is read, and its end.
Placed(w, l, k) ==
  LET s == Start(l, k)
      e == Stop(l, k)
  IN  /\ s \in 1 .. Len(w) /\ e \in Nat /\ s < e /\ e <= Len(w) + 1
      /\ Lies(l[k], w, s - 1)
      /\ e <= Len(w) => w[e] = "\n"
      /\ k < Len(l) => e <= Len(w) /\ Start(l, k + 1) = e + 1
      /\ k = Len(l) => Len(w) < e + 1

LEMMA LinePlaced ==
  ASSUME NEW l \in Seq(Lines), NEW w, Read(w, l), NEW k \in 1 .. Len(l)
  PROVE  Placed(w, l, k)
<1> DEFINE q == Upto(l)
           z == Whole(l)
           n == Len(l)
           c == <<"\n">>
<1>1. l \in Seq(Text) /\ n \in Nat /\ k \in Nat /\ k <= n
  BY LineIsText, SeqMonotonic, LenProperties
<1>2. Pieces(q, Ended(l, c), Chars) /\ z = q[n] /\ z \in Text /\ c \in Text
  BY <1>1, UptoIs
<1>3. ASSUME NEW i \in 1 .. Len(l)
      PROVE  /\ Len(q[i - 1]) \in Nat /\ Len(l[i]) \in Nat /\ Len(l[i]) >= 1
             /\ Len(q[i]) = (Len(q[i - 1]) + Len(l[i])) + 1 /\ Len(q[i]) <= Len(z)
             /\ Lies(l[i], z, Len(q[i - 1])) /\ Lies(c, z, Len(q[i - 1]) + Len(l[i]))
  <2>1. Len(c) = 1
    OBVIOUS
  <2> HIDE DEF c, q, n
  <2>2. /\ Len(q[i - 1]) \in Nat /\ Len(l[i]) \in Nat
        /\ Len(q[i]) = (Len(q[i - 1]) + Len(l[i])) + Len(c) /\ Len(q[i]) <= Len(q[Len(l)])
        /\ Lies(l[i], q[Len(l)], Len(q[i - 1])) /\ Lies(c, q[Len(l)], Len(q[i - 1]) + Len(l[i]))
    BY <1>1, <1>2, LineAt
  <2>3. Len(l[i]) # 0
    <3>1. l[i] \in Seq(Chars) /\ l[i] # <<>>
      <4>1. l[i] \in Lines
        BY ElementOfSeq
      <4> QED BY <4>1, LineIsText DEF Lines, Text
    <3> QED BY <3>1, EmptySeq
  <2> HIDE DEF z
  <2>4. z = q[Len(l)]
    BY <1>2 DEF n
  <2> DEFINE g == Len(l[i])
             y == Len(q[i - 1])
             h == Len(c)
  <2>5. /\ y \in Nat /\ g \in Nat /\ g # 0 /\ h = 1
        /\ Len(q[i]) = (y + g) + h /\ Len(q[i]) <= Len(z) /\ Lies(l[i], z, y) /\ Lies(c, z, y + g)
    BY <2>1, <2>2, <2>3, <2>4, Zenon
  <2> HIDE DEF g, y, h
  <2>6. g >= 1 /\ Len(q[i]) = (y + g) + 1
    BY <2>5
  <2> QED BY <2>5, <2>6, Zenon DEF g, y
<1> DEFINE s == Start(l, k)
           e == Stop(l, k)
           a == Len(q[k - 1])
           b == Len(q[k])
           m == Len(l[k])
<1>4. s = a + 1 /\ e = s + m
  BY DEF Start, Stop
<1>5. w \in Text /\ Begins(w, z) /\ Len(z) <= Len(w) + 1
  BY Zenon DEF Read
<1>6. /\ a \in Nat /\ m \in Nat /\ m >= 1 /\ b = (a + m) + 1 /\ b <= Len(z)
      /\ Lies(l[k], z, a) /\ Lies(c, z, a + m)
  BY <1>3
<1>7. k = n => b = Len(z)
  BY <1>2
<1>8. Start(l, k + 1) = b + 1
  <2>1. (k + 1) - 1 = k
    BY <1>1
  <2> QED BY <2>1, Zenon DEF Start
<1>9. k < n => b + 1 <= Len(z)
  <2> SUFFICES ASSUME k < n PROVE b + 1 <= Len(z)
    OBVIOUS
  <2> DEFINE i == k + 1
  <2>1. i \in 1 .. Len(l) /\ i - 1 = k
    BY <1>1
  <2> HIDE DEF i
  <2>2. Len(l[i]) \in Nat /\ Len(l[i]) >= 1 /\ Len(q[i]) = (b + Len(l[i])) + 1 /\ Len(q[i]) <= Len(z)
    BY <1>3, <2>1
  <2> HIDE DEF b
  <2>3. b \in Nat
    <3> DEFINE u == a + m
    <3>1. a \in Nat /\ m \in Nat /\ b = u + 1
      BY <1>6 DEF b
    <3>2. u \in Nat
      <4> HIDE DEF a, m
      <4> QED BY <3>1
    <3> HIDE DEF u
    <3> QED BY <3>1, <3>2
  <2> DEFINE g == Len(l[i])
             h == Len(q[i])
             r == Len(z)
  <2>4. g \in Nat /\ g >= 1 /\ h = (b + g) + 1 /\ h <= r /\ r \in Nat
    BY <1>2, <2>2, LenProperties DEF Text
  <2> HIDE DEF g, h, r
  <2>5. b + 1 <= r
    BY <2>3, <2>4
  <2> QED BY <2>5 DEF r
<1>10. m = Len(l[k]) /\ Len(c) = 1 /\ c[1] = "\n"
  OBVIOUS
<1> HIDE DEF s, e, a, b, m, q, z, c, n
<1>11. Len(w) \in Nat /\ Len(z) \in Nat /\ Len(w) <= Len(z) /\ \A i \in 1 .. Len(w) : w[i] = z[i]
  BY <1>2, <1>5, LenProperties DEF Text, Begins
<1>12. s \in 1 .. Len(w) /\ e \in Nat /\ s < e /\ e <= Len(w) + 1 /\ s - 1 = a /\ b = e /\ a + m <= Len(w)
  BY <1>4, <1>5, <1>6, <1>11
<1>13. Lies(l[k], w, s - 1)
  <2>1. \A j \in 1 .. m : z[a + j] = l[k][j]
    BY <1>6, <1>10 DEF Lies
  <2>2. \A j \in 1 .. m : a + j \in 1 .. Len(w)
    BY <1>6, <1>11, <1>12
  <2>3. \A j \in 1 .. m : w[a + j] = l[k][j]
    BY <1>11, <2>1, <2>2
  <2> QED BY <1>10, <1>12, <2>3, Zenon DEF Lies
<1>14. e <= Len(w) => w[e] = "\n"
  <2>1. z[(a + m) + 1] = "\n"
    BY <1>6, <1>10 DEF Lies
  <2> QED BY <1>6, <1>11, <1>12, <2>1
<1>15. k < n => e <= Len(w) /\ Start(l, k + 1) = e + 1
  BY <1>5, <1>8, <1>9, <1>11, <1>12
<1>16. k = n => Len(w) < e + 1
  BY <1>7, <1>11, <1>12
<1> QED BY <1>12, <1>13, <1>14, <1>15, <1>16, Zenon DEF Placed, s, e, n

\* A text that lies in another is a part of it.
LEMMA LiesSub ==
  ASSUME NEW S, NEW w \in Seq(S), NEW l \in Seq(S), NEW a \in Nat, Lies(l, w, a)
  PROVE  SubSeq(w, a + 1, a + Len(l)) = l
<1> DEFINE m == Len(l)
           i == a + 1
           j == a + m
           r == SubSeq(w, i, j)
<1>1. m \in Nat /\ Len(w) \in Nat
  BY LenProperties
<1>2. a + m <= Len(w) /\ \A y \in 1 .. m : w[a + y] = l[y]
  BY DEF Lies
<1> HIDE DEF m
<1>3. i \in Int /\ j \in Int /\ (j - i) + 1 = m /\ (i <= j <=> m # 0)
  BY <1>1
<1>4. \A y \in i .. j : y \in 1 .. Len(w)
  BY <1>1, <1>2
<1>5. \A y \in 1 .. m : (i + y) - 1 = a + y
  BY <1>1
<1> HIDE DEF i, j
<1>6. \A y \in i .. j : w[y] \in S
  BY <1>4, ElementOfSeq
<1>7. /\ r \in Seq(S) /\ Len(r) = IF i <= j THEN (j - i) + 1 ELSE 0
      /\ \A y \in 1 .. (j - i) + 1 : r[y] = w[(i + y) - 1]
  BY <1>3, <1>6, SubSeqProperties
<1> HIDE DEF r
<1>8. Len(r) = m /\ \A y \in 1 .. m : r[y] = w[a + y]
  BY <1>1, <1>3, <1>5, <1>7
<1>9. r = l
  <2>1. Len(r) = Len(l) /\ \A y \in 1 .. Len(r) : r[y] = l[y]
    BY <1>2, <1>8 DEF m
  <2> QED BY <1>7, <2>1, SeqEqual
<1> QED BY <1>9 DEF r, i, j, m

\* What the reader finds in a line.
Seen(w, l, k) ==
  LET s == Start(l, k)
      e == Stop(l, k)
  IN  /\ w[s] = l[k][1] /\ l[k][1] \in Chars \ {"\n", "\r"}
      /\ SubSeq(w, s, e - 1) = l[k]
      /\ findNextLine(w, s) = e

LEMMA LineSeen ==
  ASSUME NEW l \in Seq(Lines), NEW w, Read(w, l), NEW k \in 1 .. Len(l)
  PROVE  Seen(w, l, k)
<1> DEFINE t == l[k]
           s == Start(l, k)
           e == Stop(l, k)
           a == s - 1
           m == Len(t)
<1>1. /\ s \in 1 .. Len(w) /\ e \in Nat /\ s < e /\ e <= Len(w) + 1
      /\ Lies(t, w, a) /\ (e <= Len(w) => w[e] = "\n")
  BY LinePlaced DEF Placed
<1>2. t \in Seq(Chars \ {"\n", "\r"}) /\ t \in Seq(Chars) /\ w \in Seq(Chars) /\ Len(w) \in Nat
  <2>1. t \in Lines
    BY ElementOfSeq
  <2> QED BY <2>1, LineIsText, LenProperties DEF Read, Lines, Text
<1>3. m \in Nat
  BY <1>2, LenProperties
<1>4. e = s + m
  BY DEF Stop
<1> HIDE DEF s, e, t
<1>5. 1 \in 1 .. m /\ a \in Nat /\ a + 1 = s /\ a + m = e - 1 /\ s \in Nat
  <2> HIDE DEF m
  <2> QED BY <1>1, <1>2, <1>3, <1>4
<1>6. w[s] = t[1] /\ \A j \in 1 .. m : w[a + j] = t[j]
  BY <1>1, <1>5 DEF Lies
<1>7. \A j \in 1 .. m : t[j] \in Chars \ {"\n", "\r"}
  BY <1>2, ElementOfSeq
<1>8. SubSeq(w, s, e - 1) = t
  <2> HIDE DEF a
  <2>1. SubSeq(w, a + 1, a + Len(t)) = t
    BY <1>1, <1>2, <1>5, LiesSub
  <2> QED BY <1>5, <2>1
<1>9. findNextLine(w, s) = e
  <2>1. ASSUME NEW j \in s .. e - 1 PROVE w[j] \notin {"\n"}
    <3> HIDE DEF m
    <3>1. j - a \in 1 .. m /\ a + (j - a) = j
      BY <1>1, <1>3, <1>4, <1>5
    <3>2. w[j] = t[j - a] /\ t[j - a] \in Chars \ {"\n", "\r"}
      BY <1>6, <1>7, <3>1
    <3> QED BY <3>2
  <2>2. e <= Len(w) => w[e] \in {"\n"}
    BY <1>1
  <2>3. s <= e
    BY <1>1, <1>5
  <2> QED BY <1>1, <1>2, <1>5, <2>1, <2>2, <2>3, NextAt DEF findNextLine
<1>10. t[1] \in Chars \ {"\n", "\r"}
  BY <1>5, <1>7
<1> QED BY <1>6, <1>8, <1>9, <1>10, Zenon DEF Seen, s, e, t

\* Where the lines of a code are in the file: its first one, which in the older form
\* is the brace, the two of its head, those of its body, and the one that ends it.
Rows(bl) ==
  CHOOSE p : Pieces(p, AllWritten(bl), Lines) /\ AllLines(bl) = p[Len(AllWritten(bl))]
FirstLine(bl, i) == Len(Rows(bl)[i - 1]) + 1
HeadLine(bl, i) == FirstLine(bl, i) + (IF bl[i].old THEN 1 ELSE 0)
LastLine(bl, i) == HeadLine(bl, i) + 2 + Len(bl[i].body)

Rowed(bl, i) ==
  LET l == AllLines(bl)
      f == FirstLine(bl, i)
      h == HeadLine(bl, i)
      t == LastLine(bl, i)
      b == bl[i]
  IN  /\ f \in Nat /\ 1 <= f /\ t \in Nat /\ t <= Len(l)
      /\ b.old => l[f] = <<"{">>
      /\ l[h] = IF b.old THEN <<b.mark>> ELSE b.name
      /\ l[h + 1] = IF b.old THEN b.name ELSE <<b.mark>>
      /\ Lies(b.body, l, h + 1)
      /\ l[t] = <<IF b.old THEN "}" ELSE "#">>
      /\ FirstLine(bl, i + 1) = t + 1
      /\ i = Len(bl) => t = Len(l)

LEMMA RowsIs ==
  ASSUME NEW bl \in Seq(Blocks)
  PROVE  Pieces(Rows(bl), AllWritten(bl), Lines) /\ AllLines(bl) = Rows(bl)[Len(AllWritten(bl))]
<1> HIDE DEF Lines
<1>1. \E p : Pieces(p, AllWritten(bl), Lines) /\ AllLines(bl) = p[Len(AllWritten(bl))]
  BY AllWrittenType, FlattenIs DEF AllLines
<1> QED BY <1>1, Zenon DEF Rows

\* The lines of a code among them.
LEMMA WrittenLie ==
  ASSUME NEW b \in Blocks, NEW l, Len(l) \in Nat, NEW a \in Nat, Lies(Written(b), l, a)
  PROVE  LET h == IF b.old THEN 1 ELSE 0
             m == Len(b.body)
         IN  /\ Len(Written(b)) = (h + 2 + m) + 1 /\ m \in Nat
             /\ b.old => l[a + 1] = <<"{">>
             /\ l[a + h + 1] = IF b.old THEN <<b.mark>> ELSE b.name
             /\ l[a + h + 2] = IF b.old THEN b.name ELSE <<b.mark>>
             /\ Lies(b.body, l, a + h + 2)
             /\ l[a + h + 2 + m + 1] = <<IF b.old THEN "}" ELSE "#">>
<1> DEFINE c == IF b.old THEN <<<<"{">>, <<b.mark>>, b.name>> ELSE <<b.name, <<b.mark>>>>
           e == IF b.old THEN <<<<"}">>>> ELSE <<<<"#">>>>
           h == IF b.old THEN 1 ELSE 0
           d == b.body
           m == Len(d)
<1>1. Written(b) = (c \o d) \o e
  BY Zenon DEF Written
<1>2. c \in Seq(Lines) /\ d \in Seq(Lines) /\ e \in Seq(Lines)
  <2>1. b.name \in Lines /\ b.mark \in Chars \ {"\n", "\r"} /\ b.body \in Seq(Lines)
    BY DEF Blocks
  <2>2. \A y \in Chars \ {"\n", "\r"} : <<y>> \in Lines
    BY DEF Lines
  <2>3. <<"{">> \in Lines /\ <<b.mark>> \in Lines /\ <<"}">> \in Lines /\ <<"#">> \in Lines
    <3>1. {"{", "}", "#"} \subseteq Chars \ {"\n", "\r"}
      BY DEF Chars
    <3> HIDE DEF Lines
    <3> QED BY <2>1, <2>2, <3>1
  <2> HIDE DEF Blocks, Lines
  <2>4. <<<<"{">>, <<b.mark>>, b.name>> \in Seq(Lines) /\ <<b.name, <<b.mark>>>> \in Seq(Lines)
        /\ <<<<"}">>>> \in Seq(Lines) /\ <<<<"#">>>> \in Seq(Lines)
    BY <2>1, <2>3, FewOf
  <2> QED BY <2>1, <2>4
<1>3. /\ Len(c) = h + 2 /\ Len(e) = 1 /\ e[1] = <<IF b.old THEN "}" ELSE "#">>
      /\ b.old => c[1] = <<"{">>
      /\ c[h + 1] = (IF b.old THEN <<b.mark>> ELSE b.name)
      /\ c[h + 2] = (IF b.old THEN b.name ELSE <<b.mark>>)
      /\ h \in {0, 1} /\ (b.old => h = 1)
  <2> DEFINE y == <<b.mark>>
             z == b.name
  <2> HIDE DEF y, z
  <2>1. CASE b.old
    <3>1. c = <<<<"{">>, y, z>> /\ h = 1 /\ e = <<<<"}">>>>
      BY <2>1, Zenon DEF y, z
    <3>2. Len(<<<<"{">>, y, z>>) = 3 /\ <<<<"{">>, y, z>>[1] = <<"{">> /\ <<<<"{">>, y, z>>[2] = y
          /\ <<<<"{">>, y, z>>[3] = z /\ Len(<<<<"}">>>>) = 1 /\ <<<<"}">>>>[1] = <<"}">>
      OBVIOUS
    <3>3. h = 1
      BY <3>1
    <3> HIDE DEF c, e, h
    <3>4. h + 1 = 2 /\ h + 2 = 3
      BY <3>3
    <3> QED BY <2>1, <3>1, <3>2, <3>4 DEF y, z
  <2>2. CASE ~b.old
    <3>1. c = <<z, y>> /\ h = 0 /\ e = <<<<"#">>>>
      BY <2>2, Zenon DEF y, z
    <3>2. Len(<<z, y>>) = 2 /\ <<z, y>>[1] = z /\ <<z, y>>[2] = y /\ Len(<<<<"#">>>>) = 1 /\ <<<<"#">>>>[1] = <<"#">>
      OBVIOUS
    <3> HIDE DEF c, e, h
    <3>3. h + 1 = 1 /\ h + 2 = 2
      BY <3>1
    <3> QED BY <2>2, <3>1, <3>2, <3>3 DEF y, z
  <2> QED BY <2>1, <2>2
<1> HIDE DEF c, e, h, d, Lines
<1>4. Len(c) \in Nat /\ m \in Nat /\ c \o d \in Seq(Lines) /\ Len(c \o d) = Len(c) + m
  BY <1>2, Joined
<1>5. Len((c \o d) \o e) = Len(c \o d) + Len(e)
  BY <1>2, <1>4, Joined
<1>6. Lies((c \o d) \o e, l, a)
  BY <1>1
<1> DEFINE g == c \o d
<1>7. Lies(g, l, a) /\ Lies(e, l, a + Len(g))
  <2> HIDE DEF g
  <2> QED BY <1>2, <1>4, <1>6, LiesSplit DEF g
<1>8. Lies(c, l, a) /\ Lies(d, l, a + Len(c))
  BY <1>2, <1>7, LiesSplit
<1> HIDE DEF g, m
<1>9. /\ \A j \in 1 .. Len(c) : l[a + j] = c[j]
      /\ \A j \in 1 .. Len(e) : l[(a + Len(g)) + j] = e[j]
  BY <1>7, <1>8 DEF Lies
<1>10. Len(g) = h + 2 + m /\ Len(Written(b)) = (h + 2 + m) + 1
  BY <1>1, <1>3, <1>4, <1>5 DEF g
<1>11. /\ a + (h + 1) = a + h + 1 /\ a + (h + 2) = a + h + 2 /\ h + 1 \in 1 .. Len(c) /\ h + 2 \in 1 .. Len(c)
       /\ 1 \in 1 .. Len(c) /\ 1 \in 1 .. Len(e)
       /\ a + Len(c) = a + h + 2 /\ (a + Len(g)) + 1 = a + h + 2 + m + 1
  <2> DEFINE u == Len(c)
             v == Len(g)
             y == Len(e)
  <2>1. u = h + 2 /\ v = h + 2 + m /\ y = 1 /\ h \in {0, 1} /\ m \in Nat
    BY <1>3, <1>4, <1>10
  <2> HIDE DEF u, v, y
  <2> QED BY <2>1 DEF u, v, y
<1>12. b.old => l[a + 1] = <<"{">>
  BY <1>3, <1>9, <1>11
<1>13. /\ l[a + h + 1] = (IF b.old THEN <<b.mark>> ELSE b.name)
       /\ l[a + h + 2] = (IF b.old THEN b.name ELSE <<b.mark>>)
  BY <1>3, <1>9, <1>11
<1>14. l[a + h + 2 + m + 1] = <<IF b.old THEN "}" ELSE "#">>
  BY <1>3, <1>9, <1>11
<1>15. Lies(d, l, a + h + 2)
  BY <1>8, <1>11
<1> QED BY <1>4, <1>10, <1>12, <1>13, <1>14, <1>15, Zenon DEF h, d, m

LEMMA RowPlaced ==
  ASSUME NEW bl \in Seq(Blocks), NEW i \in 1 .. Len(bl)
  PROVE  Rowed(bl, i)
<1> DEFINE q == Rows(bl)
           s == AllWritten(bl)
           l == AllLines(bl)
           b == bl[i]
           a == Len(q[i - 1])
<1>1. Pieces(q, s, Lines) /\ l = q[Len(s)]
  BY RowsIs
<1>2. s \in Seq(Seq(Lines)) /\ Len(s) = Len(bl) /\ s[i] = Written(b) /\ b \in Blocks
  <2>1. s \in Seq(Seq(Lines)) /\ Len(s) = Len(bl) /\ s[i] = Written(b)
    BY AllWrittenType
  <2>2. b \in Blocks
    <3> HIDE DEF Blocks
    <3> QED BY ElementOfSeq
  <2> QED BY <2>1, <2>2
<1>3. Len(l) \in Nat
  <2>1. l \in Seq(Lines)
    BY AllLinesType
  <2> QED BY <2>1, LenProperties
<1> HIDE DEF s, l, Blocks, Lines
<1>4. Len(q[i - 1]) \in Nat /\ Len(s[i]) \in Nat /\ Len(q[i]) = Len(q[i - 1]) + Len(s[i])
      /\ Lies(s[i], q[Len(s)], Len(q[i - 1])) /\ Len(q[i]) <= Len(q[Len(s)])
  <2>1. Len(s) \in Nat /\ i \in 1 .. Len(s) /\ i \in 0 .. Len(s)
    BY <1>2, LenProperties
  <2> HIDE DEF q
  <2> QED BY <1>1, <1>2, <2>1, PieceLen, PieceAt, PiecesBegin DEF Begins
<1>5. /\ a \in Nat /\ Len(q[i]) = a + Len(Written(b)) /\ Lies(Written(b), l, a) /\ Len(q[i]) <= Len(l)
  BY <1>1, <1>2, <1>4
<1> DEFINE h == IF b.old THEN 1 ELSE 0
           m == Len(b.body)
<1>6. /\ Len(Written(b)) = (h + 2 + m) + 1 /\ m \in Nat
      /\ b.old => l[a + 1] = <<"{">>
      /\ l[a + h + 1] = IF b.old THEN <<b.mark>> ELSE b.name
      /\ l[a + h + 2] = IF b.old THEN b.name ELSE <<b.mark>>
      /\ Lies(b.body, l, a + h + 2)
      /\ l[a + h + 2 + m + 1] = <<IF b.old THEN "}" ELSE "#">>
  <2> HIDE DEF a, b
  <2> QED BY <1>2, <1>3, <1>5, WrittenLie
<1>7. FirstLine(bl, i) = a + 1 /\ HeadLine(bl, i) = (a + 1) + h /\ LastLine(bl, i) = (a + 1) + h + 2 + m
  BY DEF FirstLine, HeadLine, LastLine
<1>8. FirstLine(bl, i + 1) = Len(q[i]) + 1
  <2>1. (i + 1) - 1 = i
    OBVIOUS
  <2> QED BY <2>1 DEF FirstLine
<1>9. i = Len(bl) => Len(q[i]) = Len(l)
  BY <1>1, <1>2
<1>10. h \in {0, 1}
  OBVIOUS
<1> HIDE DEF a, b, h, m, q
<1>11. /\ (a + 1) + h = a + h + 1 /\ a + h + 1 + 1 = a + h + 2 /\ (a + 1) + h + 2 + m = a + h + 2 + m + 1
       /\ a + 1 \in Nat /\ 1 <= a + 1 /\ a + h + 2 + m + 1 \in Nat
  <2>1. a \in Nat /\ m \in Nat
    BY <1>5, <1>6
  <2> QED BY <1>10, <2>1
<1>12. Len(q[i]) = a + h + 2 + m + 1
  <2> DEFINE u == Len(Written(b))
             v == Len(q[i])
  <2>1. a \in Nat /\ m \in Nat /\ v = a + u /\ u = (h + 2 + m) + 1
    BY <1>5, <1>6
  <2> HIDE DEF u, v
  <2>2. v = a + h + 2 + m + 1
    BY <1>10, <2>1
  <2> QED BY <2>2 DEF v
<1> DEFINE t == a + h + 2 + m + 1
           head == a + h + 1
<1>13. /\ FirstLine(bl, i) = a + 1 /\ HeadLine(bl, i) = head /\ LastLine(bl, i) = t
       /\ head + 1 = a + h + 2 /\ t \in Nat /\ t <= Len(l)
       /\ FirstLine(bl, i + 1) = t + 1 /\ (i = Len(bl) => t = Len(l))
  BY <1>5, <1>7, <1>8, <1>9, <1>11, <1>12
<1>14. /\ b.old => l[FirstLine(bl, i)] = <<"{">>
       /\ l[HeadLine(bl, i)] = (IF b.old THEN <<b.mark>> ELSE b.name)
       /\ l[HeadLine(bl, i) + 1] = (IF b.old THEN b.name ELSE <<b.mark>>)
       /\ Lies(b.body, l, HeadLine(bl, i) + 1)
       /\ l[LastLine(bl, i)] = <<IF b.old THEN "}" ELSE "#">>
  BY <1>6, <1>13, Zenon
<1>15. /\ FirstLine(bl, i) \in Nat /\ 1 <= FirstLine(bl, i) /\ LastLine(bl, i) \in Nat /\ LastLine(bl, i) <= Len(l)
       /\ FirstLine(bl, i + 1) = LastLine(bl, i) + 1
       /\ i = Len(bl) => LastLine(bl, i) = Len(l)
  BY <1>11, <1>13
<1> QED BY <1>14, <1>15, Zenon DEF Rowed, l, b

\* The first code begins the file.
LEMMA RowFirst ==
  ASSUME NEW bl \in Seq(Blocks)
  PROVE  FirstLine(bl, 1) = 1
<1>1. Rows(bl)[0] = <<>>
  BY RowsIs, Zenon DEF Pieces
<1>2. Len(<<>>) = 0 /\ 1 - 1 = 0
  OBVIOUS
<1> QED BY <1>1, <1>2 DEF FirstLine

\* No code ends within a body.
Breaks == {"#", "}"}

LEMMA UnmarkedWhole ==
  ASSUME NEW d \in Seq(Lines), Unmarked(d)
  PROVE  Whole(d) \in Seq(Chars \ Breaks)
<1> DEFINE S == Chars \ Breaks
           c == <<"\n">>
           s == Ended(d, c)
<1>1. d \in Seq(Text) /\ c \in Text /\ Len(d) \in Nat /\ DOMAIN d = 1 .. Len(d)
  BY LineIsText, EndIsText, SeqMonotonic, LenProperties DEF Ends
<1>2. c \in Seq(S)
  BY DEF Chars, Hex, Breaks
<1>3. ASSUME NEW k \in 1 .. Len(d) PROVE d[k] \in Seq(S)
  <2>1. d[k] \in ToSet(d) /\ d[k] \in Text
    BY <1>1, ElementOfSeq DEF ToSet
  <2>2. ToSet(d[k]) \cap Marks = {}
    BY <2>1, Zenon DEF Unmarked
  <2> DEFINE t == d[k]
  <2> HIDE DEF t
  <2>3. t \in Seq(Chars) /\ ToSet(t) \cap Marks = {}
    BY <2>1, <2>2 DEF t, Text
  <2>4. Len(t) \in Nat /\ DOMAIN t = 1 .. Len(t) /\ \A j \in 1 .. Len(t) : t[j] \in Chars
    BY <2>3, LenProperties, ElementOfSeq
  <2>5. ASSUME NEW j \in 1 .. Len(t) PROVE t[j] \in S
    <3>1. t[j] \in ToSet(t)
      BY <2>4 DEF ToSet
    <3> QED BY <2>3, <2>4, <3>1 DEF Marks, Breaks
  <2> HIDE DEF S
  <2>6. t \in Seq(S)
    BY <2>3, <2>4, <2>5
  <2> QED BY <2>6 DEF t
<1>4. /\ s \in Seq(Text) /\ Len(s) = Len(d) /\ \A k \in 1 .. Len(d) : s[k] = d[k] \o c
  BY <1>1, EndedType
<1> HIDE DEF S, c, s
<1>5. \A k \in 1 .. Len(d) : s[k] \in Seq(S)
  BY <1>2, <1>3, <1>4, ConcatProperties
<1>6. s \in Seq(Seq(S))
  <2>1. DOMAIN s = 1 .. Len(d) /\ s = [k \in 1 .. Len(d) |-> s[k]]
    BY <1>4
  <2> QED BY <1>1, <1>5, <2>1, IsASeq
<1>7. FlattenSeq(s) \in Seq(S)
  BY <1>6, FlattenType
<1>8. Whole(d) = FlattenSeq(s)
  BY Zenon DEF Whole, Lined, Ended, s, c
<1> QED BY <1>7, <1>8 DEF S

\* The body of a code in the text that is read.
Bodied(w, bl, i) ==
  LET l == AllLines(bl)
      s == Start(l, HeadLine(bl, i) + 2)
      e == Start(l, LastLine(bl, i))
  IN  SubSeq(w, s, e - 1) = Whole(bl[i].body) /\ findNextBreak(w, s) = e

LEMMA BodyPlaced ==
  ASSUME NEW bl \in Seq(Blocks), NEW w, Read(w, AllLines(bl)), NEW i \in 1 .. Len(bl), Unmarked(bl[i].body)
  PROVE  Bodied(w, bl, i)
<1> DEFINE l == AllLines(bl)
           d == bl[i].body
           h == HeadLine(bl, i)
           t == LastLine(bl, i)
           c == <<"\n">>
           body == Whole(d)
           p == Upto(l)
           q == Upto(d)
           n == Len(l)
           m == Len(d)
<1>1. l \in Seq(Lines) /\ l \in Seq(Text) /\ n \in Nat
  BY AllLinesType, LenProperties
<1>2. d \in Seq(Lines) /\ d \in Seq(Text) /\ m \in Nat
  <2>1. bl[i] \in Blocks
    <3> HIDE DEF Blocks
    <3> QED BY ElementOfSeq
  <2>2. d \in Seq(Lines)
    BY <2>1 DEF Blocks
  <2> QED BY <2>2, LineIsText, SeqMonotonic, LenProperties
<1>3. /\ Pieces(p, Ended(l, c), Chars) /\ Whole(l) = p[n] /\ Whole(l) \in Text
      /\ Pieces(q, Ended(d, c), Chars) /\ body = q[m] /\ body \in Text /\ c \in Text
  BY <1>1, <1>2, UptoIs
<1>4. h \in Nat /\ t = (h + 2) + m /\ t \in 1 .. n /\ Lies(d, l, h + 1) /\ l[t][1] \in Breaks
  <2>1. Rowed(bl, i)
    BY RowPlaced
  <2>2. FirstLine(bl, i) \in Nat /\ t \in Nat /\ t <= n /\ Lies(d, l, h + 1)
        /\ l[t] = <<IF bl[i].old THEN "}" ELSE "#">>
    BY <2>1, Zenon DEF Rowed
  <2>3. h \in Nat
    <3> DEFINE f == FirstLine(bl, i)
    <3>1. f \in Nat /\ (h = f + 1 \/ h = f + 0)
      BY <2>2, Zenon DEF HeadLine
    <3> HIDE DEF f, h
    <3> QED BY <3>1
  <2>4. t = (h + 2) + m
    BY Zenon DEF LastLine
  <2>5. l[t][1] \in Breaks
    <3> DEFINE r == IF bl[i].old THEN "}" ELSE "#"
    <3>1. r \in Breaks
      BY DEF Breaks
    <3> HIDE DEF r
    <3>2. l[t] = <<r>>
      BY <2>2, Zenon DEF r
    <3> HIDE DEF l, t
    <3> QED BY <3>1, <3>2
  <2> HIDE DEF h, t, m, n, l, d
  <2>6. t \in Nat /\ t <= n /\ h \in Nat /\ t = (h + 2) + m /\ m \in Nat
    BY <1>2, <2>2, <2>3, <2>4
  <2>7. t \in 1 .. n
    BY <1>1, <2>6
  <2> QED BY <2>2, <2>3, <2>4, <2>5, <2>7
<1>5. Placed(w, l, t) /\ Seen(w, l, t)
  BY <1>1, <1>4, LinePlaced, LineSeen
<1>6. w \in Text /\ Begins(w, Whole(l))
  BY Zenon DEF Read
<1> HIDE DEF l, d, body, p, q, h, t
<1>7. /\ Ended(l, c) \in Seq(Seq(Chars)) /\ Len(Ended(l, c)) = n
      /\ Ended(d, c) \in Seq(Seq(Chars)) /\ Len(Ended(d, c)) = m
      /\ \A j \in 1 .. n : Ended(l, c)[j] = l[j] \o c
      /\ \A j \in 1 .. m : Ended(d, c)[j] = d[j] \o c
  BY <1>1, <1>2, <1>3, EndedType DEF Text
<1> HIDE DEF n, m, c
<1> DEFINE a == h + 1
           sl == Ended(l, c)
           sd == Ended(d, c)
<1>8. p[a + m] = p[a] \o q[m]
  <2>1. a \in Nat /\ a + m <= n
    BY <1>1, <1>2, <1>4
  <2>2. ASSUME NEW j \in 1 .. m PROVE sl[a + j] = sd[j]
    <3>1. a + j \in 1 .. n
      BY <1>1, <1>2, <2>1
    <3>2. l[a + j] = d[j]
      BY <1>4 DEF Lies, m
    <3> QED BY <1>7, <3>1, <3>2
  <2> HIDE DEF a, sl, sd
  <2>3. /\ sl \in Seq(Seq(Chars)) /\ Pieces(p, sl, Chars) /\ sd \in Seq(Seq(Chars)) /\ Pieces(q, sd, Chars)
        /\ Len(sd) = m /\ Len(sl) = n
    BY <1>3, <1>7 DEF sl, sd
  <2>4. Lies(sd, sl, a)
    BY <2>1, <2>2, <2>3 DEF Lies
  <2>5. RunsOver(p, a, q, sd)
    BY <2>1, <2>3, <2>4, PiecesRun
  <2> QED BY <2>3, <2>5, Zenon DEF RunsOver
<1>9. a + m = t - 1 /\ a = (h + 2) - 1 /\ a \in 0 .. n /\ t - 1 \in 0 .. n
  BY <1>1, <1>2, <1>4
<1> DEFINE g == p[a]
           k == p[t - 1]
<1>10. k = g \o body /\ g \in Seq(Chars) /\ body \in Seq(Chars)
  <2>1. p[a] \in Seq(Chars)
    BY <1>3, <1>7, <1>9, PieceType
  <2> QED BY <1>3, <1>8, <1>9, <2>1 DEF Text
<1>11. Begins(k, Whole(l))
  <2>1. t - 1 \in 0 .. Len(Ended(l, c))
    BY <1>7, <1>9
  <2>2. Begins(p[t - 1], p[Len(Ended(l, c))])
    BY <1>3, <1>7, <2>1, PiecesBegin
  <2> QED BY <1>3, <1>7, <2>2
<1>12. Start(l, h + 2) = Len(g) + 1 /\ Start(l, t) = Len(k) + 1
  BY <1>9, Zenon DEF Start, p
<1>13. /\ Len(g) \in Nat /\ Len(body) \in Nat /\ Len(k) = Len(g) + Len(body)
       /\ \A j \in 1 .. Len(body) : k[Len(g) + j] = body[j]
  <2> HIDE DEF g, k
  <2> QED BY <1>10, Joined
<1>14. Start(l, t) \in 1 .. Len(w) /\ w[Start(l, t)] \in Breaks
  BY <1>4, <1>5, Zenon DEF Placed, Seen
<1> HIDE DEF a, g, k
<1>15. Len(w) \in Nat /\ \A j \in 1 .. Len(w) : w[j] = Whole(l)[j]
  BY <1>6, LenProperties DEF Text, Begins
<1> DEFINE u == Len(g)
           v == Len(body)
           y == Len(k)
<1>16. u \in Nat /\ v \in Nat /\ y = u + v /\ y + 1 \in 1 .. Len(w)
  BY <1>12, <1>13, <1>14
<1>17. \A j \in 1 .. y : Whole(l)[j] = k[j]
  BY <1>11 DEF Begins
<1> HIDE DEF u, v, y
<1>18. ASSUME NEW j \in 1 .. v PROVE w[u + j] = body[j]
  <2>1. u + j \in 1 .. Len(w) /\ u + j \in 1 .. y
    BY <1>15, <1>16
  <2>2. k[u + j] = body[j]
    BY <1>13 DEF u, v
  <2> QED BY <1>15, <1>17, <2>1, <2>2
<1>19. Lies(body, w, u)
  <2>1. u + v <= Len(w)
    BY <1>15, <1>16
  <2> QED BY <1>18, <2>1 DEF Lies, v
<1>20. SubSeq(w, u + 1, u + v) = body
  BY <1>6, <1>10, <1>16, <1>19, LiesSub DEF Text, v
<1>21. findNext(w, u + 1, Breaks) = y + 1
  <2>1. \A j \in 1 .. v : body[j] \notin Breaks
    <3>1. body \in Seq(Chars \ Breaks)
      BY <1>2, UnmarkedWhole DEF body, d
    <3>2. \A j \in 1 .. Len(body) : body[j] \in Chars \ Breaks
      BY <3>1, ElementOfSeq
    <3> QED BY <3>2 DEF v
  <2>2. ASSUME NEW j \in u + 1 .. (y + 1) - 1 PROVE w[j] \notin Breaks
    <3>1. j - u \in 1 .. v /\ u + (j - u) = j
      BY <1>16
    <3>2. w[j] = body[j - u]
      BY <1>18, <3>1
    <3> QED BY <2>1, <3>1, <3>2
  <2>3. w[y + 1] \in Breaks
    BY <1>12, <1>14 DEF y
  <2>4. u + 1 \in Nat /\ y + 1 \in Nat /\ u + 1 <= y + 1 /\ y + 1 <= Len(w) + 1
    BY <1>15, <1>16
  <2> QED BY <1>15, <2>2, <2>3, <2>4, NextAt
<1>22. Start(l, h + 2) = u + 1 /\ Start(l, t) = y + 1 /\ (y + 1) - 1 = u + v
  BY <1>12, <1>16 DEF u, y
<1>23. SubSeq(w, Start(l, h + 2), Start(l, t) - 1) = body /\ findNextBreak(w, Start(l, h + 2)) = Start(l, t)
  BY <1>20, <1>21, <1>22 DEF findNextBreak, Breaks
<1> QED BY <1>23, Zenon DEF Bodied, l, h, t, body, d

-----------------------------------------------------------------------------
(* How many marks that end a code are in what is read                      *)

\* A line begins behind those before it.
LEMMA StartRises ==
  ASSUME NEW l \in Seq(Lines), NEW w, Read(w, l), NEW i \in 1 .. Len(l), NEW j \in 1 .. Len(l), i < j
  PROVE  Start(l, i) < Start(l, j)
<1> DEFINE n == Len(l)
           g == [k \in 1 .. n |-> Start(l, k)]
<1>1. n \in Nat
  BY LenProperties
<1>2. ASSUME NEW k \in 1 .. n PROVE Start(l, k) \in Nat /\ (k < n => Start(l, k) < Start(l, k + 1))
  <2>1. Placed(w, l, k)
    BY <1>2, LinePlaced
  <2> DEFINE s == Start(l, k)
             e == Stop(l, k)
             u == Start(l, k + 1)
  <2>2. s \in 1 .. Len(w) /\ e \in Nat /\ s < e /\ (k < n => u = e + 1)
    BY <2>1, Zenon DEF Placed
  <2> HIDE DEF s, e, u, n
  <2>3. s \in Nat /\ (k < n => s < u)
    BY <2>2
  <2> QED BY <2>3 DEF s, u
<1>3. g \in [1 .. n -> Nat]
  BY <1>2
<1>4. \A k \in 1 .. n : k < n => g[k] < g[k + 1]
  <2> SUFFICES ASSUME NEW k \in 1 .. n, k < n PROVE g[k] < g[k + 1]
    OBVIOUS
  <2>1. k + 1 \in 1 .. n
    BY <1>1
  <2> QED BY <1>2, <2>1
<1>5. g[i] < g[j]
  <2> HIDE DEF g
  <2> QED BY <1>1, <1>3, <1>4, Rises
<1> QED BY <1>5

\* The marks that end the codes of a file are there.
Marked(w) == {j \in DOMAIN w : w[j] \in Breaks}
EndsAt(bl) == [i \in 1 .. Len(bl) |-> Start(AllLines(bl), LastLine(bl, i))]

LEMMA EndsAtMarks ==
  ASSUME NEW bl \in Seq(Blocks), NEW w, Read(w, AllLines(bl))
  PROVE  EndsAt(bl) \in Injection(1 .. Len(bl), Marked(w))
<1> DEFINE l == AllLines(bl)
           n == Len(bl)
           f == EndsAt(bl)
<1>1. l \in Seq(Lines) /\ n \in Nat /\ Len(l) \in Nat
  BY AllLinesType, LenProperties
<1>2. w \in Text /\ Len(w) \in Nat /\ DOMAIN w = 1 .. Len(w)
  BY LenProperties DEF Read, Text
<1>3. ASSUME NEW i \in 1 .. n
      PROVE  /\ LastLine(bl, i) \in 1 .. Len(l) /\ FirstLine(bl, i) <= LastLine(bl, i) /\ FirstLine(bl, i) \in Nat
             /\ l[LastLine(bl, i)][1] \in Breaks /\ FirstLine(bl, i + 1) = LastLine(bl, i) + 1
  <2>1. Rowed(bl, i)
    BY RowPlaced
  <2> DEFINE f1 == FirstLine(bl, i)
             t == LastLine(bl, i)
             m == Len(bl[i].body)
             r == IF bl[i].old THEN "}" ELSE "#"
  <2>2. /\ f1 \in Nat /\ 1 <= f1 /\ t \in Nat /\ t <= Len(l) /\ FirstLine(bl, i + 1) = t + 1
        /\ l[t] = <<r>>
    BY <2>1, Zenon DEF Rowed
  <2>3. m \in Nat
    <3>1. bl[i] \in Blocks
      <4> HIDE DEF Blocks
      <4> QED BY ElementOfSeq
    <3>2. bl[i].body \in Seq(Lines)
      BY <3>1 DEF Blocks
    <3> QED BY <3>2, LenProperties
  <2>4. t = ((f1 + 1) + 2) + m \/ t = ((f1 + 0) + 2) + m
    BY Zenon DEF LastLine, HeadLine
  <2>5. r \in Breaks
    BY DEF Breaks
  <2> HIDE DEF f1, t, m, r, l
  <2>6. f1 <= t
    <3>1. f1 \in Nat
      BY <2>2
    <3> QED BY <2>3, <2>4, <3>1
  <2>7. t \in 1 .. Len(l)
    <3>1. f1 \in Nat /\ 1 <= f1 /\ t \in Nat /\ t <= Len(l)
      BY <2>2
    <3> QED BY <1>1, <2>6, <3>1
  <2>8. l[t][1] \in Breaks
    BY <2>2, <2>5
  <2> QED BY <2>2, <2>6, <2>7, <2>8 DEF f1, t
<1> HIDE DEF n
<1>4. ASSUME NEW i \in 1 .. n PROVE f[i] \in Marked(w) /\ f[i] \in Nat
  <2> DEFINE t == LastLine(bl, i)
  <2>1. f[i] = Start(l, t)
    BY DEF EndsAt, n
  <2>2. t \in 1 .. Len(l) /\ l[t][1] \in Breaks
    BY <1>3
  <2> HIDE DEF f, l, t
  <2>3. Placed(w, l, t) /\ Seen(w, l, t)
    <3>1. Read(w, l)
      BY DEF l
    <3> QED BY <1>1, <2>2, <3>1, LinePlaced, LineSeen
  <2>4. Start(l, t) \in 1 .. Len(w) /\ w[Start(l, t)] = l[t][1]
    BY <2>3, Zenon DEF Placed, Seen
  <2> QED BY <1>2, <2>1, <2>2, <2>4 DEF Marked
<1>5. ASSUME NEW i \in 1 .. n, i < n PROVE f[i] < f[i + 1]
  <2> DEFINE t == LastLine(bl, i)
             u == LastLine(bl, i + 1)
  <2>1. i + 1 \in 1 .. n
    BY <1>1, <1>5
  <2>2. f[i] = Start(l, t) /\ f[i + 1] = Start(l, u)
    BY <2>1 DEF EndsAt, n
  <2>3. t \in 1 .. Len(l) /\ FirstLine(bl, i + 1) = t + 1
    BY <1>3
  <2>4. u \in 1 .. Len(l) /\ FirstLine(bl, i + 1) <= u
    BY <1>3, <2>1
  <2> HIDE DEF t, u, f
  <2>5. t < u
    BY <1>1, <2>3, <2>4
  <2>6. Start(l, t) < Start(l, u)
    <3> HIDE DEF l
    <3>1. Read(w, l)
      BY DEF l
    <3> QED BY <1>1, <2>3, <2>4, <2>5, <3>1, StartRises
  <2> QED BY <2>2, <2>6
<1>6. DOMAIN f = 1 .. n /\ f = [i \in 1 .. n |-> f[i]]
  BY DEF EndsAt, n
<1> HIDE DEF f
<1>7. f \in [1 .. n -> Nat] /\ f \in [1 .. n -> Marked(w)]
  BY <1>4, <1>6
<1>8. ASSUME NEW i \in 1 .. n, NEW j \in 1 .. n, f[i] = f[j] PROVE i = j
  <2>1. \A k \in 1 .. n : k < n => f[k] < f[k + 1]
    BY <1>5
  <2>2. f[i] \in Nat /\ f[j] \in Nat
    BY <1>4
  <2>3. ~(i < j)
    <3> SUFFICES ASSUME i < j PROVE FALSE
      OBVIOUS
    <3>1. f[i] < f[j]
      BY <1>1, <1>7, <2>1, Rises
    <3> QED BY <1>8, <2>2, <3>1
  <2>4. ~(j < i)
    <3> SUFFICES ASSUME j < i PROVE FALSE
      OBVIOUS
    <3>1. f[j] < f[i]
      BY <1>1, <1>7, <2>1, Rises
    <3> QED BY <1>8, <2>2, <3>1
  <2> QED BY <2>3, <2>4
<1> QED BY <1>7, <1>8 DEF Injection, IsInjective, f, n

\* A line of a file is one of a code.
LEMMA LineOfCode ==
  ASSUME NEW bl \in Seq(Blocks), NEW k \in 1 .. Len(AllLines(bl))
  PROVE  \E i \in 1 .. Len(bl) : k \in FirstLine(bl, i) .. LastLine(bl, i)
<1> DEFINE q == Rows(bl)
           s == AllWritten(bl)
<1>1. Pieces(q, s, Lines) /\ AllLines(bl) = q[Len(s)]
  BY RowsIs
<1>2. s \in Seq(Seq(Lines)) /\ Len(s) = Len(bl)
  BY AllWrittenType
<1> HIDE DEF q, s, Lines, Blocks
<1>3. PICK i \in 1 .. Len(s) : \E j \in 1 .. Len(s[i]) : k = Len(q[i - 1]) + j
  <2>1. k \in 1 .. Len(q[Len(s)])
    BY <1>1
  <2>2. PlaceOf(q, s, k)
    BY <1>1, <1>2, <2>1, PieceOf
  <2> QED BY <2>2, Zenon DEF PlaceOf
<1>4. PICK j \in 1 .. Len(s[i]) : k = Len(q[i - 1]) + j
  BY <1>3
<1>5. Len(q[i - 1]) \in Nat /\ Len(s[i]) \in Nat /\ Len(q[i]) = Len(q[i - 1]) + Len(s[i])
  BY <1>1, <1>2, PieceLen
<1>6. i \in 1 .. Len(bl)
  BY <1>2
<1>7. FirstLine(bl, i + 1) = LastLine(bl, i) + 1 /\ LastLine(bl, i) \in Nat
  BY <1>6, RowPlaced, Zenon DEF Rowed
<1>8. FirstLine(bl, i) = Len(q[i - 1]) + 1 /\ FirstLine(bl, i + 1) = Len(q[i]) + 1
  <2>1. (i + 1) - 1 = i
    OBVIOUS
  <2> QED BY <2>1, Zenon DEF FirstLine, q
<1> DEFINE a == Len(q[i - 1])
           b == Len(q[i])
           m == Len(s[i])
           t == LastLine(bl, i)
           f == FirstLine(bl, i)
<1>9. a \in Nat /\ m \in Nat /\ b = a + m /\ j \in 1 .. m /\ k = a + j /\ f = a + 1 /\ b + 1 = t + 1 /\ t \in Nat
  BY <1>4, <1>5, <1>7, <1>8
<1> HIDE DEF a, b, m, t, f
<1>10. k \in f .. t
  BY <1>9
<1> QED BY <1>6, <1>10 DEF f, t

\* Only the last line of a code is such a mark, if neither its name nor its body has one.
CleanCode(b) == ToSet(b.name) \cap Marks = {} /\ Unmarked(b.body)

LEMMA BreakIsLast ==
  ASSUME NEW bl \in Seq(Blocks), NEW i \in 1 .. Len(bl), CleanCode(bl[i]),
         NEW k \in FirstLine(bl, i) .. LastLine(bl, i),
         NEW j \in 1 .. Len(AllLines(bl)[k]), AllLines(bl)[k][j] \in Breaks
  PROVE  k = LastLine(bl, i) /\ j = 1
<1> DEFINE l == AllLines(bl)
           b == bl[i]
           d == b.body
           f == FirstLine(bl, i)
           h == HeadLine(bl, i)
           t == LastLine(bl, i)
           m == Len(d)
           r == IF b.old THEN "}" ELSE "#"
<1>1. /\ f \in Nat /\ 1 <= f /\ t \in Nat /\ t <= Len(l)
      /\ b.old => l[f] = <<"{">>
      /\ l[h] = (IF b.old THEN <<b.mark>> ELSE b.name)
      /\ l[h + 1] = (IF b.old THEN b.name ELSE <<b.mark>>)
      /\ Lies(d, l, h + 1) /\ l[t] = <<r>>
  BY RowPlaced, Zenon DEF Rowed
<1> DEFINE n == Len(l)
<1>0. f \in Nat /\ 1 <= f /\ t \in Nat /\ t <= n
  BY <1>1, Zenon
<1>2. b.name \in Lines /\ b.mark \in Chars \ Marks /\ d \in Seq(Lines)
  <2>1. b \in Blocks
    <3> HIDE DEF Blocks
    <3> QED BY ElementOfSeq
  <2> QED BY <2>1 DEF Blocks
<1>3. h = (IF b.old THEN f + 1 ELSE f) /\ t = (h + 2) + m
  <2>1. h = f + (IF b.old THEN 1 ELSE 0)
    BY Zenon DEF HeadLine
  <2>2. h = (IF b.old THEN f + 1 ELSE f + 0)
    BY <2>1, Zenon
  <2>3. t = (h + 2) + m
    BY Zenon DEF LastLine
  <2> HIDE DEF f, h, t, m, b
  <2>4. f + 0 = f
    BY <1>0
  <2> QED BY <2>2, <2>3, <2>4
<1>4. m \in Nat
  BY <1>2, LenProperties
<1>5. ToSet(b.name) \cap Marks = {} /\ \A y \in ToSet(d) : ToSet(y) \cap Marks = {}
  BY Zenon DEF CleanCode, Unmarked
<1> HIDE DEF l, b, d, f, h, t, m, r, n
\* A line without marks has none.
<1>6. ASSUME NEW y \in Lines, ToSet(y) \cap Marks = {}, NEW z \in 1 .. Len(y) PROVE y[z] \notin Breaks
  <2>1. y \in Seq(Chars)
    BY LineIsText DEF Text
  <2>2. DOMAIN y = 1 .. Len(y)
    BY <2>1, LenProperties
  <2>3. y[z] \in ToSet(y)
    BY <2>2 DEF ToSet
  <2> QED BY <1>6, <2>3 DEF Breaks, Marks
<1>7. ASSUME NEW c \in Chars, c \notin Breaks, l[k] = <<c>> PROVE FALSE
  <2>1. l[k][j] \in Breaks /\ j \in 1 .. Len(l[k])
    BY DEF l
  <2>2. j = 1
    BY <1>7, <2>1
  <2> QED BY <1>7, <2>1, <2>2
<1>8. ASSUME NEW y \in Lines, ToSet(y) \cap Marks = {}, l[k] = y PROVE FALSE
  <2>1. l[k][j] \in Breaks /\ j \in 1 .. Len(l[k])
    BY DEF l
  <2> QED BY <1>6, <1>8, <2>1
<1>9. k # h /\ k # h + 1
  <2>1. ASSUME l[k] = <<b.mark>> PROVE FALSE
    BY <1>2, <1>7, <2>1 DEF Breaks, Marks
  <2>2. ASSUME l[k] = b.name PROVE FALSE
    BY <1>2, <1>5, <1>8, <2>2
  <2> QED BY <1>1, <2>1, <2>2
<1>10. ~(b.old /\ k = f)
  <2>1. "{" \in Chars /\ "{" \notin Breaks
    BY DEF Chars, Breaks
  <2> QED BY <1>1, <1>7, <2>1
<1>11. k \in f .. t
  BY DEF f, t
<1>12. k < h + 2 => FALSE
  <2>1. k \in Nat /\ f <= k /\ f \in Nat /\ h \in {f, f + 1} /\ (h = f + 1 => k # f)
    BY <1>0, <1>3, <1>10, <1>11
  <2> QED BY <1>9, <2>1
<1>13. k = t
  <2> SUFFICES ASSUME k # t PROVE FALSE
    OBVIOUS
  <2>1. h \in Nat /\ f \in Nat
    BY <1>0, <1>3
  <2>2. k - (h + 1) \in 1 .. m /\ (h + 1) + (k - (h + 1)) = k
    BY <1>0, <1>3, <1>4, <1>11, <1>12, <2>1
  <2> DEFINE z == k - (h + 1)
  <2>3. l[k] = d[z]
    BY <1>1, <2>2 DEF Lies, m
  <2> HIDE DEF z
  <2>4. z \in 1 .. Len(d)
    BY <2>2 DEF z, m
  <2>5. d[z] \in Lines /\ d[z] \in ToSet(d)
    <3>1. DOMAIN d = 1 .. Len(d)
      BY <1>2, LenProperties
    <3> HIDE DEF Lines
    <3> QED BY <1>2, <2>4, <3>1, ElementOfSeq DEF ToSet
  <2> QED BY <1>5, <1>8, <2>3, <2>5
<1>14. j = 1
  <2>1. l[k] = <<r>> /\ j \in 1 .. Len(l[k])
    BY <1>1, <1>13 DEF l
  <2> QED BY <2>1
<1> QED BY <1>13, <1>14 DEF t

\* Where such a mark is in what is read of a clean file.
LEMMA MarkIsEnd ==
  ASSUME NEW bl \in Seq(Blocks), NEW w, Read(w, AllLines(bl)),
         \A i \in 1 .. Len(bl) : CleanCode(bl[i]), NEW j \in Marked(w)
  PROVE  \E i \in 1 .. Len(bl) : EndsAt(bl)[i] = j
<1> DEFINE l == AllLines(bl)
           c == <<"\n">>
           s == Ended(l, c)
           p == Upto(l)
<1>1. l \in Seq(Lines) /\ l \in Seq(Text) /\ Len(l) \in Nat
  BY AllLinesType, LenProperties
<1>2. w \in Text /\ Len(w) \in Nat /\ DOMAIN w = 1 .. Len(w) /\ Begins(w, Whole(l))
  BY LenProperties DEF Read, Text
<1>3. j \in 1 .. Len(w) /\ w[j] \in Breaks
  BY <1>2 DEF Marked
<1>4. Pieces(p, s, Chars) /\ Whole(l) = p[Len(l)] /\ c \in Text /\ Whole(l) \in Text
  BY <1>1, UptoIs
<1>5. s \in Seq(Seq(Chars)) /\ Len(s) = Len(l) /\ \A k \in 1 .. Len(l) : s[k] = l[k] \o c
  BY <1>1, <1>4, EndedType DEF Text
<1>6. j \in 1 .. Len(p[Len(s)])
  <2>1. j \in 1 .. Len(Whole(l))
    <3>1. Len(w) <= Len(Whole(l)) /\ Len(Whole(l)) \in Nat
      BY <1>2, <1>4, LenProperties DEF Begins, Text
    <3> HIDE DEF l
    <3> QED BY <1>3, <3>1
  <2> QED BY <1>4, <1>5, <2>1
<1>7. Len(c) = 1
  OBVIOUS
<1> HIDE DEF s, c, p, l
<1>8. PlaceOf(p, s, j)
  BY <1>4, <1>5, <1>6, PieceOf
<1>9. PICK k \in 1 .. Len(s) : \E g \in 1 .. Len(s[k]) : j = Len(p[k - 1]) + g
  BY <1>8, Zenon DEF PlaceOf
<1>10. PICK g \in 1 .. Len(s[k]) : j = Len(p[k - 1]) + g
  BY <1>9
<1>11. k \in 1 .. Len(l) /\ s[k] = l[k] \o c
  BY <1>5
<1> DEFINE a == Len(p[k - 1])
           t == l[k]
           m == Len(t)
<1>12. m \in Nat /\ Len(s[k]) = m + 1
  <2>1. t \in Seq(Chars) /\ c \in Seq(Chars)
    <3> HIDE DEF Text
    <3>1. t \in Text
      BY <1>1, <1>11, ElementOfSeq
    <3> QED BY <1>4, <3>1 DEF Text
  <2> HIDE DEF t
  <2>2. Len(t) \in Nat /\ Len(t \o c) = Len(t) + Len(c)
    BY <2>1, Joined
  <2> QED BY <1>7, <1>11, <2>2 DEF t
<1>13. Placed(w, l, k)
  <2>1. Read(w, l)
    BY DEF l
  <2> QED BY <1>1, <1>11, <2>1, LinePlaced
<1>14. Start(l, k) = a + 1 /\ Stop(l, k) = (a + 1) + m
  BY Zenon DEF Start, Stop, p
<1>15. Start(l, k) \in 1 .. Len(w) /\ Lies(t, w, Start(l, k) - 1) /\ (Stop(l, k) <= Len(w) => w[Stop(l, k)] = "\n")
  BY <1>13, Zenon DEF Placed
<1> HIDE DEF a, t
<1>16. a \in Nat /\ j = a + g /\ g \in 1 .. m + 1
  <2>1. a \in Nat
    <3>1. k - 1 \in 0 .. Len(s)
      OBVIOUS
    <3> QED BY <1>4, <1>5, <3>1, PieceType DEF a
  <2> QED BY <1>10, <1>12, <2>1 DEF a
<1>17. g \in 1 .. m
  <2> SUFFICES ASSUME g = m + 1 PROVE FALSE
    <3> HIDE DEF m
    <3> QED BY <1>12, <1>16
  <2>1. j = Stop(l, k)
    <3> HIDE DEF m
    <3> QED BY <1>12, <1>14, <1>16
  <2>2. w[j] = "\n"
    <3>1. j <= Len(w)
      BY <1>2, <1>3
    <3> QED BY <1>15, <2>1, <3>1
  <2> QED BY <1>3, <2>2 DEF Breaks
<1>18. w[j] = t[g]
  <2>1. Start(l, k) - 1 = a
    BY <1>14, <1>16
  <2>2. Lies(t, w, a)
    BY <1>15, <2>1
  <2>3. w[a + g] = t[g]
    BY <1>17, <2>2 DEF Lies
  <2> QED BY <1>16, <2>3
<1>19. PICK i \in 1 .. Len(bl) : k \in FirstLine(bl, i) .. LastLine(bl, i)
  BY <1>11, LineOfCode DEF l
<1>20. k = LastLine(bl, i) /\ g = 1
  <2>1. AllLines(bl)[k][g] \in Breaks /\ g \in 1 .. Len(AllLines(bl)[k])
    BY <1>3, <1>17, <1>18 DEF t, l
  <2> HIDE DEF m, CleanCode, Blocks
  <2> QED BY <1>19, <2>1, BreakIsLast
<1>21. EndsAt(bl)[i] = Start(l, k)
  BY <1>20 DEF EndsAt, l
<1> QED BY <1>14, <1>16, <1>20, <1>21

\* So there are as many as codes, or more.
LEMMA BreaksAre ==
  ASSUME NEW bl \in Seq(Blocks), NEW w, Read(w, AllLines(bl))
  PROVE  /\ Len(bl) \in Nat /\ Len(bl) <= CountOf(w, Breaks)
         /\ (\A i \in 1 .. Len(bl) : CleanCode(bl[i])) => CountOf(w, Breaks) = Len(bl)
<1> DEFINE n == Len(bl)
           f == EndsAt(bl)
           T == Marked(w)
<1>1. n \in Nat
  BY LenProperties
<1>2. f \in Injection(1 .. n, T)
  BY EndsAtMarks
<1>3. IsFiniteSet(T)
  <2>1. Len(w) \in Nat /\ DOMAIN w = 1 .. Len(w)
    BY LenProperties DEF Read, Text
  <2>2. IsFiniteSet(1 .. Len(w)) /\ T \subseteq 1 .. Len(w)
    BY <2>1, FS_Interval DEF Marked
  <2> QED BY <2>2, FS_Subset
<1>4. CountOf(w, Breaks) = Cardinality(T)
  BY Zenon DEF CountOf, Marked
<1>5. ASSUME \A i \in 1 .. Len(bl) : CleanCode(bl[i]) PROVE f \in Surjection(1 .. n, T)
  <2>1. \A j \in T : \E i \in 1 .. n : f[i] = j
    <3> HIDE DEF CleanCode, Blocks
    <3> QED BY <1>5, MarkIsEnd
  <2> HIDE DEF f, n, T
  <2> QED BY <1>2, <2>1 DEF Injection, Surjection
<1> HIDE DEF f, n, T
<1>6. Cardinality(1 .. n) = n
  <2>1. Cardinality(1 .. n) = IF 1 > n THEN 0 ELSE n - 1 + 1
    BY <1>1, FS_Interval
  <2> QED BY <1>1, <2>1
<1>7. Cardinality(1 .. n) <= Cardinality(T) /\ (Cardinality(1 .. n) = Cardinality(T) <=> f \in Surjection(1 .. n, T))
  BY <1>2, <1>3, FS_Injection
<1>8. n \in Nat /\ n <= CountOf(w, Breaks)
  BY <1>1, <1>4, <1>6, <1>7
<1>9. (\A i \in 1 .. Len(bl) : CleanCode(bl[i])) => CountOf(w, Breaks) = n
  BY <1>4, <1>5, <1>6, <1>7
<1> QED BY <1>8, <1>9 DEF n

-----------------------------------------------------------------------------
(* The reader goes through the codes line by line                          *)

\* A code of which n of three parts are read: the two lines of its head, and its body.
Made(u, v, r) == [name |-> u, cwrite |-> v, codes |-> r]
AsRead(b, n) ==
  IF n = 0 THEN Made(Null, FALSE, <<>>)
  ELSE IF n = 1 /\ b.old THEN Made(Null, b.mark = "1", <<>>)
  ELSE IF n = 1 THEN Made(b.name, FALSE, <<>>)
  ELSE Made(b.name, b.mark = "1", IF n = 2 THEN <<>> ELSE Whole(b.body))

LEMMA PartsRead ==
  ASSUME NEW b \in Blocks
  PROVE  /\ AsRead(b, 0) = Unread
         /\ LET k == IF b.old THEN 1 ELSE 0
            IN  Made(b.name, AsRead(b, k).cwrite, AsRead(b, k).codes) = AsRead(b, k + 1)
         /\ LET k == IF b.old THEN 0 ELSE 1
            IN  Made(AsRead(b, k).name, b.mark = "1", AsRead(b, k).codes) = AsRead(b, k + 1)
         /\ Made(AsRead(b, 2).name, AsRead(b, 2).cwrite, Whole(b.body)) = AsRead(b, 3)
         /\ b.body = <<>> => AsRead(b, 2) = AsRead(b, 3)
<1>1. Whole(<<>>) = <<>>
  <2>1. <<>> \in Seq(Text) /\ Len(<<>>) = 0
    OBVIOUS
  <2>2. Pieces(Upto(<<>>), Ended(<<>>, <<"\n">>), Chars) /\ Whole(<<>>) = Upto(<<>>)[0]
    BY <2>1, UptoIs
  <2> QED BY <2>2, Zenon DEF Pieces
<1>2. b.old \in BOOLEAN
  BY DEF Blocks
<1>4. Unread = Made(Null, FALSE, <<>>)
  BY DEF Unread, Made
<1>5. 1 # 0 /\ 2 # 0 /\ 2 # 1 /\ 3 # 0 /\ 3 # 1 /\ 3 # 2 /\ 0 + 1 = 1 /\ 1 + 1 = 2
  OBVIOUS
<1> DEFINE w == Whole(b.body)
<1>6. PICK y : y = (b.mark = "1")
  OBVIOUS
<1>7. /\ AsRead(b, 0) = Made(Null, FALSE, <<>>)
      /\ b.old => AsRead(b, 1) = Made(Null, y, <<>>)
      /\ ~b.old => AsRead(b, 1) = Made(b.name, FALSE, <<>>)
      /\ AsRead(b, 2) = Made(b.name, y, <<>>)
      /\ AsRead(b, 3) = Made(b.name, y, w)
  BY <1>5, <1>6, Zenon DEF AsRead
<1>8. b.body = <<>> => w = <<>>
  BY <1>1, Zenon
<1>9. /\ b.old => (IF b.old THEN 1 ELSE 0) = 1 /\ (IF b.old THEN 0 ELSE 1) = 0
      /\ ~b.old => (IF b.old THEN 1 ELSE 0) = 0 /\ (IF b.old THEN 0 ELSE 1) = 1
  OBVIOUS
<1> HIDE DEF w
<1>10. CASE b.old
  <2>1. /\ AsRead(b, 0) = Made(Null, FALSE, <<>>) /\ AsRead(b, 1) = Made(Null, y, <<>>)
        /\ AsRead(b, 2) = Made(b.name, y, <<>>) /\ AsRead(b, 3) = Made(b.name, y, w)
    BY <1>7, <1>10, Zenon
  <2>2. /\ Made(b.name, AsRead(b, 1).cwrite, AsRead(b, 1).codes) = AsRead(b, 2)
        /\ Made(AsRead(b, 0).name, y, AsRead(b, 0).codes) = AsRead(b, 1)
        /\ Made(AsRead(b, 2).name, AsRead(b, 2).cwrite, w) = AsRead(b, 3)
    <3>1. AsRead(b, 1).cwrite = y /\ AsRead(b, 1).codes = <<>>
      BY <2>1 DEF Made
    <3>2. AsRead(b, 0).name = Null /\ AsRead(b, 0).codes = <<>>
      BY <2>1 DEF Made
    <3>3. AsRead(b, 2).name = b.name /\ AsRead(b, 2).cwrite = y
      BY <2>1 DEF Made
    <3> QED BY <2>1, <3>1, <3>2, <3>3, Zenon
  <2> QED BY <1>4, <1>5, <1>6, <1>7, <1>8, <1>9, <1>10, <2>2, Zenon DEF w
<1>11. CASE ~b.old
  <2>1. /\ AsRead(b, 0) = Made(Null, FALSE, <<>>) /\ AsRead(b, 1) = Made(b.name, FALSE, <<>>)
        /\ AsRead(b, 2) = Made(b.name, y, <<>>) /\ AsRead(b, 3) = Made(b.name, y, w)
    BY <1>7, <1>11, Zenon
  <2>2. /\ Made(b.name, AsRead(b, 0).cwrite, AsRead(b, 0).codes) = AsRead(b, 1)
        /\ Made(AsRead(b, 1).name, y, AsRead(b, 1).codes) = AsRead(b, 2)
        /\ Made(AsRead(b, 2).name, AsRead(b, 2).cwrite, w) = AsRead(b, 3)
    <3>1. AsRead(b, 0).cwrite = FALSE /\ AsRead(b, 0).codes = <<>>
      BY <2>1 DEF Made
    <3>2. AsRead(b, 1).name = b.name /\ AsRead(b, 1).codes = <<>>
      BY <2>1 DEF Made
    <3>3. AsRead(b, 2).name = b.name /\ AsRead(b, 2).cwrite = y
      BY <2>1 DEF Made
    <3> QED BY <2>1, <3>1, <3>2, <3>3, Zenon
  <2> QED BY <1>4, <1>5, <1>6, <1>7, <1>8, <1>9, <1>11, <2>2, Zenon DEF w
<1> QED BY <1>10, <1>11

\* The character the reader is at decides what it does.
ReadStep == EndCode \/ OpenCode \/ NextLine \/ ReadName \/ ReadMark \/ PassOver \/ ReadCodes
CodeStep == ReadName \/ ReadMark \/ PassOver \/ ReadCodes

LEMMA ByChar ==
  ASSUME ReadStep
  PROVE  /\ buffer[x] = "{" => OpenCode
         /\ buffer[x] = "\n" => NextLine
         /\ buffer[x] \in Breaks => EndCode
         /\ buffer[x] \notin Marks \cup {"\n"} => CodeStep
         /\ pc = "read" /\ cur_count < code_count /\ x <= Len(buffer)
         /\ UNCHANGED <<file, entry, buffer, code_count, sel, art, pc>>
<1> DEFINE c == buffer[x]
<1>1. ASSUME NEW chars, Reading(chars)
      PROVE  /\ c \in chars /\ pc = "read" /\ cur_count < code_count /\ x <= Len(buffer)
             /\ UNCHANGED <<file, entry, buffer, code_count, sel, art, pc>>
  BY <1>1, Zenon DEF Reading
<1>2. ASSUME NEW line, InCode(line) PROVE Reading(Chars \ {"#", "}", "{", "\n"})
  BY <1>2, Zenon DEF InCode
<1>3. CodeStep => Reading(Chars \ {"#", "}", "{", "\n"})
  BY <1>2 DEF CodeStep, ReadName, ReadMark, PassOver, ReadCodes
<1>4. EndCode => Reading({"#", "}"})
  BY DEF EndCode
<1>5. OpenCode => Reading({"{"})
  BY DEF OpenCode
<1>6. NextLine => Reading({"\n"})
  BY DEF NextLine
<1>7. EndCode \/ OpenCode \/ NextLine \/ CodeStep
  BY DEF ReadStep, CodeStep
<1>8. /\ pc = "read" /\ cur_count < code_count /\ x <= Len(buffer)
      /\ UNCHANGED <<file, entry, buffer, code_count, sel, art, pc>>
  BY <1>1, <1>3, <1>4, <1>5, <1>6, <1>7, Zenon
<1>9. /\ EndCode => c \in {"#", "}"}
      /\ OpenCode => c \in {"{"}
      /\ NextLine => c \in {"\n"}
      /\ CodeStep => c \in Chars \ {"#", "}", "{", "\n"}
  BY <1>1, <1>3, <1>4, <1>5, <1>6, Zenon
<1> HIDE DEF c
<1>10. /\ c = "{" => OpenCode
       /\ c = "\n" => NextLine
       /\ c \in Breaks => EndCode
       /\ c \notin Marks \cup {"\n"} => CodeStep
  BY <1>7, <1>9 DEF Breaks, Marks
<1> QED BY <1>8, <1>10 DEF c

\* The places it is at: before the opening brace of a code of the older form and behind
\* it, at the beginning of a line of the head and at its end, at the body, and at the
\* mark that ends the code.
OldBefore(bl, i) == i > 1 /\ bl[i - 1].old
OldForm(bl, i) == bl[i].old \/ OldBefore(bl, i)
Formed(bl, i) == bl[i].old \/ ~OldBefore(bl, i)

CodeBegin(bl, i) == Start(AllLines(bl), FirstLine(bl, i))
HeadBegin(bl, i, k) == Start(AllLines(bl), HeadLine(bl, i) + k)
HeadEnd(bl, i, k) == Stop(AllLines(bl), HeadLine(bl, i) + k)
CodeEnd(bl, i) == Start(AllLines(bl), LastLine(bl, i))

AtBrace(bl, i, line, pos, old) ==
  bl[i].old /\ line = 0 /\ pos = CodeBegin(bl, i) /\ old = OldBefore(bl, i)
PastBrace(bl, i, line, pos, old) ==
  bl[i].old /\ line = -1 /\ pos = CodeBegin(bl, i) + 1 /\ old = TRUE
LineBegun(bl, i, k, line, pos, old) ==
  line = k /\ pos = HeadBegin(bl, i, k) /\ old = OldForm(bl, i)
LineDone(bl, i, k, line, pos, old) ==
  line = k /\ pos = HeadEnd(bl, i, k) /\ old = OldForm(bl, i)
InBody(bl, i, line, pos, old) ==
  line = 2 /\ pos = HeadBegin(bl, i, 2) /\ old = OldForm(bl, i)
AtEnd(bl, i, line, pos, old) ==
  line = 2 /\ pos = CodeEnd(bl, i) /\ old = OldForm(bl, i)

\* What is known of the lines of a code, and where they are.
LEMMA CodeLines ==
  ASSUME NEW bl \in Seq(Blocks), NEW w, Read(w, AllLines(bl)), NEW i \in 1 .. Len(bl)
  PROVE  LET l == AllLines(bl)
             f == FirstLine(bl, i)
             h == HeadLine(bl, i)
             t == LastLine(bl, i)
         IN  /\ bl[i].old => h = f + 1
             /\ ~bl[i].old => h = f
             /\ f \in 1 .. Len(l) /\ f <= h /\ h \in 1 .. Len(l) /\ h + 1 \in 1 .. Len(l) /\ h + 2 \in 1 .. Len(l) /\ t \in 1 .. Len(l)
             /\ h + 2 <= t /\ (t = h + 2 <=> bl[i].body = <<>>)
             /\ \A k \in 1 .. Len(l) : Placed(w, l, k) /\ Seen(w, l, k)
<1> DEFINE l == AllLines(bl)
           f == FirstLine(bl, i)
           h == HeadLine(bl, i)
           t == LastLine(bl, i)
           d == bl[i].body
           m == Len(d)
           n == Len(l)
<1>1. l \in Seq(Lines) /\ n \in Nat
  BY AllLinesType, LenProperties
<1>2. \A k \in 1 .. Len(l) : Placed(w, l, k) /\ Seen(w, l, k)
  <2> HIDE DEF l
  <2>1. Read(w, l)
    BY DEF l
  <2> QED BY <1>1, <2>1, LinePlaced, LineSeen
<1>3. f \in Nat /\ 1 <= f /\ t \in Nat /\ t <= n
  BY RowPlaced, Zenon DEF Rowed
<1>4. m \in Nat /\ (m = 0 <=> d = <<>>)
  <2>1. bl[i] \in Blocks
    <3> HIDE DEF Blocks
    <3> QED BY ElementOfSeq
  <2>2. d \in Seq(Lines)
    BY <2>1 DEF Blocks
  <2> QED BY <2>2, LenProperties, EmptySeq
<1>5. (bl[i].old => h = f + 1) /\ (~bl[i].old => h = f + 0)
  BY Zenon DEF HeadLine
<1>6. t = (h + 2) + m
  BY Zenon DEF LastLine
<1> HIDE DEF l, f, h, t, d, m, n
<1>7. h = f + 1 \/ h = f + 0
  BY <1>5
<1>8. /\ f \in 1 .. n /\ f <= h /\ h \in 1 .. n /\ h + 1 \in 1 .. n /\ h + 2 \in 1 .. n /\ t \in 1 .. n
      /\ h + 2 <= t /\ (t = h + 2 <=> m = 0) /\ f + 0 = f
  BY <1>1, <1>3, <1>4, <1>6, <1>7
<1> QED BY <1>2, <1>4, <1>5, <1>8, Zenon DEF l, f, h, t, d, n

\* What the reader meets at these places.
AtBegin(w, bl, i) ==
  IF bl[i].old
  THEN /\ w[CodeBegin(bl, i)] = "{" /\ w[CodeBegin(bl, i) + 1] = "\n"
       /\ CodeBegin(bl, i) + 1 \in 1 .. Len(w) /\ HeadBegin(bl, i, 0) = CodeBegin(bl, i) + 2
  ELSE HeadBegin(bl, i, 0) = CodeBegin(bl, i)
InHead(w, bl, i, k) ==
  /\ w[HeadBegin(bl, i, k)] \notin Marks \cup {"\n"}
  /\ findNextLine(w, HeadBegin(bl, i, k)) = HeadEnd(bl, i, k)
  /\ SubSeq(w, HeadBegin(bl, i, k), HeadEnd(bl, i, k) - 1) = AllLines(bl)[HeadLine(bl, i) + k]
  /\ w[HeadBegin(bl, i, k)] = AllLines(bl)[HeadLine(bl, i) + k][1]
  /\ w[HeadEnd(bl, i, k)] = "\n" /\ HeadBegin(bl, i, k) \in 1 .. Len(w) /\ HeadEnd(bl, i, k) \in 1 .. Len(w)
  /\ HeadBegin(bl, i, k + 1) = HeadEnd(bl, i, k) + 1
AtBody(w, bl, i) ==
  /\ HeadBegin(bl, i, 2) \in 1 .. Len(w)
  /\ IF bl[i].body = <<>> THEN HeadBegin(bl, i, 2) = CodeEnd(bl, i)
     ELSE w[HeadBegin(bl, i, 2)] \notin Marks \cup {"\n"} /\ Bodied(w, bl, i)
AtLast(w, bl, i) ==
  /\ CodeEnd(bl, i) \in 1 .. Len(w)
  /\ w[CodeEnd(bl, i)] = IF bl[i].old THEN "}" ELSE "#"
  /\ IF i < Len(bl) THEN CodeBegin(bl, i + 1) = findNextLine(w, CodeEnd(bl, i)) + 1
     ELSE Len(w) < findNextLine(w, CodeEnd(bl, i)) + 1
ReadableCode(b) == b.name[1] \notin Marks /\ Unmarked(b.body)

LEMMA BeginMet ==
  ASSUME NEW bl \in Seq(Blocks), NEW w, Read(w, AllLines(bl)), NEW i \in 1 .. Len(bl)
  PROVE  AtBegin(w, bl, i)
<1> DEFINE l == AllLines(bl)
           f == FirstLine(bl, i)
           h == HeadLine(bl, i)
           c == bl[i].old
           n == Len(l)
           s == Start(l, f)
           e == Stop(l, f)
<1>1. /\ c => h = f + 1
      /\ ~c => h = f
      /\ f \in 1 .. n /\ h \in 1 .. n
      /\ Placed(w, l, f) /\ Seen(w, l, f)
  BY CodeLines
<1>2. n \in Nat
  BY AllLinesType, LenProperties
<1>3. c => l[f] = <<"{">>
  BY RowPlaced, Zenon DEF Rowed
<1>4. /\ s \in 1 .. Len(w) /\ e \in Nat /\ (e <= Len(w) => w[e] = "\n")
      /\ (f < n => e <= Len(w) /\ Start(l, f + 1) = e + 1)
      /\ w[s] = l[f][1] /\ e = s + Len(l[f])
  BY <1>1, Zenon DEF Placed, Seen, Stop
<1>5. CASE c
  <2>1. l[f][1] = "{" /\ Len(l[f]) = 1
    <3>1. <<"{">>[1] = "{" /\ Len(<<"{">>) = 1
      OBVIOUS
    <3> QED BY <1>3, <1>5, <3>1, Zenon
  <2>2. h = f + 1
    BY <1>1, <1>5, Zenon
  <2>3. Start(l, h + 0) = e + 1 /\ e <= Len(w)
    <3> HIDE DEF l, f, h, n, c, s, e
    <3>1. h + 0 = f + 1 /\ f < n
      BY <1>1, <1>2, <2>2
    <3> QED BY <1>4, <3>1
  <2>4. w[s] = "{" /\ w[s + 1] = "\n" /\ s + 1 \in 1 .. Len(w) /\ Start(l, h + 0) = s + 2
    <3>1. e = s + 1
      BY <1>4, <2>1, Zenon
    <3> HIDE DEF l, f, h, n, c, s, e
    <3>2. e + 1 = s + 2 /\ e \in 1 .. Len(w)
      <4>1. s \in 1 .. Len(w) /\ e <= Len(w) /\ e \in Nat
        BY <1>4, <2>3, Zenon
      <4> QED BY <3>1, <4>1
    <3> QED BY <1>4, <2>1, <2>3, <3>1, <3>2, Zenon
  <2> QED BY <1>5, <2>4, Zenon DEF AtBegin, CodeBegin, HeadBegin
<1>6. CASE ~c
  <2>1. h + 0 = f
    <3> HIDE DEF l, f, h, n, c
    <3> QED BY <1>1, <1>2, <1>6
  <2> QED BY <1>6, <2>1, Zenon DEF AtBegin, CodeBegin, HeadBegin
<1> QED BY <1>5, <1>6, Zenon

LEMMA HeadMet ==
  ASSUME NEW bl \in Seq(Blocks), NEW w, Read(w, AllLines(bl)), NEW i \in 1 .. Len(bl),
         ReadableCode(bl[i]), NEW k \in {0, 1}
  PROVE  InHead(w, bl, i, k)
<1> DEFINE l == AllLines(bl)
           h == HeadLine(bl, i)
           t == LastLine(bl, i)
           n == Len(l)
           g == h + k
           s == Start(l, g)
           e == Stop(l, g)
<1>1. /\ h \in 1 .. n /\ t \in 1 .. n /\ h + 2 <= t
      /\ \A j \in 1 .. n : Placed(w, l, j) /\ Seen(w, l, j)
  BY CodeLines, Zenon
<1>2. n \in Nat /\ l \in Seq(Lines)
  BY AllLinesType, LenProperties
<1>3. g \in 1 .. n /\ g < n /\ h + (k + 1) = g + 1 /\ (g = h \/ g = h + 1)
  <2> HIDE DEF l, h, t, n
  <2> QED BY <1>1, <1>2
<1>4. l[g] = bl[i].name \/ l[g] = <<bl[i].mark>>
  <2>1. /\ l[h] = (IF bl[i].old THEN <<bl[i].mark>> ELSE bl[i].name)
        /\ l[h + 1] = IF bl[i].old THEN bl[i].name ELSE <<bl[i].mark>>
    BY RowPlaced, Zenon DEF Rowed
  <2> QED BY <1>3, <2>1, Zenon
<1>5. l[g][1] \notin Marks
  <2>1. bl[i].name[1] \notin Marks
    BY Zenon DEF ReadableCode
  <2>2. bl[i] \in Blocks
    <3> HIDE DEF Blocks
    <3> QED BY ElementOfSeq
  <2>3. bl[i].mark \notin Marks
    BY <2>2 DEF Blocks
  <2>4. <<bl[i].mark>>[1] = bl[i].mark
    OBVIOUS
  <2> QED BY <1>4, <2>1, <2>3, <2>4, Zenon
<1>6. Placed(w, l, g) /\ Seen(w, l, g)
  BY <1>1, <1>3, Zenon
<1>7. /\ s \in 1 .. Len(w) /\ e \in Nat /\ s < e
      /\ (e <= Len(w) => w[e] = "\n")
      /\ (g < n => e <= Len(w) /\ Start(l, g + 1) = e + 1)
      /\ w[s] = l[g][1] /\ l[g][1] \in Chars \ {"\n", "\r"}
      /\ SubSeq(w, s, e - 1) = l[g]
      /\ findNextLine(w, s) = e
  BY <1>6, Zenon DEF Placed, Seen
<1>8. Start(l, h + (k + 1)) = e + 1 /\ e <= Len(w) /\ w[e] = "\n"
  BY <1>3, <1>7, Zenon
<1>9. e \in 1 .. Len(w)
  <2>1. s \in 1 .. Len(w) /\ e \in Nat /\ s < e /\ e <= Len(w)
    BY <1>7, <1>8, Zenon
  <2> HIDE DEF s, e
  <2> QED BY <2>1
<1>10. w[s] \notin Marks \cup {"\n"}
  <2> HIDE DEF l, g, s, e, Marks
  <2> QED BY <1>5, <1>7
<1> QED BY <1>7, <1>8, <1>9, <1>10, Zenon DEF InHead, HeadBegin, HeadEnd

LEMMA BodyMet ==
  ASSUME NEW bl \in Seq(Blocks), NEW w, Read(w, AllLines(bl)), NEW i \in 1 .. Len(bl),
         ReadableCode(bl[i])
  PROVE  AtBody(w, bl, i)
<1> DEFINE l == AllLines(bl)
           h == HeadLine(bl, i)
           t == LastLine(bl, i)
           n == Len(l)
           d == bl[i].body
           g == h + 2
           s == Start(l, g)
<1>1. /\ h \in 1 .. n /\ g \in 1 .. n /\ t \in 1 .. n /\ g <= t /\ (t = g <=> d = <<>>)
      /\ Placed(w, l, g) /\ Seen(w, l, g)
  BY CodeLines, Zenon
<1>2. s \in 1 .. Len(w) /\ w[s] = l[g][1] /\ l[g][1] \in Chars \ {"\n", "\r"}
  BY <1>1, Zenon DEF Placed, Seen
<1>3. Unmarked(d)
  BY Zenon DEF ReadableCode
<1>4. CASE d = <<>>
  <2>1. s = Start(l, t)
    BY <1>1, <1>4, Zenon
  <2> QED BY <1>2, <1>4, <2>1, Zenon DEF AtBody, HeadBegin, CodeEnd
<1>5. CASE d # <<>>
  <2>1. Bodied(w, bl, i)
    BY <1>3, BodyPlaced
  <2>2. bl[i] \in Blocks
    <3> HIDE DEF Blocks
    <3> QED BY ElementOfSeq
  <2>3. d \in Seq(Lines)
    BY <2>2 DEF Blocks
  <2>4. 1 \in 1 .. Len(d)
    BY <1>5, <2>3
  <2>5. Lies(d, l, h + 1)
    BY RowPlaced, Zenon DEF Rowed
  <2>6. l[(h + 1) + 1] = d[1]
    BY <2>4, <2>5 DEF Lies
  <2>7. (h + 1) + 1 = g
    <3>1. n \in Nat
      BY AllLinesType, LenProperties
    <3> HIDE DEF l, h, n
    <3> QED BY <1>1, <3>1
  <2>8. ToSet(d[1]) \cap Marks = {}
    <3>1. d[1] \in ToSet(d)
      BY <2>3, <2>4 DEF ToSet
    <3> QED BY <1>3, <3>1, Zenon DEF Unmarked
  <2>9. d[1][1] \in ToSet(d[1])
    <3>1. d[1] \in Lines
      BY <2>3, <2>4, ElementOfSeq
    <3>2. 1 \in DOMAIN d[1]
      BY <3>1 DEF Lines
    <3> QED BY <3>2 DEF ToSet
  <2>10. w[s] = d[1][1] /\ w[s] # "\n"
    <3>1. l[g] = d[1]
      BY <2>6, <2>7, Zenon
    <3>2. w[s] = l[g][1] /\ l[g][1] # "\n"
      BY <1>2
    <3> QED BY <3>1, <3>2, Zenon
  <2>11. w[s] \notin Marks \cup {"\n"}
    <3> HIDE DEF d, s, Marks
    <3> QED BY <2>8, <2>9, <2>10
  <2> QED BY <1>2, <1>5, <2>1, <2>11, Zenon DEF AtBody, HeadBegin
<1> QED BY <1>4, <1>5, Zenon

LEMMA LastMet ==
  ASSUME NEW bl \in Seq(Blocks), NEW w, Read(w, AllLines(bl)), NEW i \in 1 .. Len(bl)
  PROVE  AtLast(w, bl, i)
<1> DEFINE l == AllLines(bl)
           t == LastLine(bl, i)
           n == Len(l)
           s == Start(l, t)
           e == Stop(l, t)
<1>1. t \in 1 .. n /\ Placed(w, l, t) /\ Seen(w, l, t)
  BY CodeLines, Zenon
<1>2. n \in Nat /\ Len(bl) \in Nat /\ Len(w) \in Nat
  <2>1. w \in Text
    BY Zenon DEF Read
  <2> QED BY <2>1, AllLinesType, LenProperties DEF Text
<1>3. l[t] = <<IF bl[i].old THEN "}" ELSE "#">> /\ FirstLine(bl, i + 1) = t + 1 /\ (i = Len(bl) => t = n)
  BY RowPlaced, Zenon DEF Rowed
<1>4. /\ s \in 1 .. Len(w) /\ w[s] = l[t][1] /\ findNextLine(w, s) = e
      /\ (t < n => Start(l, t + 1) = e + 1) /\ (t = n => Len(w) < e + 1)
  BY <1>1, Zenon DEF Placed, Seen
<1>5. w[s] = IF bl[i].old THEN "}" ELSE "#"
  <2>1. \A y : <<y>>[1] = y
    OBVIOUS
  <2> QED BY <1>3, <1>4, <2>1, Zenon
<1>6. i < Len(bl) => Start(l, FirstLine(bl, i + 1)) = e + 1
  <2> SUFFICES ASSUME i < Len(bl) PROVE Start(l, FirstLine(bl, i + 1)) = e + 1
    OBVIOUS
  <2>1. i + 1 \in 1 .. Len(bl)
    BY <1>2
  <2>2. FirstLine(bl, i + 1) \in 1 .. n
    BY <2>1, CodeLines
  <2>3. t + 1 \in 1 .. n
    BY <1>3, <2>2, Zenon
  <2>4. t < n
    <3> HIDE DEF t, n
    <3> QED BY <1>1, <1>2, <2>3
  <2> QED BY <1>3, <1>4, <2>4, Zenon
<1>7. ~(i < Len(bl)) => Len(w) < e + 1
  <2>1. ~(i < Len(bl)) => i = Len(bl)
    BY <1>2
  <2> QED BY <1>3, <1>4, <2>1, Zenon
<1> QED BY <1>4, <1>5, <1>6, <1>7, Zenon DEF AtLast, CodeBegin, CodeEnd

\* The i-th entry gets the parts of the code behind the first n, to the first m.
Turned(bl, i, n, m) ==
  /\ \A j \in DOMAIN ret : j # i => ret'[j] = ret[j]
  /\ Formed(bl, i) /\ ret[i] = AsRead(bl[i], n) => ret'[i] = AsRead(bl[i], m)

\* What is known in the middle of a code.
Within(bl, i) ==
  /\ bl \in Seq(Blocks) /\ i \in 1 .. Len(bl) /\ i = cur_count + 1
  /\ Read(buffer, AllLines(bl)) /\ ReadableCode(bl[i])

LEMMA Met ==
  ASSUME NEW bl, NEW i, Within(bl, i)
  PROVE  /\ AtBegin(buffer, bl, i) /\ InHead(buffer, bl, i, 0) /\ InHead(buffer, bl, i, 1)
         /\ AtBody(buffer, bl, i) /\ AtLast(buffer, bl, i) /\ bl[i].old \in BOOLEAN /\ bl[i] \in Blocks
<1>1. /\ bl \in Seq(Blocks) /\ i \in 1 .. Len(bl) /\ Read(buffer, AllLines(bl)) /\ ReadableCode(bl[i])
  BY Zenon DEF Within
<1>2. bl[i] \in Blocks
  <2> HIDE DEF Blocks
  <2> QED BY <1>1, ElementOfSeq
<1>3. bl[i].old \in BOOLEAN
  BY <1>2 DEF Blocks
<1>4. 0 \in {0, 1} /\ 1 \in {0, 1}
  OBVIOUS
<1> HIDE DEF Blocks
<1> QED BY <1>1, <1>2, <1>3, <1>4, BeginMet, HeadMet, BodyMet, LastMet, Zenon

LEMMA BraceStep ==
  ASSUME NEW bl, NEW i, Within(bl, i), ReadStep, AtBrace(bl, i, cur_line, x, load_old_format)
  PROVE  /\ PastBrace(bl, i, cur_line', x', load_old_format')
         /\ cur_count' = cur_count /\ ret' = ret
<1>1. bl[i].old /\ x = CodeBegin(bl, i)
  BY Zenon DEF AtBrace
<1>2. buffer[x] = "{"
  BY <1>1, Met, Zenon DEF AtBegin
<1>3. OpenCode
  BY <1>2, ByChar
<1> QED BY <1>1, <1>3 DEF OpenCode, PastBrace

LEMMA LineStep ==
  ASSUME NEW bl, NEW i, Within(bl, i), ReadStep
  PROVE  /\ PastBrace(bl, i, cur_line, x, load_old_format)
              => LineBegun(bl, i, 0, cur_line', x', load_old_format') /\ cur_count' = cur_count /\ ret' = ret
         /\ LineDone(bl, i, 0, cur_line, x, load_old_format)
              => LineBegun(bl, i, 1, cur_line', x', load_old_format') /\ cur_count' = cur_count /\ ret' = ret
         /\ LineDone(bl, i, 1, cur_line, x, load_old_format)
              => InBody(bl, i, cur_line', x', load_old_format') /\ cur_count' = cur_count /\ ret' = ret
<1> DEFINE p == CodeBegin(bl, i)
<1>1. buffer[x] = "\n" => /\ cur_line' = cur_line + 1 /\ x' = x + 1 /\ load_old_format' = load_old_format
                          /\ cur_count' = cur_count /\ ret' = ret
  BY ByChar DEF NextLine
<1>2. ASSUME PastBrace(bl, i, cur_line, x, load_old_format)
      PROVE  LineBegun(bl, i, 0, cur_line', x', load_old_format') /\ cur_count' = cur_count /\ ret' = ret
  <2>1. bl[i].old /\ cur_line = -1 /\ x = p + 1 /\ load_old_format = TRUE
    BY <1>2, Zenon DEF PastBrace
  <2>2. buffer[x] = "\n" /\ HeadBegin(bl, i, 0) = p + 2 /\ p + 1 \in 1 .. Len(buffer)
    BY <2>1, Met, Zenon DEF AtBegin
  <2>3. cur_line' = cur_line + 1 /\ x' = x + 1 /\ load_old_format' = TRUE /\ cur_count' = cur_count /\ ret' = ret
    BY <1>1, <2>1, <2>2, Zenon
  <2>4. OldForm(bl, i) = TRUE
    BY <2>1 DEF OldForm
  <2>5. p \in Int
    <3>1. Start(AllLines(bl), FirstLine(bl, i)) \in 1 .. Len(buffer)
      <4>1. bl \in Seq(Blocks) /\ i \in 1 .. Len(bl) /\ Read(buffer, AllLines(bl))
        BY Zenon DEF Within
      <4>2. FirstLine(bl, i) \in 1 .. Len(AllLines(bl)) /\ Placed(buffer, AllLines(bl), FirstLine(bl, i))
        BY <4>1, CodeLines
      <4> QED BY <4>2, Zenon DEF Placed
    <3> QED BY <3>1 DEF CodeBegin
  <2> HIDE DEF p
  <2>6. cur_line' = 0 /\ x' = HeadBegin(bl, i, 0)
    <3>1. /\ cur_line = -1 /\ x = p + 1 /\ HeadBegin(bl, i, 0) = p + 2
          /\ cur_line' = cur_line + 1 /\ x' = x + 1
      BY <2>1, <2>2, <2>3, Zenon
    <3> QED BY <2>5, <3>1
  <2>7. LineBegun(bl, i, 0, cur_line', x', load_old_format')
    BY <2>3, <2>4, <2>6, Zenon DEF LineBegun
  <2> QED BY <2>3, <2>7, Zenon
<1>3. ASSUME NEW k \in {0, 1}, LineDone(bl, i, k, cur_line, x, load_old_format)
      PROVE  /\ cur_line' = k + 1 /\ x' = HeadBegin(bl, i, k + 1) /\ load_old_format' = OldForm(bl, i)
             /\ cur_count' = cur_count /\ ret' = ret
  <2>1. cur_line = k /\ x = HeadEnd(bl, i, k) /\ load_old_format = OldForm(bl, i)
    BY <1>3, Zenon DEF LineDone
  <2>2. InHead(buffer, bl, i, k)
    BY Met
  <2>3. buffer[x] = "\n" /\ HeadBegin(bl, i, k + 1) = x + 1
    BY <2>1, <2>2, Zenon DEF InHead
  <2> QED BY <1>1, <2>1, <2>3, Zenon
<1>4. LineDone(bl, i, 0, cur_line, x, load_old_format)
        => LineBegun(bl, i, 1, cur_line', x', load_old_format') /\ cur_count' = cur_count /\ ret' = ret
  <2>1. 0 \in {0, 1} /\ 0 + 1 = 1
    OBVIOUS
  <2> QED BY <1>3, <2>1, Zenon DEF LineBegun
<1>5. LineDone(bl, i, 1, cur_line, x, load_old_format)
        => InBody(bl, i, cur_line', x', load_old_format') /\ cur_count' = cur_count /\ ret' = ret
  <2>1. 1 \in {0, 1} /\ 1 + 1 = 2
    OBVIOUS
  <2> QED BY <1>3, <2>1, Zenon DEF InBody
<1> QED BY <1>2, <1>4, <1>5

\* A field of an entry is read.
LEMMA EntryMade ==
  ASSUME NEW e \in Entries, NEW v
  PROVE  /\ [e EXCEPT !.name = v] = Made(v, e.cwrite, e.codes)
         /\ [e EXCEPT !.cwrite = v] = Made(e.name, v, e.codes)
         /\ [e EXCEPT !.codes = v] = Made(e.name, e.cwrite, v)
PROOF BY DEF Entries, Made

LEMMA TableMade ==
  ASSUME TypeInv, ReadStep, NEW e, ret' = [ret EXCEPT ![cur_count + 1] = e]
  PROVE  /\ cur_count + 1 \in DOMAIN ret /\ ret[cur_count + 1] \in Entries
         /\ ret'[cur_count + 1] = e
         /\ \A j \in DOMAIN ret : j # cur_count + 1 => ret'[j] = ret[j]
<1>1. cur_count < code_count
  BY ByChar
<1>2. ret \in Seq(Entries) /\ Len(ret) = code_count /\ cur_count \in 0 .. code_count /\ code_count \in Nat
  BY DEF TypeInv
<1> HIDE DEF Entries
<1>3. cur_count + 1 \in 1 .. Len(ret)
  BY <1>1, <1>2
<1> QED BY <1>2, <1>3, ElementOfSeq

\* A line of the head is read, as the name or as the mark.
LEMMA HeadStep ==
  ASSUME TypeInv, NEW bl, NEW i, Within(bl, i), ReadStep,
         NEW k \in {0, 1}, LineBegun(bl, i, k, cur_line, x, load_old_format)
  PROVE  /\ LineDone(bl, i, k, cur_line', x', load_old_format')
         /\ cur_count' = cur_count /\ Turned(bl, i, k, k + 1)
<1> DEFINE b == bl[i]
           a == AsRead(b, k)
           s == HeadBegin(bl, i, k)
           r == AllLines(bl)[HeadLine(bl, i) + k]
<1>1. cur_line = k /\ x = s /\ load_old_format = OldForm(bl, i)
  BY Zenon DEF LineBegun
<1>2. InHead(buffer, bl, i, k) /\ b.old \in BOOLEAN /\ b \in Blocks /\ i = cur_count + 1
  <2>1. i = cur_count + 1
    BY Zenon DEF Within
  <2> HIDE DEF Blocks
  <2> QED BY <2>1, Met
<1>3. /\ buffer[x] \notin Marks \cup {"\n"} /\ findNextLine(buffer, x) = HeadEnd(bl, i, k)
      /\ SubSeq(buffer, x, findNextLine(buffer, x) - 1) = r /\ buffer[x] = r[1]
  BY <1>1, <1>2, Zenon DEF InHead
<1>4. CodeStep
  BY <1>3, ByChar, Zenon
<1>5. ReadName \/ ReadMark
  <2>1. ~PassOver
    <3>1. PassOver => cur_line = -1
      BY DEF PassOver, InCode
    <3> QED BY <1>1, <3>1
  <2>2. ~ReadCodes
    <3>1. ReadCodes => \E line \in 2 .. Len(buffer) : cur_line = line
      BY Zenon DEF ReadCodes, InCode
    <3>2. \A line \in 2 .. Len(buffer) : line # 0 /\ line # 1
      OBVIOUS
    <3> QED BY <1>1, <3>1, <3>2
  <2> QED BY <1>4, <2>1, <2>2, Zenon DEF CodeStep
<1>6. /\ ReadName => cur_line = NameLine /\ x' = findNextLine(buffer, x)
                     /\ cur_line' = cur_line /\ load_old_format' = load_old_format /\ cur_count' = cur_count
      /\ ReadMark => cur_line = MarkLine /\ x' = findNextLine(buffer, x)
                     /\ cur_line' = cur_line /\ load_old_format' = load_old_format /\ cur_count' = cur_count
  BY Zenon DEF ReadName, ReadMark, InCode
<1>7. LineDone(bl, i, k, cur_line', x', load_old_format')
  BY <1>1, <1>3, <1>5, <1>6, Zenon DEF LineDone
<1>8. /\ ReadName => ret' = [ret EXCEPT ![cur_count + 1] = [ret[cur_count + 1] EXCEPT !.name = r]]
      /\ ReadMark => ret' = [ret EXCEPT ![cur_count + 1] = [ret[cur_count + 1] EXCEPT !.cwrite = (buffer[x] = "1")]]
  <2>1. ReadName => ret' = [ret EXCEPT ![cur_count + 1] = [ret[cur_count + 1] EXCEPT !.name = SubSeq(buffer, x, findNextLine(buffer, x) - 1)]]
    BY DEF ReadName
  <2>2. ReadMark => ret' = [ret EXCEPT ![cur_count + 1] = [ret[cur_count + 1] EXCEPT !.cwrite = (buffer[x] = "1")]]
    BY DEF ReadMark
  <2> QED BY <1>3, <2>1, <2>2, Zenon
<1>9. /\ cur_count + 1 \in DOMAIN ret /\ ret[cur_count + 1] \in Entries
      /\ ReadName => ret'[cur_count + 1] = [ret[cur_count + 1] EXCEPT !.name = r]
      /\ ReadMark => ret'[cur_count + 1] = [ret[cur_count + 1] EXCEPT !.cwrite = (buffer[x] = "1")]
      /\ \A j \in DOMAIN ret : j # cur_count + 1 => ret'[j] = ret[j]
  <2> HIDE DEF Entries
  <2> QED BY <1>5, <1>8, TableMade, Zenon
<1>10. ASSUME Formed(bl, i), ret[i] = a PROVE ret'[i] = AsRead(b, k + 1)
  <2>1. OldForm(bl, i) <=> b.old
    BY <1>10, Zenon DEF OldForm, Formed
  <2>2. /\ ReadName => k = IF b.old THEN 1 ELSE 0
        /\ ReadMark => k = IF b.old THEN 0 ELSE 1
    BY <1>1, <1>6, <2>1, Zenon DEF NameLine, MarkLine
  <2>3. a \in Entries
    <3> HIDE DEF Entries
    <3> QED BY <1>2, <1>9, <1>10, Zenon
  <2>4. /\ ReadName => ret'[i] = Made(r, a.cwrite, a.codes)
        /\ ReadMark => ret'[i] = Made(a.name, buffer[x] = "1", a.codes)
    <3> HIDE DEF Entries, a, r
    <3>1. /\ [a EXCEPT !.name = r] = Made(r, a.cwrite, a.codes)
          /\ [a EXCEPT !.cwrite = (buffer[x] = "1")] = Made(a.name, buffer[x] = "1", a.codes)
      BY <2>3, EntryMade
    <3> QED BY <1>2, <1>9, <1>10, <3>1, Zenon
  <2>5. /\ b.old /\ k = 1 => r = b.name
        /\ ~b.old /\ k = 0 => r = b.name
        /\ b.old /\ k = 0 => r[1] = b.mark
        /\ ~b.old /\ k = 1 => r[1] = b.mark
    <3>1. bl \in Seq(Blocks) /\ i \in 1 .. Len(bl) /\ Read(buffer, AllLines(bl))
      BY Zenon DEF Within
    <3>2. /\ AllLines(bl)[HeadLine(bl, i)] = (IF bl[i].old THEN <<bl[i].mark>> ELSE bl[i].name)
          /\ AllLines(bl)[HeadLine(bl, i) + 1] = IF bl[i].old THEN bl[i].name ELSE <<bl[i].mark>>
      BY <3>1, RowPlaced, Zenon DEF Rowed
    <3>3. HeadLine(bl, i) + 0 = HeadLine(bl, i)
      <4>1. HeadLine(bl, i) \in 1 .. Len(AllLines(bl)) /\ Len(AllLines(bl)) \in Nat
        BY <3>1, CodeLines, AllLinesType, LenProperties
      <4> QED BY <4>1
    <3>4. <<b.mark>>[1] = b.mark
      OBVIOUS
    <3>5. 1 # 0
      OBVIOUS
    <3> QED BY <3>2, <3>3, <3>4, <3>5, Zenon
  <2>6. /\ Made(b.name, AsRead(b, IF b.old THEN 1 ELSE 0).cwrite, AsRead(b, IF b.old THEN 1 ELSE 0).codes) = AsRead(b, (IF b.old THEN 1 ELSE 0) + 1)
        /\ Made(AsRead(b, IF b.old THEN 0 ELSE 1).name, b.mark = "1", AsRead(b, IF b.old THEN 0 ELSE 1).codes) = AsRead(b, (IF b.old THEN 0 ELSE 1) + 1)
    <3> HIDE DEF Blocks
    <3> QED BY <1>2, PartsRead
  <2>7. CASE ReadName
    <3>1. k = IF b.old THEN 1 ELSE 0
      BY <2>2, <2>7, Zenon
    <3>2. r = b.name
      BY <2>5, <3>1, Zenon
    <3> QED BY <2>4, <2>6, <2>7, <3>1, <3>2, Zenon
  <2>8. CASE ReadMark
    <3>1. k = IF b.old THEN 0 ELSE 1
      BY <2>2, <2>8, Zenon
    <3>2. buffer[x] = b.mark
      BY <1>3, <2>5, <3>1, Zenon
    <3> QED BY <2>4, <2>6, <2>8, <3>1, <3>2, Zenon
  <2> QED BY <1>5, <2>7, <2>8
<1>11. cur_count' = cur_count
  BY <1>5, <1>6, Zenon
<1>12. Turned(bl, i, k, k + 1)
  BY <1>2, <1>9, <1>10, Zenon DEF Turned
<1> QED BY <1>7, <1>11, <1>12

\* Its body is read; one without lines is there as soon as the mark is.
LEMMA BodyStep ==
  ASSUME TypeInv, NEW bl, NEW i, Within(bl, i), ReadStep, bl[i].body # <<>>,
         InBody(bl, i, cur_line, x, load_old_format)
  PROVE  /\ AtEnd(bl, i, cur_line', x', load_old_format')
         /\ cur_count' = cur_count /\ Turned(bl, i, 2, 3)
<1> DEFINE b == bl[i]
           a == AsRead(b, 2)
           v == Whole(b.body)
<1>1. cur_line = 2 /\ x = HeadBegin(bl, i, 2) /\ load_old_format = OldForm(bl, i)
  BY Zenon DEF InBody
<1>2. AtBody(buffer, bl, i) /\ b \in Blocks /\ i = cur_count + 1
  <2>1. i = cur_count + 1
    BY Zenon DEF Within
  <2> HIDE DEF Blocks
  <2> QED BY <2>1, Met
<1>3. buffer[x] \notin Marks \cup {"\n"} /\ Bodied(buffer, bl, i)
  BY <1>1, <1>2, Zenon DEF AtBody
<1>4. findNextBreak(buffer, x) = CodeEnd(bl, i) /\ SubSeq(buffer, x, findNextBreak(buffer, x) - 1) = v
  BY <1>1, <1>3, Zenon DEF Bodied, HeadBegin, CodeEnd
<1>5. CodeStep
  BY <1>3, ByChar, Zenon
<1>6. ReadCodes
  <2>1. ~PassOver
    <3>1. PassOver => cur_line = -1
      BY DEF PassOver, InCode
    <3> QED BY <1>1, <3>1
  <2>2. ~ReadName /\ ~ReadMark
    <3>1. ReadName => cur_line = 0 \/ cur_line = 1
      BY Zenon DEF ReadName, InCode, NameLine
    <3>2. ReadMark => cur_line = 0 \/ cur_line = 1
      BY Zenon DEF ReadMark, InCode, MarkLine
    <3> QED BY <1>1, <3>1, <3>2
  <2> QED BY <1>5, <2>1, <2>2, Zenon DEF CodeStep
<1>7. /\ cur_line' = cur_line /\ load_old_format' = load_old_format /\ cur_count' = cur_count
      /\ x' = findNextBreak(buffer, x)
  BY <1>6, Zenon DEF ReadCodes, InCode
<1>8. AtEnd(bl, i, cur_line', x', load_old_format')
  BY <1>1, <1>4, <1>7, Zenon DEF AtEnd
<1>9. ret' = [ret EXCEPT ![cur_count + 1] = [ret[cur_count + 1] EXCEPT !.codes = v]]
  <2>1. ret' = [ret EXCEPT ![cur_count + 1] = [ret[cur_count + 1] EXCEPT !.codes = SubSeq(buffer, x, findNextBreak(buffer, x) - 1)]]
    BY <1>6 DEF ReadCodes
  <2> QED BY <1>4, <2>1, Zenon
<1>10. /\ cur_count + 1 \in DOMAIN ret /\ ret[cur_count + 1] \in Entries
       /\ ret'[cur_count + 1] = [ret[cur_count + 1] EXCEPT !.codes = v]
       /\ \A j \in DOMAIN ret : j # cur_count + 1 => ret'[j] = ret[j]
  <2> HIDE DEF Entries
  <2> QED BY <1>9, TableMade, Zenon
<1>11. ASSUME ret[i] = a PROVE ret'[i] = AsRead(b, 3)
  <2>1. Made(a.name, a.cwrite, v) = AsRead(b, 3)
    <3> HIDE DEF Blocks
    <3> QED BY <1>2, PartsRead
  <2>2. a \in Entries
    <3> HIDE DEF Entries
    <3> QED BY <1>2, <1>10, <1>11, Zenon
  <2> HIDE DEF Entries, a, v
  <2>3. [a EXCEPT !.codes = v] = Made(a.name, a.cwrite, v)
    BY <2>2, EntryMade
  <2> QED BY <1>2, <1>10, <1>11, <2>1, <2>3, Zenon
<1>12. Turned(bl, i, 2, 3)
  BY <1>2, <1>10, <1>11, Zenon DEF Turned
<1> QED BY <1>7, <1>8, <1>12

\* The places a code of which n parts are read has left for the reader.
Stage(bl, i, n, line, pos, old) ==
  \/ n = 0 /\ (AtBrace(bl, i, line, pos, old) \/ PastBrace(bl, i, line, pos, old) \/ LineBegun(bl, i, 0, line, pos, old))
  \/ n = 1 /\ (LineDone(bl, i, 0, line, pos, old) \/ LineBegun(bl, i, 1, line, pos, old))
  \/ n = 2 /\ (LineDone(bl, i, 1, line, pos, old) \/ InBody(bl, i, line, pos, old))
  \/ n = 3 /\ AtEnd(bl, i, line, pos, old)

LEMMA FirstStage ==
  ASSUME NEW bl \in Seq(Blocks), NEW w, Read(w, AllLines(bl)), NEW i \in 1 .. Len(bl),
         NEW line, NEW pos, NEW old, line = 0, pos = CodeBegin(bl, i), old = OldBefore(bl, i)
  PROVE  Stage(bl, i, 0, line, pos, old)
<1>1. AtBegin(w, bl, i)
  BY BeginMet
<1>2. CASE bl[i].old
  <2>1. AtBrace(bl, i, line, pos, old)
    BY <1>2, Zenon DEF AtBrace
  <2> QED BY <2>1, Zenon DEF Stage
<1>3. CASE ~bl[i].old
  <2>1. HeadBegin(bl, i, 0) = CodeBegin(bl, i)
    BY <1>1, <1>3, Zenon DEF AtBegin
  <2>2. bl[i].old = FALSE
    <3>1. bl[i] \in Blocks
      <4> HIDE DEF Blocks
      <4> QED BY ElementOfSeq
    <3>2. bl[i].old \in BOOLEAN
      BY <3>1 DEF Blocks
    <3> QED BY <1>3, <3>2
  <2>3. OldForm(bl, i) = OldBefore(bl, i)
    BY <2>2 DEF OldForm, OldBefore
  <2>4. LineBegun(bl, i, 0, line, pos, old)
    BY <2>1, <2>3, Zenon DEF LineBegun
  <2> QED BY <2>4, Zenon DEF Stage
<1> QED BY <1>2, <1>3

\* All of them are in the text.
LEMMA StagePlace ==
  ASSUME NEW bl, NEW i, Within(bl, i), NEW n, Stage(bl, i, n, cur_line, x, load_old_format)
  PROVE  x \in 1 .. Len(buffer)
<1>1. /\ AtBegin(buffer, bl, i) /\ InHead(buffer, bl, i, 0) /\ InHead(buffer, bl, i, 1)
      /\ AtBody(buffer, bl, i) /\ AtLast(buffer, bl, i)
  BY Met, Zenon
<1>2. Len(buffer) \in Nat
  BY LenProperties DEF Within, Read, Text
<1>3. CASE AtBrace(bl, i, cur_line, x, load_old_format) \/ PastBrace(bl, i, cur_line, x, load_old_format)
  <2>1. bl[i].old /\ (x = CodeBegin(bl, i) \/ x = CodeBegin(bl, i) + 1)
    BY <1>3, Zenon DEF AtBrace, PastBrace
  <2>2. CodeBegin(bl, i) + 1 \in 1 .. Len(buffer)
    BY <1>1, <2>1, Zenon DEF AtBegin
  <2>3. CodeBegin(bl, i) \in 1 .. Len(buffer)
    <3>1. bl \in Seq(Blocks) /\ i \in 1 .. Len(bl) /\ Read(buffer, AllLines(bl))
      BY Zenon DEF Within
    <3>2. FirstLine(bl, i) \in 1 .. Len(AllLines(bl)) /\ Placed(buffer, AllLines(bl), FirstLine(bl, i))
      BY <3>1, CodeLines
    <3> QED BY <3>2, Zenon DEF Placed, CodeBegin
  <2> QED BY <2>1, <2>2, <2>3, Zenon
<1>4. CASE \E k \in {0, 1} : LineBegun(bl, i, k, cur_line, x, load_old_format) \/ LineDone(bl, i, k, cur_line, x, load_old_format)
  BY <1>1, <1>4, Zenon DEF LineBegun, LineDone, InHead
<1>5. CASE InBody(bl, i, cur_line, x, load_old_format)
  BY <1>1, <1>5, Zenon DEF InBody, AtBody
<1>6. CASE AtEnd(bl, i, cur_line, x, load_old_format)
  BY <1>1, <1>6, Zenon DEF AtEnd, AtLast
<1>7. 0 \in {0, 1} /\ 1 \in {0, 1}
  OBVIOUS
<1> QED BY <1>3, <1>4, <1>5, <1>6, <1>7, Zenon DEF Stage

\* A code ends, and another begins, or nothing.
LEMMA EndStep ==
  ASSUME NEW bl, NEW i, Within(bl, i), ReadStep, AtEnd(bl, i, cur_line, x, load_old_format)
  PROVE  /\ cur_count' = cur_count + 1 /\ ret' = ret
         /\ IF i < Len(bl) THEN Stage(bl, i + 1, 0, cur_line', x', load_old_format')
            ELSE Len(buffer) < x'
<1>1. x = CodeEnd(bl, i)
  BY Zenon DEF AtEnd
<1>2. AtLast(buffer, bl, i) /\ bl[i].old \in BOOLEAN
  BY Met
<1>3. buffer[x] = IF bl[i].old THEN "}" ELSE "#"
  BY <1>1, <1>2, Zenon DEF AtLast
<1>4. buffer[x] \in Breaks
  BY <1>3 DEF Breaks
<1>5. EndCode
  BY <1>4, ByChar
<1>6. /\ cur_count' = cur_count + 1 /\ cur_line' = 0 /\ ret' = ret
      /\ load_old_format' = (buffer[x] = "}") /\ x' = findNextLine(buffer, x) + 1
  BY <1>5, Zenon DEF EndCode
<1>7. load_old_format' = bl[i].old
  BY <1>2, <1>3, <1>6
<1>8. CASE i < Len(bl)
  <2>1. bl \in Seq(Blocks) /\ i \in 1 .. Len(bl) /\ Read(buffer, AllLines(bl)) /\ Len(bl) \in Nat
    BY LenProperties DEF Within
  <2>2. i + 1 \in 1 .. Len(bl) /\ i + 1 > 1 /\ (i + 1) - 1 = i
    BY <1>8, <2>1
  <2>3. x' = CodeBegin(bl, i + 1)
    BY <1>1, <1>2, <1>6, <1>8, Zenon DEF AtLast
  <2>4. load_old_format' = OldBefore(bl, i + 1)
    BY <1>2, <1>7, <2>2 DEF OldBefore
  <2>5. Stage(bl, i + 1, 0, cur_line', x', load_old_format')
    BY <1>6, <2>1, <2>2, <2>3, <2>4, FirstStage
  <2> QED BY <1>6, <1>8, <2>5
<1>9. CASE ~(i < Len(bl))
  <2>1. Len(buffer) < x'
    BY <1>1, <1>2, <1>6, <1>9, Zenon DEF AtLast
  <2> QED BY <1>6, <1>9, <2>1
<1> QED BY <1>8, <1>9

\* A step of the reader takes the code on, or is the one behind it.
LEMMA StageStep ==
  ASSUME TypeInv, NEW bl, NEW i, Within(bl, i), ReadStep,
         NEW n, Stage(bl, i, n, cur_line, x, load_old_format)
  PROVE  \/ cur_count' = cur_count
              /\ \E m : Stage(bl, i, m, cur_line', x', load_old_format') /\ Turned(bl, i, n, m)
         \/ /\ cur_count' = cur_count + 1 /\ ret' = ret /\ AsRead(bl[i], n) = AsRead(bl[i], 3)
            /\ IF i < Len(bl) THEN Stage(bl, i + 1, 0, cur_line', x', load_old_format')
               ELSE Len(buffer) < x'
<1>1. \A m : ret' = ret => Turned(bl, i, m, m)
  BY Zenon DEF Turned
<1>2. 0 \in {0, 1} /\ 1 \in {0, 1} /\ 0 + 1 = 1 /\ 1 + 1 = 2
  OBVIOUS
<1>3. CASE n = 0 /\ AtBrace(bl, i, cur_line, x, load_old_format)
  <2>1. PastBrace(bl, i, cur_line', x', load_old_format') /\ cur_count' = cur_count /\ ret' = ret
    BY <1>3, BraceStep
  <2> QED BY <1>1, <1>3, <2>1, Zenon DEF Stage
<1>4. CASE n = 0 /\ PastBrace(bl, i, cur_line, x, load_old_format)
  <2>1. LineBegun(bl, i, 0, cur_line', x', load_old_format') /\ cur_count' = cur_count /\ ret' = ret
    BY <1>4, LineStep
  <2> QED BY <1>1, <1>4, <2>1, Zenon DEF Stage
<1>5. CASE n = 0 /\ LineBegun(bl, i, 0, cur_line, x, load_old_format)
  <2>1. LineDone(bl, i, 0, cur_line', x', load_old_format') /\ cur_count' = cur_count /\ Turned(bl, i, 0, 1)
    BY <1>2, <1>5, HeadStep, Zenon
  <2> QED BY <1>5, <2>1, Zenon DEF Stage
<1>6. CASE n = 1 /\ LineDone(bl, i, 0, cur_line, x, load_old_format)
  <2>1. LineBegun(bl, i, 1, cur_line', x', load_old_format') /\ cur_count' = cur_count /\ ret' = ret
    BY <1>6, LineStep
  <2> QED BY <1>1, <1>6, <2>1, Zenon DEF Stage
<1>7. CASE n = 1 /\ LineBegun(bl, i, 1, cur_line, x, load_old_format)
  <2>1. LineDone(bl, i, 1, cur_line', x', load_old_format') /\ cur_count' = cur_count /\ Turned(bl, i, 1, 2)
    BY <1>2, <1>7, HeadStep, Zenon
  <2> QED BY <1>7, <2>1, Zenon DEF Stage
<1>8. CASE n = 2 /\ LineDone(bl, i, 1, cur_line, x, load_old_format)
  <2>1. InBody(bl, i, cur_line', x', load_old_format') /\ cur_count' = cur_count /\ ret' = ret
    BY <1>8, LineStep
  <2> QED BY <1>1, <1>8, <2>1, Zenon DEF Stage
<1>9. CASE n = 2 /\ InBody(bl, i, cur_line, x, load_old_format) /\ bl[i].body # <<>>
  <2>1. AtEnd(bl, i, cur_line', x', load_old_format') /\ cur_count' = cur_count /\ Turned(bl, i, 2, 3)
    BY <1>9, BodyStep
  <2> QED BY <1>9, <2>1, Zenon DEF Stage
<1>10. CASE n = 2 /\ InBody(bl, i, cur_line, x, load_old_format) /\ bl[i].body = <<>>
  <2>1. AtBody(buffer, bl, i) /\ bl[i] \in Blocks
    BY Met, Zenon
  <2>2. AtEnd(bl, i, cur_line, x, load_old_format)
    BY <1>10, <2>1, Zenon DEF InBody, AtEnd, AtBody
  <2>3. AsRead(bl[i], n) = AsRead(bl[i], 3)
    BY <1>10, <2>1, PartsRead, Zenon
  <2> QED BY <2>2, <2>3, EndStep, Zenon
<1>11. CASE n = 3 /\ AtEnd(bl, i, cur_line, x, load_old_format)
  BY <1>11, EndStep, Zenon
<1> QED BY <1>3, <1>4, <1>5, <1>6, <1>7, <1>8, <1>9, <1>10, <1>11, Zenon DEF Stage

-----------------------------------------------------------------------------
(* What is read is what was written                                        *)

\* The codes behind the reader are read, the one it is at in part, the others not.
Reader(bl) ==
  /\ Read(buffer, AllLines(bl))
  /\ Len(bl) <= code_count
  /\ (\A i \in 1 .. Len(bl) : CleanCode(bl[i])) => code_count = Len(bl)
  /\ cur_count <= Len(bl)
  /\ \A j \in 1 .. cur_count : Formed(bl, j) => ret[j] = AsRead(bl[j], 3)
  /\ \A j \in DOMAIN ret : j > Len(bl) \/ j > cur_count + 1 => ret[j] = Unread
  /\ cur_count < Len(bl) =>
       \E n : /\ Stage(bl, cur_count + 1, n, cur_line, x, load_old_format)
              /\ Formed(bl, cur_count + 1) => ret[cur_count + 1] = AsRead(bl[cur_count + 1], n)
  /\ cur_count = Len(bl) => Len(buffer) < x

LEMMA ReaderStep ==
  ASSUME TypeInv, NEW bl \in Seq(Blocks), \A i \in 1 .. Len(bl) : ReadableCode(bl[i]),
         Reader(bl), ReadStep
  PROVE  Reader(bl)'
<1> DEFINE i == cur_count + 1
           m == Len(bl)
<1>1. /\ cur_count < code_count /\ x <= Len(buffer) /\ buffer' = buffer /\ code_count' = code_count
  BY ByChar
<1>2. /\ cur_count \in Nat /\ code_count \in Nat /\ m \in Nat /\ x \in Nat /\ Len(buffer) \in Nat
      /\ DOMAIN ret = 1 .. code_count
  <2>1. Len(buffer) \in Nat /\ m \in Nat
    BY LenProperties DEF TypeInv, Text
  <2> HIDE DEF m
  <2> QED BY <2>1 DEF TypeInv
<1>3. DOMAIN ret' = 1 .. code_count
  <2>1. TypeInv'
    BY TypeRead DEF ReadStep
  <2>2. ret' \in Seq(Entries) /\ Len(ret') = code_count'
    BY <2>1, Zenon DEF TypeInv
  <2> HIDE DEF Entries
  <2> QED BY <1>1, <2>2
<1>4. /\ Read(buffer, AllLines(bl)) /\ m <= code_count /\ cur_count <= m
      /\ cur_count = m => Len(buffer) < x
  BY Zenon DEF Reader
<1>5. cur_count < m /\ i \in 1 .. m /\ i \in DOMAIN ret /\ cur_count + 1 > cur_count
  <2> HIDE DEF m
  <2> QED BY <1>1, <1>2, <1>4
<1>6. Within(bl, i)
  BY <1>4, <1>5, Zenon DEF Within
<1>7. PICK n : /\ Stage(bl, i, n, cur_line, x, load_old_format)
               /\ Formed(bl, i) => ret[i] = AsRead(bl[i], n)
  BY <1>5, Zenon DEF Reader
<1>8. /\ \A j \in 1 .. cur_count : Formed(bl, j) => ret[j] = AsRead(bl[j], 3)
      /\ \A j \in DOMAIN ret : j > m \/ j > i => ret[j] = Unread
      /\ (\A j \in 1 .. m : CleanCode(bl[j])) => code_count = m
  BY Zenon DEF Reader
<1>9. ASSUME cur_count' = cur_count, NEW k, Stage(bl, i, k, cur_line', x', load_old_format'), Turned(bl, i, n, k)
      PROVE  Reader(bl)'
  <2>1. /\ \A j \in DOMAIN ret : j # i => ret'[j] = ret[j]
        /\ Formed(bl, i) => ret'[i] = AsRead(bl[i], k)
    BY <1>7, <1>9, Zenon DEF Turned
  <2>2. \A j \in 1 .. cur_count : Formed(bl, j) => ret'[j] = AsRead(bl[j], 3)
    <3> SUFFICES ASSUME NEW j \in 1 .. cur_count PROVE Formed(bl, j) => ret'[j] = AsRead(bl[j], 3)
      OBVIOUS
    <3>1. j \in DOMAIN ret /\ j # i
      BY <1>1, <1>2
    <3> QED BY <1>8, <2>1, <3>1, Zenon
  <2>3. \A j \in DOMAIN ret' : j > m \/ j > i => ret'[j] = Unread
    <3> SUFFICES ASSUME NEW j \in DOMAIN ret', j > m \/ j > i PROVE ret'[j] = Unread
      OBVIOUS
    <3>1. j \in DOMAIN ret
      BY <1>2, <1>3, Zenon
    <3>2. j # i
      <4>1. j \in 1 .. code_count /\ i <= m
        BY <1>2, <1>5, <3>1
      <4> HIDE DEF m
      <4> QED BY <1>2, <4>1
    <3> QED BY <1>8, <2>1, <3>1, <3>2, Zenon
  <2>4. cur_count' # m
    BY <1>2, <1>5, <1>9
  <2> HIDE DEF m
  <2> QED BY <1>1, <1>4, <1>8, <1>9, <2>1, <2>2, <2>3, <2>4, Zenon DEF Reader, m
<1>10. ASSUME cur_count' = cur_count + 1, ret' = ret, AsRead(bl[i], n) = AsRead(bl[i], 3),
              IF i < m THEN Stage(bl, i + 1, 0, cur_line', x', load_old_format') ELSE Len(buffer) < x'
       PROVE  Reader(bl)'
  <2>1. i <= m /\ (i < m \/ i = m) /\ (i = m => ~(i < m))
    <3> HIDE DEF m
    <3> QED BY <1>2, <1>5
  <2>2. \A j \in 1 .. i : Formed(bl, j) => ret[j] = AsRead(bl[j], 3)
    <3> SUFFICES ASSUME NEW j \in 1 .. i PROVE Formed(bl, j) => ret[j] = AsRead(bl[j], 3)
      OBVIOUS
    <3>1. j \in 1 .. cur_count \/ j = i
      BY <1>2
    <3> QED BY <1>7, <1>8, <1>10, <3>1, Zenon
  <2>3. \A j \in DOMAIN ret : j > m \/ j > i + 1 => ret[j] = Unread
    <3> SUFFICES ASSUME NEW j \in DOMAIN ret, j > m \/ j > i + 1 PROVE ret[j] = Unread
      OBVIOUS
    <3>1. j > m \/ j > i
      <4>1. j \in 1 .. code_count
        BY <1>2
      <4> HIDE DEF m
      <4> QED BY <1>2, <4>1
    <3> QED BY <1>8, <3>1, Zenon
  <2>4. i < m => /\ Stage(bl, i + 1, 0, cur_line', x', load_old_format')
                 /\ Formed(bl, i + 1) => ret[i + 1] = AsRead(bl[i + 1], 0)
    <3> SUFFICES ASSUME i < m PROVE Formed(bl, i + 1) => ret[i + 1] = AsRead(bl[i + 1], 0)
      BY <1>10, Zenon
    <3>1. i + 1 \in 1 .. m /\ i + 1 \in DOMAIN ret /\ i + 1 > i
      <4> HIDE DEF m
      <4> QED BY <1>2, <1>4
    <3>2. bl[i + 1] \in Blocks
      <4> HIDE DEF Blocks
      <4> QED BY <3>1, ElementOfSeq
    <3>3. AsRead(bl[i + 1], 0) = Unread
      <4> HIDE DEF Blocks
      <4> QED BY <3>2, PartsRead
    <3> QED BY <1>8, <3>1, <3>3, Zenon
  <2>5. i = m => Len(buffer) < x'
    BY <1>10, <2>1, Zenon
  <2>6. cur_count' = i
    BY <1>10
  <2> HIDE DEF m, i
  <2> QED BY <1>1, <1>4, <1>8, <1>10, <2>1, <2>2, <2>3, <2>4, <2>5, <2>6, Zenon DEF Reader, m
<1>11. \/ /\ cur_count' = cur_count
          /\ \E k : Stage(bl, i, k, cur_line', x', load_old_format') /\ Turned(bl, i, n, k)
       \/ /\ cur_count' = cur_count + 1 /\ ret' = ret /\ AsRead(bl[i], n) = AsRead(bl[i], 3)
          /\ IF i < m THEN Stage(bl, i + 1, 0, cur_line', x', load_old_format') ELSE Len(buffer) < x'
  BY <1>6, <1>7, StageStep
<1> QED BY <1>9, <1>10, <1>11, Zenon

\* The reader begins at the first code, with nothing read.
LEMMA ReaderOpen ==
  ASSUME TypeInv, Open, load_old_format = FALSE, NEW bl, bl = blocks
  PROVE  Reader(bl)'
<1> DEFINE l == AllLines(bl)
           m == Len(bl)
<1>1. PICK behind \in Behind : buffer' = readFileBuffered(FileText, behind)
  BY Zenon DEF Open
<1>2. /\ code_count' = CountOf(buffer', {"#", "}"}) /\ ret' = [i \in 1 .. code_count' |-> Unread]
      /\ x' = x /\ cur_count' = cur_count /\ cur_line' = cur_line /\ load_old_format' = load_old_format
      /\ pc = "open"
  BY DEF Open
<1>3. x' = 1 /\ cur_count' = 0 /\ cur_line' = 0 /\ load_old_format' = FALSE
  <2>1. x = 1 /\ cur_count = 0 /\ cur_line = 0
    BY <1>2 DEF TypeInv
  <2> QED BY <1>2, <2>1
<1>4. bl \in Seq(Blocks) /\ eol \in Ends /\ FileText = Lined(l, eol) /\ l \in Seq(Lines)
  <2>1. file \in Files
    BY DEF TypeInv
  <2> HIDE DEF Blocks
  <2> QED BY <2>1, FileIs, AllLinesType
<1>5. behind \in Text
  BY TextsAssumption
<1>6. Read(buffer', l)
  <2> HIDE DEF l
  <2>1. Read(readFileBuffered(Lined(l, eol), behind), l)
    BY <1>4, <1>5, FileIsRead
  <2> QED BY <1>1, <1>4, <2>1, Zenon
<1>7. /\ m \in Nat /\ m <= code_count' /\ ((\A i \in 1 .. m : CleanCode(bl[i])) => code_count' = m)
  <2>1. code_count' = CountOf(buffer', Breaks)
    BY <1>2 DEF Breaks
  <2> QED BY <1>4, <1>6, <2>1, BreaksAre, Zenon
<1>8. code_count' \in Nat
  <2>1. buffer' \in Text
    BY <1>6, Zenon DEF Read
  <2> QED BY <1>2, <2>1, CountNat, Zenon
<1>9. DOMAIN ret' = 1 .. code_count' /\ \A j \in DOMAIN ret' : ret'[j] = Unread
  BY <1>2
<1>10. ASSUME 0 < m
       PROVE  /\ Stage(bl, 1, 0, cur_line', x', load_old_format')
              /\ ret'[1] = AsRead(bl[1], 0)
  <2>1. 1 \in 1 .. m /\ 1 \in DOMAIN ret'
    <3> HIDE DEF m
    <3> QED BY <1>7, <1>8, <1>9, <1>10
  <2>2. CodeBegin(bl, 1) = 1
    <3>1. FirstLine(bl, 1) = 1
      BY <1>4, RowFirst
    <3>2. l \in Seq(Text)
      BY <1>4, AllLinesType
    <3> HIDE DEF l
    <3>3. Upto(l)[0] = <<>>
      BY <3>2, UptoIs, Zenon DEF Pieces
    <3>4. Start(l, 1) = 1
      <4>1. 1 - 1 = 0 /\ Len(<<>>) = 0 /\ 0 + 1 = 1
        OBVIOUS
      <4> QED BY <3>3, <4>1, Zenon DEF Start
    <3> QED BY <3>1, <3>4, Zenon DEF CodeBegin, l
  <2>3. OldBefore(bl, 1) = FALSE
    <3>1. ~(1 > 1)
      OBVIOUS
    <3> QED BY <3>1 DEF OldBefore
  <2>4. Stage(bl, 1, 0, cur_line', x', load_old_format')
    BY <1>3, <1>4, <1>6, <2>1, <2>2, <2>3, FirstStage, Zenon
  <2>5. bl[1] \in Blocks
    <3> HIDE DEF Blocks
    <3> QED BY <1>4, <2>1, ElementOfSeq
  <2>6. AsRead(bl[1], 0) = Unread
    <3> HIDE DEF Blocks
    <3> QED BY <2>5, PartsRead
  <2> QED BY <1>9, <2>1, <2>4, <2>6, Zenon
<1>11. ASSUME 0 = m PROVE Len(buffer') < x'
  <2>1. l = <<>>
    <3>1. /\ Pieces(Rows(bl), AllWritten(bl), Lines) /\ l = Rows(bl)[Len(AllWritten(bl))]
      BY <1>4, RowsIs
    <3>2. Len(AllWritten(bl)) = m
      BY <1>4, AllWrittenType
    <3> QED BY <1>11, <3>1, <3>2, Zenon DEF Pieces
  <2>2. Whole(<<>>) = <<>>
    <3>1. <<>> \in Seq(Text) /\ Len(<<>>) = 0
      OBVIOUS
    <3>2. Pieces(Upto(<<>>), Ended(<<>>, <<"\n">>), Chars) /\ Whole(<<>>) = Upto(<<>>)[0]
      BY <3>1, UptoIs
    <3> QED BY <3>2, Zenon DEF Pieces
  <2>3. buffer' \in Text /\ Begins(buffer', <<>>)
    BY <1>6, <2>1, <2>2, Zenon DEF Read
  <2>4. Len(buffer') \in Nat
    BY <2>3, LenProperties DEF Text
  <2>5. Len(buffer') <= Len(<<>>) /\ Len(<<>>) = 0
    BY <2>3 DEF Begins
  <2> QED BY <1>3, <2>4, <2>5
<1>12. /\ cur_count' <= m
       /\ \A j \in 1 .. cur_count' : FALSE
       /\ cur_count' < m => 0 < m
       /\ cur_count' = m => 0 = m
       /\ cur_count' + 1 = 1
  <2> HIDE DEF m
  <2> QED BY <1>3, <1>7
<1> HIDE DEF m, l
<1>13. cur_count' < m => \E n : /\ Stage(bl, cur_count' + 1, n, cur_line', x', load_old_format')
                                /\ Formed(bl, cur_count' + 1) => ret'[cur_count' + 1] = AsRead(bl[cur_count' + 1], n)
  BY <1>10, <1>12, Zenon
<1>14. cur_count' = m => Len(buffer') < x'
  BY <1>11, <1>12, Zenon
<1> QED BY <1>6, <1>7, <1>9, <1>12, <1>13, <1>14, Zenon DEF Reader, m, l

\* A file is read to its last code.
ReadInv ==
  /\ pc \in {"list", "open"} => load_old_format = FALSE
  /\ Readable /\ (pc = "read" \/ Loaded) => Reader(blocks)
  /\ Readable /\ Loaded => cur_count = Len(blocks)

LEMMA ReadableIs == Readable <=> \A i \in DOMAIN blocks : ReadableCode(blocks[i])
PROOF BY Zenon DEF Readable, ReadableCode

LEMMA ReadInit == Init => ReadInv
PROOF BY DEF Init, ReadInv, Loaded

\* Behind the reader nothing touches what it has read.
LEMMA ReadKeeps ==
  ASSUME ReadInv, UNCHANGED <<file, readVars, x>>,
         pc' \in {"list", "open"} => pc \in {"list", "open"},
         pc' # "read" \/ pc = "read", Loaded' => Loaded
  PROVE  ReadInv'
<1>1. PICK bl : bl = blocks
  OBVIOUS
<1>2. /\ blocks' = bl /\ (Readable' <=> Readable) /\ load_old_format' = load_old_format
      /\ cur_count' = cur_count
  BY <1>1 DEF blocks, Readable, readVars
<1>3. Reader(bl) => Reader(bl)'
  BY DEF Reader, readVars
<1>4. /\ pc' \in {"list", "open"} => load_old_format' = FALSE
      /\ Readable' /\ (pc' = "read" \/ Loaded') => Reader(bl)'
      /\ Readable' /\ Loaded' => cur_count' = Len(bl)
  BY <1>1, <1>2, <1>3, Zenon DEF ReadInv
<1>5. (Reader(blocks))' <=> Reader(bl)'
  BY <1>2 DEF Reader
<1> QED BY <1>2, <1>4, <1>5, Zenon DEF ReadInv

\* The reader stops behind the last code only.
AtFileEnd == cur_count = code_count \/ x > Len(buffer)

LEMMA ReadEnds ==
  ASSUME TypeInv, NEW bl \in Seq(Blocks), \A i \in 1 .. Len(bl) : ReadableCode(bl[i]),
         Reader(bl), AtFileEnd
  PROVE  cur_count = Len(bl)
<1> DEFINE m == Len(bl)
<1>1. /\ cur_count \in Nat /\ code_count \in Nat /\ x \in Nat /\ Len(buffer) \in Nat /\ m \in Nat
  <2>1. Len(buffer) \in Nat /\ m \in Nat
    BY LenProperties DEF TypeInv, Text
  <2> HIDE DEF m
  <2> QED BY <2>1 DEF TypeInv
<1>2. m <= code_count /\ cur_count <= m /\ Read(buffer, AllLines(bl))
  BY Zenon DEF Reader
<1>3. ASSUME cur_count < m PROVE FALSE
  <2> DEFINE i == cur_count + 1
  <2>1. PICK n : Stage(bl, i, n, cur_line, x, load_old_format)
    BY <1>3, Zenon DEF Reader
  <2>2. i \in 1 .. m
    <3> HIDE DEF m
    <3> QED BY <1>1, <1>3
  <2>3. Within(bl, i)
    BY <1>2, <2>2, Zenon DEF Within
  <2>4. x \in 1 .. Len(buffer)
    BY <2>1, <2>3, StagePlace
  <2>5. ~(x > Len(buffer)) /\ cur_count # code_count
    <3> HIDE DEF m
    <3> QED BY <1>1, <1>2, <1>3, <2>4
  <2> QED BY <2>5, Zenon DEF AtFileEnd
<1> HIDE DEF m
<1>4. cur_count = m
  BY <1>1, <1>2, <1>3
<1> QED BY <1>4 DEF m

LEMMA ReadNext == TypeInv /\ ReadInv /\ [Next]_vars => ReadInv'
<1> SUFFICES ASSUME TypeInv, ReadInv, [Next]_vars PROVE ReadInv'
  OBVIOUS
<1>1. CASE UNCHANGED vars
  <2>1. UNCHANGED <<file, readVars, x, pc>>
    BY <1>1 DEF vars
  <2> QED BY <2>1, ReadKeeps DEF Loaded
<1>2. CASE ListFile
  <2>1. UNCHANGED <<file, readVars, x>> /\ pc = "list" /\ pc' = "open"
    BY <1>2 DEF ListFile
  <2> QED BY <2>1, ReadKeeps DEF Loaded
<1>3. CASE ChooseOptions
  <2>1. UNCHANGED <<file, readVars, x>> /\ pc = "loaded"
    BY <1>3, Zenon DEF ChooseOptions
  <2>2. pc' \in {pc, "export", "lost"}
    BY <1>3, Zenon DEF ChooseOptions
  <2> QED BY <2>1, <2>2, ReadKeeps DEF Loaded
<1>4. CASE Export
  <2>1. UNCHANGED <<file, readVars, x>> /\ pc = "export"
    BY <1>4, Zenon DEF Export
  <2>2. pc' = "lost" \/ pc' = pc
    BY <1>4, Zenon DEF Export
  <2> QED BY <2>1, <2>2, ReadKeeps DEF Loaded
<1>5. CASE Exported
  <2>1. UNCHANGED <<file, readVars, x>> /\ pc = "export" /\ pc' = "exported"
    BY <1>5 DEF Exported
  <2> QED BY <2>1, ReadKeeps DEF Loaded
<1>6. PICK bl : bl = blocks
  OBVIOUS
<1>7. bl \in Seq(Blocks) /\ DOMAIN bl = 1 .. Len(bl)
  <2>1. file \in Files
    BY DEF TypeInv
  <2>2. bl \in Seq(Blocks)
    <3> HIDE DEF Blocks
    <3> QED BY <1>6, <2>1, FileIs
  <2> HIDE DEF Blocks
  <2> QED BY <2>2, LenProperties
<1>8. Readable => \A i \in 1 .. Len(bl) : ReadableCode(bl[i])
  BY <1>6, <1>7, ReadableIs, Zenon
<1>9. ASSUME file' = file
      PROVE  /\ blocks' = bl /\ (Readable' <=> Readable)
             /\ (Reader(blocks))' <=> Reader(bl)'
  <2>1. blocks' = bl /\ (Readable' <=> Readable)
    BY <1>6, <1>9 DEF blocks, Readable
  <2>2. (Reader(blocks))' <=> Reader(bl)'
    BY <2>1 DEF Reader
  <2> QED BY <2>1, <2>2
<1>10. CASE Open
  <2>1. pc = "open" /\ pc' \in {"null", "read"} /\ file' = file /\ load_old_format = FALSE
    <3>1. pc = "open" /\ pc' \in {"null", "read"} /\ file' = file
      BY <1>10 DEF Open
    <3> QED BY <3>1 DEF ReadInv
  <2>2. Reader(bl)'
    BY <1>6, <1>10, <2>1, ReaderOpen
  <2>3. pc' \notin {"list", "open"} /\ ~Loaded'
    BY <2>1 DEF Loaded
  <2> QED BY <1>9, <2>1, <2>2, <2>3, Zenon DEF ReadInv
<1>11. CASE ReadStep
  <2>1. pc = "read" /\ pc' = "read" /\ file' = file
    BY <1>11, ByChar
  <2>2. Readable => Reader(bl)
    BY <1>6, <2>1, Zenon DEF ReadInv
  <2>3. Readable => Reader(bl)'
    <3> HIDE DEF Blocks
    <3> QED BY <1>7, <1>8, <1>11, <2>2, ReaderStep
  <2>4. pc' \notin {"list", "open"} /\ ~Loaded'
    BY <2>1 DEF Loaded
  <2> QED BY <1>9, <2>1, <2>3, <2>4, Zenon DEF ReadInv
<1>12. CASE EndOfFile
  <2>1. /\ pc = "read" /\ pc' = "loaded" /\ file' = file /\ UNCHANGED <<readVars, x>>
        /\ cur_count = code_count \/ x > Len(buffer)
    BY <1>12 DEF EndOfFile
  <2>2. Readable => Reader(bl)
    BY <1>6, <2>1, Zenon DEF ReadInv
  <2>3. Readable => Reader(bl)'
    <3>1. Reader(bl) => Reader(bl)'
      BY <2>1 DEF Reader, readVars
    <3> QED BY <2>2, <3>1
  <2>4. Readable => cur_count = Len(bl)
    <3> SUFFICES ASSUME Readable PROVE cur_count = Len(bl)
      OBVIOUS
    <3>1. \A i \in 1 .. Len(bl) : ReadableCode(bl[i])
      BY <1>8, Zenon
    <3>2. Reader(bl) /\ bl \in Seq(Blocks) /\ AtFileEnd
      BY <1>7, <2>1, <2>2, Zenon DEF AtFileEnd
    <3> QED BY <3>1, <3>2, ReadEnds, Zenon
  <2>5. pc' \notin {"list", "open"} /\ pc' = "loaded" /\ cur_count' = cur_count
    BY <2>1 DEF readVars
  <2> QED BY <1>9, <2>1, <2>3, <2>4, <2>5, Zenon DEF ReadInv
<1> QED BY <1>1, <1>2, <1>3, <1>4, <1>5, <1>10, <1>11, <1>12, Zenon DEF Next, ReadStep

\* What the invariant says of a file that is read.
LEMMA ReadHolds == TypeInv /\ ReadInv => ReadAsWritten
<1> SUFFICES ASSUME TypeInv, ReadInv, Loaded, Readable PROVE ReadAsWritten
  BY Zenon DEF ReadAsWritten
<1>1. PICK bl : bl = blocks
  OBVIOUS
<1>2. Reader(bl) /\ cur_count = Len(bl)
  BY <1>1, Zenon DEF ReadInv
<1>3. bl \in Seq(Blocks) /\ DOMAIN bl = 1 .. Len(bl) /\ Len(bl) \in Nat
  <2>1. file \in Files
    BY DEF TypeInv
  <2>2. bl \in Seq(Blocks)
    <3> HIDE DEF Blocks
    <3> QED BY <1>1, <2>1, FileIs
  <2> HIDE DEF Blocks
  <2> QED BY <2>2, LenProperties
<1>4. /\ Len(bl) <= code_count /\ ((\A i \in 1 .. Len(bl) : CleanCode(bl[i])) => code_count = Len(bl))
      /\ \A j \in 1 .. Len(bl) : Formed(bl, j) => ret[j] = AsRead(bl[j], 3)
      /\ \A j \in DOMAIN ret : j > Len(bl) => ret[j] = Unread
  BY <1>2, Zenon DEF Reader
<1>5. Clean => \A i \in 1 .. Len(bl) : CleanCode(bl[i])
  <2> SUFFICES ASSUME Clean, NEW i \in 1 .. Len(bl) PROVE CleanCode(bl[i])
    OBVIOUS
  <2>1. Unmarked(bl[i].body)
    BY <1>1, <1>3, Zenon DEF Clean, Readable
  <2> DEFINE names == [j \in DOMAIN blocks |-> blocks[j].name]
  <2>2. names[i] \in ToSet(names)
    BY <1>1, <1>3 DEF ToSet
  <2>3. names[i] = bl[i].name
    BY <1>1, <1>3
  <2>4. Unmarked(names)
    BY Zenon DEF Clean
  <2>5. ToSet(names[i]) \cap Marks = {}
    <3> HIDE DEF names
    <3> QED BY <2>2, <2>4, Zenon DEF Unmarked
  <2> QED BY <2>1, <2>3, <2>5, Zenon DEF CleanCode
<1>6. ASSUME NEW i \in DOMAIN ret, i \in 1 .. Len(bl), InForm(i)
      PROVE  ret[i] = [name |-> blocks[i].name, cwrite |-> blocks[i].mark = "1",
                       codes |-> Lined(blocks[i].body, <<"\n">>)]
  <2>1. Formed(bl, i)
    <3>1. i = 1 => ~(i > 1)
      BY <1>3
    <3> QED BY <1>1, <1>6, <3>1, Zenon DEF InForm, Formed, OldBefore
  <2>2. ret[i] = AsRead(bl[i], 3)
    BY <1>4, <1>6, <2>1
  <2>3. AsRead(bl[i], 3) = Made(bl[i].name, bl[i].mark = "1", Whole(bl[i].body))
    <3>1. 3 # 0 /\ 3 # 1 /\ 3 # 2
      OBVIOUS
    <3> QED BY <3>1, Zenon DEF AsRead
  <2> QED BY <1>1, <2>2, <2>3, Zenon DEF Made, Whole
<1>7. ASSUME NEW i \in DOMAIN ret PROVE i > Len(bl) \/ i \in 1 .. Len(bl)
  <2>1. DOMAIN ret = 1 .. code_count /\ code_count \in Nat
    BY DEF TypeInv
  <2> QED BY <1>3, <2>1
<1>8. \A i \in DOMAIN ret :
        IF i > Len(bl) THEN ret[i] = Unread
        ELSE InForm(i) => ret[i] = [name |-> blocks[i].name, cwrite |-> blocks[i].mark = "1",
                                    codes |-> Lined(blocks[i].body, <<"\n">>)]
  BY <1>4, <1>6, <1>7, Zenon
<1> QED BY <1>1, <1>4, <1>5, <1>8, Zenon DEF ReadAsWritten

\* ReadNCL finds in a file what was written there: whatever the lengths of its lines and
\* the number of its codes, and whatever byte lies behind the buffer.
THEOREM AlwaysReadAsWritten == Spec => []ReadAsWritten
<1>1. Init => TypeInv /\ ReadInv
  BY TypeInit, ReadInit
<1>2. TypeInv /\ ReadInv /\ [Next]_vars => (TypeInv /\ ReadInv)'
  BY TypeNext, ReadNext
<1>3. TypeInv /\ ReadInv => ReadAsWritten
  BY ReadHolds
<1> QED BY <1>1, <1>2, <1>3, PTL DEF Spec

-----------------------------------------------------------------------------
(* The words of a name and where they are                                  *)

IsBlank(c) == c = " "
In(W, st, i, z) == st[i] <= z /\ z < st[i] + Len(W[i])

\* The words W[i] with i in I, and nothing else but blanks, are in s, in this order,
\* with a blank at least between them; st[i] is the place of W[i].
WordsAt(s, W, I, st) ==
  /\ I \subseteq 1 .. Len(W) /\ st \in [1 .. Len(W) -> Int]
  /\ \A i \in I : 1 <= st[i] /\ st[i] + Len(W[i]) <= Len(s) + 1
  /\ \A i \in I : \A k \in 1 .. Len(W[i]) : s[st[i] + (k - 1)] = W[i][k]
  /\ \A i, j \in I : i < j => st[i] + Len(W[i]) < st[j]
  /\ \A z \in 1 .. Len(s) : IsBlank(s[z]) \/ \E i \in I : In(W, st, i, z)

\* A word has no blank.
LEMMA NoBlank == \A c \in NameChars : ~IsBlank(c)
PROOF BY Zenon DEF NameChars, Letters, Digits, IsBlank

\* A word has a character at least.
LEMMA WordIs ==
  ASSUME NEW W \in Seq(Word), NEW i \in 1 .. Len(W)
  PROVE  W[i] \in Seq(NameChars) /\ Len(W[i]) \in Nat \ {0} /\ \A k \in 1 .. Len(W[i]) : W[i][k] \in NameChars
<1>1. W[i] \in Word
  OBVIOUS
<1>2. W[i] \in Seq(NameChars) /\ W[i] # <<>>
  BY <1>1, Zenon DEF Word
<1> DEFINE w == W[i]
<1> HIDE DEF w
<1>3. w \in Seq(NameChars) /\ w # <<>>
  BY <1>2 DEF w
<1>4. Len(w) \in Nat \ {0} /\ \A k \in 1 .. Len(w) : w[k] \in NameChars
  BY <1>3
<1> QED BY <1>3, <1>4 DEF w

\* What is in a word is no blank.
LEMMA InIs ==
  ASSUME NEW W \in Seq(Word), NEW s, NEW I, NEW st, WordsAt(s, W, I, st), NEW i \in I, NEW z \in Int, In(W, st, i, z)
  PROVE  /\ z - st[i] + 1 \in 1 .. Len(W[i]) /\ s[z] = W[i][z - st[i] + 1]
         /\ ~IsBlank(s[z])
<1>1. i \in 1 .. Len(W) /\ st[i] \in Int /\ Len(W) \in Nat
  BY DEF WordsAt
<1>2. Len(W[i]) \in Nat /\ \A k \in 1 .. Len(W[i]) : W[i][k] \in NameChars
  BY <1>1, WordIs
<1>3. z - st[i] + 1 \in 1 .. Len(W[i]) /\ st[i] + ((z - st[i] + 1) - 1) = z
  BY <1>1, <1>2 DEF In
<1>4. s[st[i] + ((z - st[i] + 1) - 1)] = W[i][z - st[i] + 1]
  BY <1>3, Zenon DEF WordsAt
<1>5. s[z] = W[i][z - st[i] + 1]
  BY <1>3, <1>4
<1> QED BY <1>2, <1>3, <1>5, NoBlank, Zenon

\* A word ends at a blank or the end, and begins behind a blank or at the front.
LEMMA AroundWord ==
  ASSUME NEW W \in Seq(Word), NEW s, Len(s) \in Nat, NEW I, NEW st, WordsAt(s, W, I, st), NEW i \in I
  PROVE  /\ st[i] + Len(W[i]) <= Len(s) => IsBlank(s[st[i] + Len(W[i])])
         /\ 1 < st[i] => IsBlank(s[st[i] - 1])
<1>1. I \subseteq 1 .. Len(W) /\ Len(W) \in Nat
  BY DEF WordsAt
<1>2. \A j \in I : st[j] \in Int /\ Len(W[j]) \in Nat \ {0} /\ 1 <= st[j] /\ j \in Int
  <2> SUFFICES ASSUME NEW j \in I PROVE st[j] \in Int /\ Len(W[j]) \in Nat \ {0} /\ 1 <= st[j] /\ j \in Int
    OBVIOUS
  <2>1. j \in 1 .. Len(W)
    BY <1>1
  <2>2. st[j] \in Int /\ 1 <= st[j] /\ j \in Int
    BY <2>1 DEF WordsAt
  <2>3. Len(W[j]) \in Nat \ {0}
    BY <2>1, WordIs
  <2> QED BY <2>2, <2>3
<1>3. \A j, k \in I : j < k => st[j] + Len(W[j]) < st[k]
  BY Zenon DEF WordsAt
<1>4. ASSUME NEW j \in I PROVE ~In(W, st, j, st[i] + Len(W[i])) /\ ~In(W, st, j, st[i] - 1)
  <2>1. CASE j < i
    <3>1. st[j] + Len(W[j]) < st[i]
      BY <1>3, <2>1
    <3> QED BY <1>2, <3>1 DEF In
  <2>2. CASE i < j
    <3>1. st[i] + Len(W[i]) < st[j]
      BY <1>3, <2>2
    <3> QED BY <1>2, <3>1 DEF In
  <2>3. CASE i = j
    BY <1>2, <2>3 DEF In
  <2> QED BY <1>2, <2>1, <2>2, <2>3
<1>5. \A z \in 1 .. Len(s) : IsBlank(s[z]) \/ \E j \in I : In(W, st, j, z)
  BY Zenon DEF WordsAt
<1>6. st[i] + Len(W[i]) <= Len(s) => st[i] + Len(W[i]) \in 1 .. Len(s)
  BY <1>2
<1>7. 1 < st[i] => st[i] - 1 \in 1 .. Len(s)
  <2>1. st[i] + Len(W[i]) <= Len(s) + 1
    BY Zenon DEF WordsAt
  <2> QED BY <1>2, <2>1
<1> QED BY <1>4, <1>5, <1>6, <1>7, Zenon

\* n kinds of characters, of which none has the blank.
KindsAre(kinds, n) ==
  /\ n \in Nat \ {0} /\ Len(kinds) = n /\ DOMAIN kinds = 1 .. n
  /\ \A k \in 1 .. n : \A c \in kinds[k] : ~IsBlank(c)

\* What is found in the text and has no blank is found in one word.
LEMMA WithinWord ==
  ASSUME NEW W \in Seq(Word), NEW s, Len(s) \in Nat, NEW I, NEW st, WordsAt(s, W, I, st),
         NEW kinds, NEW n, KindsAre(kinds, n),
         NEW z \in Nat \ {0}, Fits(s, z, kinds)
  PROVE  \E q \in I : \E k \in 1 .. Len(W[q]) : z = st[q] + (k - 1) /\ Fits(W[q], k, kinds)
<1>0. n \in Nat \ {0} /\ Len(kinds) = n /\ DOMAIN kinds = 1 .. n
  BY Zenon DEF KindsAre
<1>1. z + (n - 1) <= Len(s) /\ \A k \in 1 .. n : s[z + (k - 1)] \in kinds[k]
  BY <1>0 DEF Fits
<1>2. \A k \in 1 .. n : ~IsBlank(s[z + (k - 1)])
  BY <1>1, Zenon DEF KindsAre
<1>3. z \in 1 .. Len(s) /\ ~IsBlank(s[z])
  <2>1. 1 \in 1 .. n /\ z + (1 - 1) = z /\ z \in 1 .. Len(s)
    BY <1>0, <1>1
  <2>2. ~IsBlank(s[z + (1 - 1)])
    BY <1>2, <2>1
  <2> QED BY <2>1, <2>2
<1>4. PICK q \in I : In(W, st, q, z)
  BY <1>3, Zenon DEF WordsAt
<1> DEFINE L == Len(W[q])
           a == st[q]
           k == z - a + 1
<1>5. q \in 1 .. Len(W) /\ a \in Int
  BY DEF WordsAt
<1>6. L \in Nat \ {0}
  BY <1>5, WordIs
<1>7. a <= z /\ z < a + L /\ a + L <= Len(s) + 1
  BY <1>4 DEF WordsAt, In
<1>8. a + L <= Len(s) => IsBlank(s[a + L])
  BY AroundWord
<1>9. \A j \in 1 .. L : s[a + (j - 1)] = W[q][j]
  BY Zenon DEF WordsAt
<1> HIDE DEF a, L
<1>10. z + (n - 1) < a + L
  <2> SUFFICES ASSUME ~(z + (n - 1) < a + L) PROVE FALSE
    OBVIOUS
  <2>1. (a + L) - z + 1 \in 1 .. n /\ z + (((a + L) - z + 1) - 1) = a + L /\ a + L <= Len(s)
    BY <1>0, <1>1, <1>5, <1>6, <1>7
  <2> QED BY <1>2, <1>8, <2>1
<1>11. k \in 1 .. L /\ z = a + (k - 1) /\ k + (n - 1) <= L
  BY <1>0, <1>5, <1>6, <1>7, <1>10
<1>12. \A j \in 1 .. n : W[q][k + (j - 1)] \in kinds[j]
  <2> SUFFICES ASSUME NEW j \in 1 .. n PROVE W[q][k + (j - 1)] \in kinds[j]
    OBVIOUS
  <2>1. k + (j - 1) \in 1 .. L /\ a + ((k + (j - 1)) - 1) = z + (j - 1)
    BY <1>0, <1>5, <1>6, <1>11
  <2> QED BY <1>1, <1>9, <2>1
<1>13. Fits(W[q], k, kinds)
  BY <1>0, <1>11, <1>12 DEF Fits, L
<1> QED BY <1>11, <1>13 DEF a, L

\* What is found in a word is found in the text.
LEMMA FitsIn ==
  ASSUME NEW W \in Seq(Word), NEW s, Len(s) \in Nat, NEW I, NEW st, WordsAt(s, W, I, st),
         NEW kinds, NEW n, KindsAre(kinds, n),
         NEW q \in I, NEW k \in 1 .. Len(W[q]), Fits(W[q], k, kinds)
  PROVE  Fits(s, st[q] + (k - 1), kinds)
<1>0. n \in Nat \ {0} /\ Len(kinds) = n /\ DOMAIN kinds = 1 .. n
  BY Zenon DEF KindsAre
<1> DEFINE L == Len(W[q])
           a == st[q]
<1>1. q \in 1 .. Len(W) /\ a \in Int /\ a + L <= Len(s) + 1
  BY DEF WordsAt
<1>2. L \in Nat
  BY <1>1, WordIs
<1>3. \A j \in 1 .. L : s[a + (j - 1)] = W[q][j]
  BY Zenon DEF WordsAt
<1>4. k + (n - 1) <= L /\ \A j \in 1 .. n : W[q][k + (j - 1)] \in kinds[j]
  BY <1>0 DEF Fits
<1>5. k \in 1 .. L
  OBVIOUS
<1> HIDE DEF a, L
<1>6. (a + (k - 1)) + (n - 1) <= Len(s)
  BY <1>0, <1>1, <1>2, <1>4, <1>5
<1>7. \A j \in 1 .. n : s[(a + (k - 1)) + (j - 1)] \in kinds[j]
  <2> SUFFICES ASSUME NEW j \in 1 .. n PROVE s[(a + (k - 1)) + (j - 1)] \in kinds[j]
    OBVIOUS
  <2>1. k + (j - 1) \in 1 .. L /\ a + ((k + (j - 1)) - 1) = (a + (k - 1)) + (j - 1)
    BY <1>0, <1>1, <1>2, <1>4, <1>5
  <2> QED BY <1>3, <1>4, <2>1
<1> QED BY <1>0, <1>6, <1>7 DEF Fits, a

-----------------------------------------------------------------------------
(* The title id                                                            *)

\* A function on 1 .. n is a sequence.
LEMMA FewSeq ==
  ASSUME NEW S, NEW n \in Nat, NEW f \in [1 .. n -> S]
  PROVE  f \in Seq(S) /\ Len(f) = n /\ DOMAIN f = 1 .. n
<1>1. f \in Seq(S)
  BY IsASeq
<1> QED BY <1>1

\* A title id has no blank, and neither has a version.
LEMMA TitleKinds == KindsAre(TitleIDKinds, 9)
<1>1. \A k \in 1 .. 9 : TitleIDKinds[k] \subseteq NameChars
  BY DEF TitleIDKinds, NameChars
<1>2. \A k \in 1 .. 9 : \A c \in TitleIDKinds[k] : ~IsBlank(c)
  BY <1>1, NoBlank, Zenon
<1>3. TitleIDKinds \in [1 .. 9 -> {Letters, Digits}] /\ 9 \in Nat \ {0} /\ 9 \in Nat
  BY DEF TitleIDKinds
<1>4. Len(TitleIDKinds) = 9 /\ DOMAIN TitleIDKinds = 1 .. 9
  BY <1>3, FewSeq, Zenon
<1> QED BY <1>2, <1>3, <1>4, Zenon DEF KindsAre

\* The first word with a title id in it is found, if it is one.
LEMMA FindsTitle ==
  ASSUME NEW W \in Seq(Word), NEW s, Len(s) \in Nat, NEW I, NEW st, WordsAt(s, W, I, st),
         NEW m \in I, IsTitleID(W[m]), \A i \in I : HasTitleID(W[i]) => m <= i
  PROVE  /\ parseVTID_ParseTitleID(s) = st[m] /\ st[m] # 0
         /\ \A k \in 1 .. 9 : s[st[m] + (k - 1)] = W[m][k]
<1> DEFINE hits == {i \in 1 .. Len(s) - 8 : Fits(s, i, TitleIDKinds)}
           a == st[m]
<1>1. I \subseteq 1 .. Len(W) /\ Len(W) \in Nat
  BY DEF WordsAt
<1>2. /\ \A i \in I : st[i] \in Int /\ 1 <= st[i] /\ i \in Int
      /\ \A i \in I : st[i] + Len(W[i]) <= Len(s) + 1
      /\ \A i, j \in I : i < j => st[i] + Len(W[i]) < st[j]
  <2>1. st \in [1 .. Len(W) -> Int] /\ \A i \in I : 1 <= st[i] /\ st[i] + Len(W[i]) <= Len(s) + 1
    BY Zenon DEF WordsAt
  <2>2. \A i, j \in I : i < j => st[i] + Len(W[i]) < st[j]
    BY Zenon DEF WordsAt
  <2>3. \A i \in I : st[i] \in Int /\ i \in Int
    BY <1>1, <2>1
  <2> QED BY <2>1, <2>2, <2>3, Zenon
<1>3. Len(W[m]) = 9 /\ Fits(W[m], 1, TitleIDKinds)
  BY Zenon DEF IsTitleID
<1>4. a \in hits
  <2>1. 1 \in 1 .. Len(W[m])
    BY <1>3
  <2>2. Fits(s, a + (1 - 1), TitleIDKinds)
    BY <1>3, <2>1, TitleKinds, FitsIn, Zenon
  <2>a. a \in Int /\ 1 <= a /\ a + 9 <= Len(s) + 1
    BY <1>2, <1>3
  <2>3. a + (1 - 1) = a /\ a \in 1 .. Len(s) - 8
    BY <2>a
  <2> QED BY <2>2, <2>3
<1>5. ASSUME NEW i \in hits PROVE a <= i
  <2>1. i \in Nat \ {0} /\ Fits(s, i, TitleIDKinds)
    OBVIOUS
  <2>2. PICK q \in I : \E k \in 1 .. Len(W[q]) : i = st[q] + (k - 1) /\ Fits(W[q], k, TitleIDKinds)
    BY <2>1, TitleKinds, WithinWord
  <2>k. PICK k \in 1 .. Len(W[q]) : i = st[q] + (k - 1) /\ Fits(W[q], k, TitleIDKinds)
    BY <2>2
  <2>3. Len(W[q]) \in Nat /\ DOMAIN W[q] = 1 .. Len(W[q])
    <3>1. q \in 1 .. Len(W)
      BY <1>1
    <3>2. W[q] \in Seq(NameChars) /\ Len(W[q]) \in Nat
      BY <3>1, WordIs
    <3> QED BY <3>2
  <2>4. HasTitleID(W[q])
    BY <2>k, <2>3, Zenon DEF HasTitleID
  <2>5. m <= q
    BY <2>4
  <2>6. CASE m = q
    BY <1>2, <2>k, <2>3, <2>6
  <2>7. CASE m # q
    <3>1. m < q
      BY <1>2, <2>5, <2>7
    <3>2. a + 9 < st[q]
      BY <1>2, <1>3, <3>1
    <3> QED BY <1>2, <2>k, <2>3, <3>2
  <2> QED BY <2>6, <2>7
<1>6. hits # {} /\ hits \subseteq Int
  BY <1>4
<1> HIDE DEF hits, a
<1>7. Min(hits) \in hits /\ \A y \in hits : Min(hits) <= y
  <2>1. \E h \in hits : \A y \in hits : h <= y
    BY <1>4, <1>5
  <2> QED BY <2>1, Zenon DEF Min
<1>8. Min(hits) = a
  <2>1. a <= Min(hits) /\ Min(hits) <= a
    BY <1>4, <1>5, <1>7, Zenon
  <2>2. a \in Int /\ Min(hits) \in Int
    BY <1>4, <1>6, <1>7
  <2> QED BY <2>1, <2>2
<1>9. parseVTID_ParseTitleID(s) = a
  BY <1>6, <1>8, Zenon DEF parseVTID_ParseTitleID, hits
<1>10. \A k \in 1 .. 9 : s[st[m] + (k - 1)] = W[m][k]
  BY <1>3, Zenon DEF WordsAt
<1>11. a # 0
  BY <1>2 DEF a
<1> QED BY <1>9, <1>10, <1>11 DEF a

\* Nothing is found where no word has one.
LEMMA FindsNoTitle ==
  ASSUME NEW W \in Seq(Word), NEW s, Len(s) \in Nat, NEW I, NEW st, WordsAt(s, W, I, st),
         \A i \in I : ~HasTitleID(W[i])
  PROVE  parseVTID_ParseTitleID(s) = 0
<1> DEFINE hits == {i \in 1 .. Len(s) - 8 : Fits(s, i, TitleIDKinds)}
<1>1. I \subseteq 1 .. Len(W)
  BY DEF WordsAt
<1>2. ASSUME NEW i \in hits PROVE FALSE
  <2>1. i \in Nat \ {0} /\ Fits(s, i, TitleIDKinds)
    OBVIOUS
  <2>2. PICK q \in I : \E k \in 1 .. Len(W[q]) : i = st[q] + (k - 1) /\ Fits(W[q], k, TitleIDKinds)
    BY <2>1, TitleKinds, WithinWord
  <2>k. PICK k \in 1 .. Len(W[q]) : i = st[q] + (k - 1) /\ Fits(W[q], k, TitleIDKinds)
    BY <2>2
  <2>3. DOMAIN W[q] = 1 .. Len(W[q])
    <3>1. q \in 1 .. Len(W)
      BY <1>1
    <3>2. W[q] \in Seq(NameChars)
      BY <3>1, WordIs
    <3> QED BY <3>2
  <2> QED BY <2>k, <2>3, Zenon DEF HasTitleID
<1> HIDE DEF hits
<1>3. hits = {}
  BY <1>2
<1> QED BY <1>3, Zenon DEF parseVTID_ParseTitleID, hits

-----------------------------------------------------------------------------
(* What is cut out                                                         *)

\* A text without n characters from place a on.
LEMMA CutIs ==
  ASSUME NEW S, NEW s \in Seq(S), NEW a \in 1 .. Len(s), NEW n \in Nat, a + n <= Len(s) + 2
  PROVE  /\ Cut(s, a, n) \in Seq(S)
         /\ Len(Cut(s, a, n)) = (a - 1) + (IF a + n <= Len(s) THEN Len(s) - (a + n) + 1 ELSE 0)
         /\ \A z \in 1 .. a - 1 : Cut(s, a, n)[z] = s[z]
         /\ \A z \in a .. Len(Cut(s, a, n)) : Cut(s, a, n)[z] = s[z + n]
<1> DEFINE u == SubSeq(s, 1, a - 1)
           v == SubSeq(s, a + n, Len(s))
           r == IF a + n <= Len(s) THEN Len(s) - (a + n) + 1 ELSE 0
<1>1. Len(s) \in Nat /\ a \in Nat /\ \A z \in 1 .. Len(s) : s[z] \in S
  OBVIOUS
<1>2. u \in Seq(S) /\ Len(u) = a - 1 /\ \A z \in 1 .. a - 1 : u[z] = s[z]
  BY <1>1
<1>3. v \in Seq(S) /\ Len(v) = r /\ \A z \in 1 .. r : v[z] = s[(a + n) + (z - 1)]
  <2>1. CASE a + n <= Len(s)
    BY <1>1, <2>1
  <2>2. CASE ~(a + n <= Len(s))
    BY <1>1, <2>2
  <2> QED BY <2>1, <2>2
<1>4. r \in Nat
  BY <1>1
<1> HIDE DEF u, v, r
<1> DEFINE w == u \o v
<1>5. /\ w \in Seq(S) /\ Len(w) = (a - 1) + r
      /\ \A j \in 1 .. a - 1 : w[j] = u[j]
      /\ \A j \in 1 .. r : w[(a - 1) + j] = v[j]
  <2>1. /\ w \in Seq(S) /\ Len(w) = Len(u) + Len(v)
        /\ \A j \in 1 .. Len(u) : w[j] = u[j]
        /\ \A j \in 1 .. Len(v) : w[Len(u) + j] = v[j]
    <3>1. u \in Seq(S) /\ v \in Seq(S)
      BY <1>2, <1>3
    <3>2. /\ Len(u) \in Nat /\ Len(v) \in Nat /\ u \o v \in Seq(S) /\ Len(u \o v) = Len(u) + Len(v)
          /\ \A j \in 1 .. Len(u) : (u \o v)[j] = u[j]
          /\ \A j \in 1 .. Len(v) : (u \o v)[Len(u) + j] = v[j]
      BY <3>1, Joined
    <3> QED BY <3>2, Zenon
  <2> QED BY <1>2, <1>3, <2>1
<1>6. Cut(s, a, n) = w
  BY Zenon DEF Cut, u, v
<1> HIDE DEF w
<1>7. ASSUME NEW z \in a .. Len(w) PROVE w[z] = s[z + n]
  <2>1. z - (a - 1) \in 1 .. r /\ (a - 1) + (z - (a - 1)) = z /\ (a + n) + ((z - (a - 1)) - 1) = z + n
    BY <1>1, <1>4, <1>5
  <2>2. w[(a - 1) + (z - (a - 1))] = v[z - (a - 1)] /\ v[z - (a - 1)] = s[(a + n) + ((z - (a - 1)) - 1)]
    BY <1>3, <1>5, <2>1
  <2> QED BY <2>1, <2>2
<1>8. \A z \in 1 .. a - 1 : w[z] = s[z]
  BY <1>2, <1>5
<1> QED BY <1>5, <1>6, <1>7, <1>8 DEF r

\* Where the words are when one of them is cut out, with the blank behind it.
Moved(W, st, m) == [i \in 1 .. Len(W) |-> IF i < m THEN st[i] ELSE st[i] - (Len(W[m]) + 1)]
Spacing == NameChars \cup {" "}

\* The other words are in what is left.
LEMMA CutKeepsWords ==
  ASSUME NEW W \in Seq(Word), NEW s \in Seq(Spacing), NEW I, NEW st, WordsAt(s, W, I, st), NEW m \in I
  PROVE  /\ Cut(s, st[m], Len(W[m]) + 1) \in Seq(Spacing)
         /\ WordsAt(Cut(s, st[m], Len(W[m]) + 1), W, I \ {m}, Moved(W, st, m))
<1> DEFINE L == Len(W[m])
           a == st[m]
           c == Cut(s, a, L + 1)
           J == I \ {m}
           u == Moved(W, st, m)
           n == Len(s)
           N == Len(W)
<1>1. I \subseteq 1 .. N /\ N \in Nat /\ n \in Nat /\ m \in 1 .. N
  BY DEF WordsAt
<1>2. \A i \in 1 .. N : Len(W[i]) \in Nat \ {0}
  BY WordIs
<1>3. /\ \A i \in I : st[i] \in Int /\ 1 <= st[i] /\ i \in Int
      /\ \A i \in I : st[i] + Len(W[i]) <= n + 1
      /\ \A i, j \in I : i < j => st[i] + Len(W[i]) < st[j]
  <2>1. st \in [1 .. N -> Int] /\ \A i \in I : 1 <= st[i] /\ st[i] + Len(W[i]) <= n + 1
    BY Zenon DEF WordsAt
  <2>2. \A i, j \in I : i < j => st[i] + Len(W[i]) < st[j]
    BY Zenon DEF WordsAt
  <2>3. \A i \in I : st[i] \in Int /\ i \in Int
    BY <1>1, <2>1
  <2> QED BY <2>1, <2>2, <2>3, Zenon
<1>4. L \in Nat \ {0} /\ a \in Int /\ 1 <= a /\ a + L <= n + 1
  BY <1>1, <1>2, <1>3
<1>5. /\ c \in Seq(Spacing)
      /\ Len(c) = (a - 1) + (IF a + (L + 1) <= n THEN n - (a + (L + 1)) + 1 ELSE 0)
      /\ \A z \in 1 .. a - 1 : c[z] = s[z]
      /\ \A z \in a .. Len(c) : c[z] = s[z + (L + 1)]
  <2>1. a \in 1 .. Len(s) /\ L + 1 \in Nat /\ a + (L + 1) <= Len(s) + 2
    BY <1>1, <1>4
  <2> HIDE DEF a, L
  <2> QED BY <2>1, CutIs DEF c, n
<1>6. u \in [1 .. N -> Int] /\ \A i \in J : u[i] = IF i < m THEN st[i] ELSE st[i] - (L + 1)
  <2>1. st \in [1 .. N -> Int]
    BY Zenon DEF WordsAt
  <2> QED BY <1>1, <1>4, <2>1 DEF Moved
<1>7. \A i \in J : i \in I /\ (i < m \/ m < i) /\ i \in 1 .. N /\ Len(W[i]) \in Nat \ {0}
  BY <1>1, <1>2
<1>8. /\ \A i \in J : i < m => st[i] + Len(W[i]) < a
      /\ \A i \in J : m < i => a + L < st[i]
  BY <1>1, <1>3, <1>7
<1>9. \A i \in I : \A k \in 1 .. Len(W[i]) : s[st[i] + (k - 1)] = W[i][k]
  BY Zenon DEF WordsAt
<1>10. \A z \in 1 .. n : IsBlank(s[z]) \/ \E i \in I : In(W, st, i, z)
  BY Zenon DEF WordsAt
<1> HIDE DEF L, a, c, J, u, n, N
<1>11. a - 1 <= Len(c) /\ Len(c) \in Nat
  BY <1>1, <1>4, <1>5
<1>12. ASSUME NEW i \in J, m < i PROVE u[i] = st[i] - (L + 1) /\ Len(c) = n - (L + 1) /\ a <= u[i]
  <2>1. a + L < st[i] /\ st[i] + Len(W[i]) <= n + 1 /\ Len(W[i]) \in Nat \ {0} /\ st[i] \in Int /\ ~(i < m)
    BY <1>1, <1>3, <1>7, <1>8, <1>12
  <2> DEFINE b == st[i]
             k == Len(W[i])
  <2> HIDE DEF b, k
  <2>2. a + L < b /\ b + k <= n + 1 /\ k \in Nat \ {0} /\ b \in Int
    BY <2>1 DEF b, k
  <2>3. a + (L + 1) <= n
    BY <1>1, <1>4, <2>2
  <2>4. Len(c) = n - (L + 1) /\ a <= b - (L + 1)
    BY <1>1, <1>4, <1>5, <2>2, <2>3
  <2>5. u[i] = b - (L + 1)
    BY <1>6, <2>1 DEF b
  <2> QED BY <2>4, <2>5 DEF b
<1>13. ASSUME NEW i \in J
       PROVE  /\ 1 <= u[i] /\ u[i] + Len(W[i]) <= Len(c) + 1
              /\ \A k \in 1 .. Len(W[i]) : c[u[i] + (k - 1)] = W[i][k]
  <2> DEFINE l == Len(W[i])
             b == st[i]
  <2>0. i \in I /\ l \in Nat \ {0} /\ b \in Int /\ 1 <= b /\ b + l <= n + 1
    BY <1>3, <1>7
  <2>a. \A k \in 1 .. l : s[b + (k - 1)] = W[i][k]
    BY <1>9, <2>0
  <2>1. CASE i < m
    <3>1. u[i] = b /\ b + l < a
      BY <1>6, <1>8, <2>1
    <3> HIDE DEF l, b
    <3>2. 1 <= b /\ b + l <= Len(c) + 1
      BY <1>4, <1>11, <2>0, <3>1
    <3>3. \A k \in 1 .. l : c[b + (k - 1)] = s[b + (k - 1)]
      <4>1. \A k \in 1 .. l : b + (k - 1) \in 1 .. a - 1
        BY <1>4, <2>0, <3>1
      <4> QED BY <1>5, <4>1
    <3> QED BY <2>a, <3>1, <3>2, <3>3 DEF l
  <2>2. CASE m < i
    <3>1. u[i] = b - (L + 1) /\ Len(c) = n - (L + 1) /\ a <= u[i]
      BY <1>12, <2>2
    <3> HIDE DEF l, b
    <3> DEFINE e == u[i]
    <3> HIDE DEF e
    <3>2. e = b - (L + 1) /\ Len(c) = n - (L + 1) /\ a <= e
      BY <3>1 DEF e
    <3>3. 1 <= e /\ e + l <= Len(c) + 1
      BY <1>1, <1>4, <2>0, <3>2
    <3>4. \A k \in 1 .. l : c[e + (k - 1)] = s[b + (k - 1)]
      <4> SUFFICES ASSUME NEW k \in 1 .. l PROVE c[e + (k - 1)] = s[b + (k - 1)]
        OBVIOUS
      <4>1. e + (k - 1) \in a .. Len(c) /\ (e + (k - 1)) + (L + 1) = b + (k - 1)
        BY <1>1, <1>4, <2>0, <3>2, <3>3
      <4>2. c[e + (k - 1)] = s[(e + (k - 1)) + (L + 1)]
        BY <1>5, <4>1
      <4> QED BY <4>1, <4>2
    <3> QED BY <2>a, <3>3, <3>4 DEF l, e
  <2> QED BY <1>7, <2>1, <2>2
<1>14. ASSUME NEW i \in J, NEW j \in J, i < j PROVE u[i] + Len(W[i]) < u[j]
  <2> DEFINE b == st[i]
             d == st[j]
             l == Len(W[i])
  <2>0. /\ i \in I /\ j \in I /\ i \in Int /\ j \in Int /\ m \in Int /\ b \in Int /\ d \in Int
        /\ l \in Nat /\ b + l < d
    BY <1>1, <1>3, <1>7, <1>14
  <2>1. CASE j < m
    <3>1. i < m
      BY <2>0, <2>1, <1>14
    <3>2. u[i] = b /\ u[j] = d
      BY <1>6, <2>1, <3>1
    <3> QED BY <2>0, <3>2
  <2>2. CASE i < m /\ m < j
    <3>1. u[i] = b /\ b + l < a
      BY <1>6, <1>8, <2>2
    <3>2. a <= u[j] /\ u[j] = d - (L + 1)
      BY <1>12, <2>2
    <3> HIDE DEF b, d, l
    <3>3. d - (L + 1) \in Int
      BY <1>4, <2>0
    <3>4. b + l < d - (L + 1)
      BY <1>4, <2>0, <3>1, <3>2, <3>3
    <3> QED BY <3>1, <3>2, <3>4 DEF l
  <2>3. CASE m < i
    <3>1. m < j
      BY <2>0, <2>3, <1>14
    <3>2. u[i] = b - (L + 1) /\ u[j] = d - (L + 1)
      BY <1>12, <2>3, <3>1
    <3> HIDE DEF b, d, l
    <3>3. (b - (L + 1)) + l < d - (L + 1)
      BY <1>4, <2>0
    <3> QED BY <3>2, <3>3 DEF l
  <2> QED BY <1>7, <2>1, <2>2, <2>3
<1>15. ASSUME NEW z \in 1 .. Len(c), ~IsBlank(c[z]) PROVE \E i \in J : In(W, u, i, z)
  <2>1. CASE z < a
    <3>1. z \in 1 .. a - 1 /\ z \in 1 .. n
      BY <1>1, <1>4, <1>11, <2>1
    <3>2. c[z] = s[z]
      BY <1>5, <3>1
    <3>3. PICK i \in I : In(W, st, i, z)
      BY <1>10, <1>15, <3>1, <3>2
    <3>4. st[i] <= z /\ z < st[i] + Len(W[i]) /\ st[i] \in Int
      BY <1>3, <3>3 DEF In
    <3>5. i # m
      BY <2>1, <3>1, <3>4, <1>4 DEF a
    <3>6. i \in J
      BY <3>5 DEF J
    <3>7. ~(m < i)
      <4> SUFFICES ASSUME m < i PROVE FALSE
        OBVIOUS
      <4>1. a + L < st[i]
        BY <1>8, <3>6
      <4> QED BY <1>4, <2>1, <3>1, <3>4, <4>1
    <3>8. u[i] = st[i]
      BY <1>6, <1>7, <3>6, <3>7
    <3> QED BY <3>4, <3>6, <3>8 DEF In
  <2>2. CASE ~(z < a)
    <3> DEFINE y == z + (L + 1)
    <3>1. z \in a .. Len(c) /\ z \in Int
      BY <1>4, <1>11, <2>2
    <3>2. y \in 1 .. n /\ a + L < y /\ y \in Int
      BY <1>1, <1>4, <1>5, <3>1
    <3>3. c[z] = s[y]
      BY <1>5, <3>1
    <3> HIDE DEF y
    <3>4. PICK i \in I : In(W, st, i, y)
      BY <1>10, <1>15, <3>2, <3>3
    <3>5. st[i] <= y /\ y < st[i] + Len(W[i]) /\ st[i] \in Int
      BY <1>3, <3>4 DEF In
    <3>6. i # m
      BY <1>4, <3>2, <3>5 DEF a, L
    <3>7. i \in J
      BY <3>6 DEF J
    <3>8. ~(i < m)
      <4> SUFFICES ASSUME i < m PROVE FALSE
        OBVIOUS
      <4>1. st[i] + Len(W[i]) < a /\ Len(W[i]) \in Nat
        BY <1>7, <1>8, <3>7
      <4> DEFINE e == st[i] + Len(W[i])
      <4>2. e < a /\ y < e /\ e \in Int
        BY <3>5, <4>1
      <4> HIDE DEF e
      <4> QED BY <1>4, <3>2, <4>2
    <3>9. u[i] = st[i] - (L + 1) /\ Len(W[i]) \in Nat
      BY <1>7, <1>12, <3>7, <3>8
    <3>10. st[i] - (L + 1) <= z /\ z < (st[i] - (L + 1)) + Len(W[i])
      BY <1>4, <3>1, <3>5, <3>9 DEF y
    <3> QED BY <3>7, <3>9, <3>10 DEF In
  <2> QED BY <2>1, <2>2
<1>16. WordsAt(c, W, J, u)
  <2>1. J \subseteq 1 .. N
    BY <1>7
  <2>2. u \in [1 .. Len(W) -> Int] /\ J \subseteq 1 .. Len(W)
    BY <1>6, <2>1 DEF N
  <2>3. \A z \in 1 .. Len(c) : IsBlank(c[z]) \/ \E i \in J : In(W, u, i, z)
    BY <1>15, Zenon
  <2> QED BY <1>13, <1>14, <2>2, <2>3, Zenon DEF WordsAt
<1> QED BY <1>5, <1>16 DEF c, J, u, a, L

-----------------------------------------------------------------------------
(* The version                                                             *)

LEMMA LetteredKinds ==
  /\ KindsAre(Lettered, 2)
  /\ Lettered[1] = {"v"} /\ Lettered[2] = Digits
<1>1. DOMAIN Lettered = 1 .. 2 /\ Len(Lettered) = 2 /\ Lettered[1] = {"v"} /\ Lettered[2] = Digits
  BY DEF Lettered
<1>2. Lettered[1] \subseteq NameChars /\ Lettered[2] \subseteq NameChars
  BY <1>1 DEF NameChars, Letters
<1>3. \A k \in 1 .. 2 : k = 1 \/ k = 2
  OBVIOUS
<1>4. \A k \in 1 .. 2 : \A c \in Lettered[k] : ~IsBlank(c)
  BY <1>2, <1>3, NoBlank, Zenon
<1>5. 2 \in Nat \ {0}
  OBVIOUS
<1> QED BY <1>1, <1>4, <1>5, Zenon DEF KindsAre

LEMMA DottedKinds == KindsAre(Dotted, 5) /\ Dotted[1] = Digits
<1>1. DOMAIN Dotted = 1 .. 5 /\ Len(Dotted) = 5 /\ Dotted[1] = Digits
  BY DEF Dotted
<1>2. \A k \in 1 .. 5 : Dotted[k] \in {Digits, {"."}}
  BY DEF Dotted
<1>3. Digits \subseteq NameChars /\ {"."} \subseteq NameChars
  BY DEF NameChars
<1>4. \A k \in 1 .. 5 : \A c \in Dotted[k] : ~IsBlank(c)
  BY <1>2, <1>3, NoBlank, Zenon
<1>5. 5 \in Nat \ {0}
  OBVIOUS
<1> QED BY <1>1, <1>4, <1>5, Zenon DEF KindsAre

\* The one behind a blank is the other, with the blank before it.
LEMMA BlankLetteredIs ==
  ASSUME NEW s, Len(s) \in Nat, NEW z \in Nat \ {0}
  PROVE  Fits(s, z, BlankLettered) <=> IsBlank(s[z]) /\ Fits(s, z + 1, Lettered)
<1>1. DOMAIN BlankLettered = 1 .. 3 /\ Len(BlankLettered) = 3
      /\ BlankLettered[1] = {" "} /\ BlankLettered[2] = Lettered[1] /\ BlankLettered[3] = Lettered[2]
  BY DEF BlankLettered, Lettered
<1>2. DOMAIN Lettered = 1 .. 2 /\ Len(Lettered) = 2
  BY DEF Lettered
<1> DEFINE A == Lettered[1]
           B == Lettered[2]
           C == BlankLettered[1]
<1>3. Fits(s, z + 1, Lettered) <=> z + 2 <= Len(s) /\ s[z + 1] \in A /\ s[z + 2] \in B
  <2>1. Fits(s, z + 1, Lettered) <=> (z + 1) + (2 - 1) <= Len(s) /\ \A k \in 1 .. 2 : s[(z + 1) + (k - 1)] \in Lettered[k]
    BY <1>2 DEF Fits
  <2>2. (z + 1) + (2 - 1) = z + 2 /\ (z + 1) + (1 - 1) = z + 1
    OBVIOUS
  <2>3. \A k \in 1 .. 2 : k = 1 \/ k = 2
    OBVIOUS
  <2>4. 1 \in 1 .. 2 /\ 2 \in 1 .. 2
    OBVIOUS
  <2> QED BY <2>1, <2>2, <2>3, <2>4, Zenon
<1>4. Fits(s, z, BlankLettered) <=> z + 2 <= Len(s) /\ s[z] \in C /\ s[z + 1] \in A /\ s[z + 2] \in B
  <2>1. Fits(s, z, BlankLettered) <=> z + (3 - 1) <= Len(s) /\ \A k \in 1 .. 3 : s[z + (k - 1)] \in BlankLettered[k]
    BY <1>1 DEF Fits
  <2>2. z + (3 - 1) = z + 2 /\ z + (1 - 1) = z /\ z + (2 - 1) = z + 1
    OBVIOUS
  <2>3. \A k \in 1 .. 3 : k = 1 \/ k = 2 \/ k = 3
    OBVIOUS
  <2>4. 1 \in 1 .. 3 /\ 2 \in 1 .. 3 /\ 3 \in 1 .. 3
    OBVIOUS
  <2> QED BY <1>1, <2>1, <2>2, <2>3, <2>4, Zenon
<1>5. s[z] \in C <=> IsBlank(s[z])
  BY <1>1, Zenon DEF IsBlank
<1> QED BY <1>3, <1>4, <1>5, Zenon

\* A version begins with "v" or a digit.
LEMMA FirstOfKinds ==
  ASSUME NEW s, NEW z \in Nat, Fits(s, z, Lettered) \/ Fits(s, z, Dotted)
  PROVE  /\ ~IsBlank(s[z])
         /\ Fits(s, z, Lettered) => s[z] = "v"
         /\ Fits(s, z, Dotted) => s[z] # "v"
<1>1. Fits(s, z, Lettered) => s[z] \in Lettered[1]
  <2>1. 1 \in DOMAIN Lettered /\ z + (1 - 1) = z
    BY DEF Lettered
  <2>2. Fits(s, z, Lettered) => s[z + (1 - 1)] \in Lettered[1]
    BY <2>1, Zenon DEF Fits
  <2> QED BY <2>1, <2>2
<1>2. Fits(s, z, Dotted) => s[z] \in Dotted[1]
  <2>1. 1 \in DOMAIN Dotted /\ z + (1 - 1) = z
    BY DEF Dotted
  <2>2. Fits(s, z, Dotted) => s[z + (1 - 1)] \in Dotted[1]
    BY <2>1, Zenon DEF Fits
  <2> QED BY <2>1, <2>2
<1>3. Lettered[1] = {"v"} /\ Dotted[1] = Digits
  BY LetteredKinds, DottedKinds
<1>4. {"v"} \subseteq NameChars /\ Digits \subseteq NameChars /\ "v" \notin Digits
  BY DEF NameChars, Letters, Digits
<1> QED BY <1>1, <1>2, <1>3, <1>4, NoBlank, Zenon

\* What the loop finds at one place.
LEMMA VersionFromIs ==
  ASSUME NEW s, Len(s) \in Nat, NEW z \in Nat \ {0}
  PROVE  /\ z = 1 /\ Fits(s, z, Lettered) => VersionFrom(s, z) = z
         /\ IsBlank(s[z]) /\ Fits(s, z + 1, Lettered) => VersionFrom(s, z) = z + 1
         /\ Fits(s, z, Dotted) => VersionFrom(s, z) = z
         /\ ~(z = 1 /\ Fits(s, z, Lettered)) /\ ~(IsBlank(s[z]) /\ Fits(s, z + 1, Lettered)) /\ ~Fits(s, z, Dotted)
              => VersionFrom(s, z) = 0
<1>1. Fits(s, z, BlankLettered) <=> IsBlank(s[z]) /\ Fits(s, z + 1, Lettered)
  BY BlankLetteredIs
<1>2. Fits(s, z, Lettered) => ~IsBlank(s[z])
  BY FirstOfKinds
<1>3. Fits(s, z, Dotted) => ~IsBlank(s[z])
  BY FirstOfKinds
<1> DEFINE F == z = 1 /\ Fits(s, z, Lettered)
           G == Fits(s, z, BlankLettered)
           H == Fits(s, z, Dotted)
<1>4. VersionFrom(s, z) = CASE F -> z [] G -> z + 1 [] H -> z [] OTHER -> 0
  BY Zenon DEF VersionFrom
<1>5. (F => ~G) /\ (H => ~G)
  BY <1>1, <1>2, <1>3, Zenon
<1> HIDE DEF F, G, H
<1>6. /\ F => VersionFrom(s, z) = z
      /\ G => VersionFrom(s, z) = z + 1
      /\ H => VersionFrom(s, z) = z
      /\ ~F /\ ~G /\ ~H => VersionFrom(s, z) = 0
  BY <1>4, <1>5
<1> QED BY <1>1, <1>6, Zenon DEF F, G, H

\* Where the loop stops there is a word with a version in it.
LEMMA VersionHit ==
  ASSUME NEW W \in Seq(Word), NEW s, Len(s) \in Nat, NEW I, NEW st, WordsAt(s, W, I, st),
         NEW z \in Nat \ {0}, VersionFrom(s, z) # 0
  PROVE  \E q \in I : /\ HasVersion(W[q])
                      /\ \/ st[q] <= z
                         \/ st[q] = z + 1 /\ Fits(W[q], 1, Lettered)
<1>0. \A q \in I : /\ DOMAIN W[q] = 1 .. Len(W[q]) /\ Len(W[q]) \in Nat \ {0} /\ 1 \in DOMAIN W[q]
                   /\ st[q] \in Int /\ 1 <= st[q]
  <2> SUFFICES ASSUME NEW q \in I
               PROVE  /\ DOMAIN W[q] = 1 .. Len(W[q]) /\ Len(W[q]) \in Nat \ {0} /\ 1 \in DOMAIN W[q]
                      /\ st[q] \in Int /\ 1 <= st[q]
    OBVIOUS
  <2>1. q \in 1 .. Len(W) /\ st[q] \in Int /\ 1 <= st[q]
    BY DEF WordsAt
  <2>2. W[q] \in Seq(NameChars) /\ Len(W[q]) \in Nat \ {0}
    BY <2>1, WordIs
  <2>3. DOMAIN W[q] = 1 .. Len(W[q])
    BY <2>2
  <2>4. 1 \in 1 .. Len(W[q])
    BY <2>2
  <2> QED BY <2>1, <2>2, <2>3, <2>4
<1>1. CASE z = 1 /\ Fits(s, z, Lettered)
  <2>1. PICK q \in I : \E k \in 1 .. Len(W[q]) : z = st[q] + (k - 1) /\ Fits(W[q], k, Lettered)
    BY <1>1, LetteredKinds, WithinWord
  <2>2. PICK k \in 1 .. Len(W[q]) : z = st[q] + (k - 1) /\ Fits(W[q], k, Lettered)
    BY <2>1
  <2>3. k = 1 /\ st[q] <= z
    BY <1>0, <1>1, <2>2
  <2>4. HasVersion(W[q])
    BY <1>0, <2>2, <2>3, Zenon DEF HasVersion, VersionAt
  <2> QED BY <2>3, <2>4
<1>2. CASE IsBlank(s[z]) /\ Fits(s, z + 1, Lettered)
  <2>0. z + 1 \in Nat \ {0}
    OBVIOUS
  <2>1. PICK q \in I : \E k \in 1 .. Len(W[q]) : z + 1 = st[q] + (k - 1) /\ Fits(W[q], k, Lettered)
    BY <1>2, <2>0, LetteredKinds, WithinWord
  <2>2. PICK k \in 1 .. Len(W[q]) : z + 1 = st[q] + (k - 1) /\ Fits(W[q], k, Lettered)
    BY <2>1
  <2>3. k = 1
    <3> SUFFICES ASSUME k # 1 PROVE FALSE
      OBVIOUS
    <3>1. In(W, st, q, z)
      BY <1>0, <2>2 DEF In
    <3>2. z \in Int
      OBVIOUS
    <3>3. ~IsBlank(s[z])
      BY <3>1, <3>2, InIs
    <3> QED BY <1>2, <3>3
  <2>4. HasVersion(W[q]) /\ Fits(W[q], 1, Lettered)
    BY <1>0, <2>2, <2>3, Zenon DEF HasVersion, VersionAt
  <2>5. st[q] = z + 1
    BY <1>0, <2>2, <2>3
  <2> QED BY <2>4, <2>5
<1>3. CASE Fits(s, z, Dotted)
  <2>1. PICK q \in I : \E k \in 1 .. Len(W[q]) : z = st[q] + (k - 1) /\ Fits(W[q], k, Dotted)
    BY <1>3, DottedKinds, WithinWord
  <2>2. PICK k \in 1 .. Len(W[q]) : z = st[q] + (k - 1) /\ Fits(W[q], k, Dotted)
    BY <2>1
  <2>3. st[q] <= z
    BY <1>0, <2>2
  <2>4. HasVersion(W[q])
    BY <1>0, <2>2, Zenon DEF HasVersion, VersionAt
  <2> QED BY <2>3, <2>4
<1> QED BY <1>1, <1>2, <1>3, VersionFromIs

\* The first word with a version in it is found, if it is one.
LEMMA FindsVersion ==
  ASSUME NEW W \in Seq(Word), NEW s, Len(s) \in Nat, NEW I, NEW st, WordsAt(s, W, I, st),
         NEW m \in I, IsVersion(W[m]), \A i \in I : HasVersion(W[i]) => m <= i
  PROVE  parseVTID_ParseVersion(s) = [off |-> st[m], length |-> Len(W[m]) - 1]
<1> DEFINE hits == {i \in 1 .. Len(s) - 2 : VersionFrom(s, i) > 0}
           a == st[m]
           L == Len(W[m])
           h == IF 1 < a /\ Fits(W[m], 1, Lettered) THEN a - 1 ELSE a
           blanks == {i \in a + 1 .. Len(s) : IsBlank(s[i])}
<1>1. I \subseteq 1 .. Len(W) /\ Len(W) \in Nat
  BY DEF WordsAt
<1>2. /\ \A i \in I : st[i] \in Int /\ 1 <= st[i] /\ i \in Int
      /\ \A i \in I : st[i] + Len(W[i]) <= Len(s) + 1
      /\ \A i, j \in I : i < j => st[i] + Len(W[i]) < st[j]
  <2>1. st \in [1 .. Len(W) -> Int] /\ \A i \in I : 1 <= st[i] /\ st[i] + Len(W[i]) <= Len(s) + 1
    BY Zenon DEF WordsAt
  <2>2. \A i, j \in I : i < j => st[i] + Len(W[i]) < st[j]
    BY Zenon DEF WordsAt
  <2>3. \A i \in I : st[i] \in Int /\ i \in Int
    BY <1>1, <2>1
  <2> QED BY <2>1, <2>2, <2>3, Zenon
<1>3. L \in {5, 6} /\ (Fits(W[m], 1, Dotted) \/ Fits(W[m], 1, Lettered))
  BY Zenon DEF IsVersion, VersionAt
<1>4. a \in Int /\ 1 <= a /\ a + L <= Len(s) + 1 /\ L \in Nat /\ 5 <= L
  <2>1. a \in Int /\ 1 <= a /\ a + L <= Len(s) + 1
    BY <1>2, Zenon
  <2>2. L \in Nat /\ 5 <= L
    <3>1. L \in {5, 6}
      BY <1>3, Zenon
    <3> HIDE DEF L
    <3> QED BY <3>1
  <2> QED BY <2>1, <2>2, Zenon
<1>5. /\ a + L <= Len(s) => IsBlank(s[a + L])
      /\ 1 < a => IsBlank(s[a - 1])
  BY AroundWord
<1>6. /\ Fits(W[m], 1, Lettered) => Fits(s, a, Lettered)
      /\ Fits(W[m], 1, Dotted) => Fits(s, a, Dotted)
  <2>1. 1 \in 1 .. Len(W[m]) /\ st[m] + (1 - 1) = a
    BY <1>4
  <2>2. Fits(W[m], 1, Lettered) => Fits(s, st[m] + (1 - 1), Lettered)
    BY <2>1, LetteredKinds, FitsIn
  <2>3. Fits(W[m], 1, Dotted) => Fits(s, st[m] + (1 - 1), Dotted)
    BY <2>1, DottedKinds, FitsIn
  <2> QED BY <2>1, <2>2, <2>3
<1>7. h \in 1 .. Len(s) - 2 /\ VersionFrom(s, h) = a /\ h <= a
  <2>1. CASE 1 < a /\ Fits(W[m], 1, Lettered)
    <3>1. h = a - 1 /\ a - 1 \in Nat \ {0} /\ (a - 1) + 1 = a /\ a - 1 \in 1 .. Len(s) - 2
      BY <1>4, <2>1
    <3>2. IsBlank(s[a - 1]) /\ Fits(s, (a - 1) + 1, Lettered)
      BY <1>5, <1>6, <2>1, <3>1
    <3> HIDE DEF h
    <3>3. VersionFrom(s, a - 1) = (a - 1) + 1
      BY <3>1, <3>2, VersionFromIs
    <3> QED BY <1>4, <3>1, <3>3
  <2>2. CASE ~(1 < a) /\ Fits(W[m], 1, Lettered)
    <3>1. h = a /\ a = 1 /\ a \in Nat \ {0} /\ a \in 1 .. Len(s) - 2
      BY <1>4, <2>2
    <3> HIDE DEF h
    <3>2. VersionFrom(s, a) = a
      BY <1>6, <2>2, <3>1, VersionFromIs
    <3> QED BY <3>1, <3>2
  <2>3. CASE ~Fits(W[m], 1, Lettered)
    <3>1. h = a /\ a \in Nat \ {0} /\ a \in 1 .. Len(s) - 2
      BY <1>4, <2>3
    <3> HIDE DEF h
    <3>2. VersionFrom(s, a) = a
      BY <1>3, <1>6, <2>3, <3>1, VersionFromIs
    <3> QED BY <3>1, <3>2
  <2> QED BY <2>1, <2>2, <2>3
<1>8. h \in hits
  BY <1>4, <1>7
<1>9. ASSUME NEW i \in hits PROVE h <= i
  <2>1. i \in Nat \ {0} /\ VersionFrom(s, i) # 0
    OBVIOUS
  <2>2. PICK q \in I : /\ HasVersion(W[q])
                       /\ st[q] <= i \/ (st[q] = i + 1 /\ Fits(W[q], 1, Lettered))
    BY <2>1, VersionHit
  <2>3. m <= q
    BY <2>2
  <2>4. CASE m = q
    BY <1>4, <1>7, <2>1, <2>2, <2>4
  <2>5. CASE m # q
    <3>1. a + L < st[q] /\ st[q] \in Int
      BY <1>2, <2>3, <2>5
    <3> HIDE DEF a, L, h
    <3> QED BY <1>4, <1>7, <2>1, <2>2, <3>1
  <2> QED BY <2>4, <2>5
<1> HIDE DEF hits, h
<1>10. Min(hits) = h
  <2>1. \E g \in hits : \A y \in hits : g <= y
    BY <1>8, <1>9
  <2>2. Min(hits) \in hits /\ \A y \in hits : Min(hits) <= y
    BY <2>1, Zenon DEF Min
  <2>3. h <= Min(hits) /\ Min(hits) <= h
    BY <1>8, <1>9, <2>2, Zenon
  <2>4. hits \subseteq Int
    BY DEF hits
  <2>5. Min(hits) \in Int /\ h \in Int
    BY <1>8, <2>2, <2>4
  <2> QED BY <2>3, <2>5
<1>11. (IF hits = {} THEN Len(s) - 1 ELSE VersionFrom(s, Min(hits))) = a
  BY <1>7, <1>8, <1>10
<1>12. \A i \in blanks : a + L <= i /\ i \in Int
  <2> SUFFICES ASSUME NEW i \in blanks, ~(a + L <= i) PROVE FALSE
    BY <1>4
  <2>1. i \in Int /\ IsBlank(s[i]) /\ a + 1 <= i
    BY <1>4
  <2>2. In(W, st, m, i)
    BY <1>4, <2>1 DEF In
  <2> QED BY <2>1, <2>2, InIs
<1>13. (IF blanks = {} THEN Len(s) + 1 ELSE Min(blanks)) = a + L
  <2>1. CASE a + L <= Len(s)
    <3>1. a + L \in blanks
      BY <1>4, <1>5, <2>1
    <3> HIDE DEF blanks, a, L
    <3>2. \E g \in blanks : \A y \in blanks : g <= y
      BY <1>12, <3>1
    <3>3. Min(blanks) \in blanks /\ \A y \in blanks : Min(blanks) <= y
      BY <3>2, Zenon DEF Min
    <3>4. Min(blanks) <= a + L /\ a + L <= Min(blanks) /\ Min(blanks) \in Int /\ a + L \in Int
      BY <1>12, <3>1, <3>3
    <3> QED BY <3>1, <3>4
  <2>2. CASE ~(a + L <= Len(s))
    <3>1. a + L = Len(s) + 1
      <4> HIDE DEF a, L
      <4> QED BY <1>4, <2>2
    <3>2. \A i \in blanks : i <= Len(s)
      BY <1>4
    <3> HIDE DEF blanks
    <3>3. blanks = {}
      BY <1>12, <3>1, <3>2
    <3> QED BY <3>1, <3>3
  <2> QED BY <2>1, <2>2
<1>14. parseVTID_ParseVersion(s) = [off |-> a, length |-> (a + L) - (a + 1)]
  <2>1. parseVTID_ParseVersion(s)
          = [off |-> a, length |-> (IF blanks = {} THEN Len(s) + 1 ELSE Min(blanks)) - (a + 1)]
    BY <1>11, Zenon DEF parseVTID_ParseVersion, hits, IsBlank
  <2> QED BY <1>13, <2>1, Zenon
<1>15. (a + L) - (a + 1) = L - 1
  BY <1>4
<1> QED BY <1>14, <1>15

\* Where no word has one, what is taken for it is too short.
LEMMA FindsNoVersion ==
  ASSUME NEW W \in Seq(Word), NEW s, Len(s) \in Nat, NEW I, NEW st, WordsAt(s, W, I, st),
         \A i \in I : ~HasVersion(W[i])
  PROVE  parseVTID_ParseVersion(s).length \notin {4, 5}
<1> DEFINE hits == {i \in 1 .. Len(s) - 2 : VersionFrom(s, i) > 0}
           blanks == {i \in (Len(s) - 1) + 1 .. Len(s) : s[i] = " "}
           length == (IF blanks = {} THEN Len(s) + 1 ELSE Min(blanks)) - ((Len(s) - 1) + 1)
<1>1. ASSUME NEW i \in hits PROVE FALSE
  <2>1. i \in Nat \ {0} /\ VersionFrom(s, i) # 0
    OBVIOUS
  <2> QED BY <2>1, VersionHit
<1> HIDE DEF hits
<1>2. hits = {}
  BY <1>1
<1>3. blanks \subseteq {Len(s)}
  <2>1. blanks \subseteq (Len(s) - 1) + 1 .. Len(s)
    BY Zenon
  <2> HIDE DEF blanks
  <2> QED BY <2>1
<1>4. length \in {0, 1}
  <2> HIDE DEF blanks
  <2>1. blanks = {} \/ blanks = {Len(s)}
    BY <1>3
  <2>2. Min({Len(s)}) = Len(s)
    <3> DEFINE T == {Len(s)}
    <3>1. \E g \in T : \A y \in T : g <= y
      OBVIOUS
    <3>2. Min(T) \in T
      BY <3>1, Zenon DEF Min
    <3> QED BY <3>2
  <2>3. CASE blanks = {}
    BY <2>3
  <2>4. CASE blanks = {Len(s)}
    <3>1. blanks # {}
      BY <2>4
    <3>2. Min(blanks) = Len(s)
      BY <2>2, <2>4, Zenon
    <3> QED BY <3>1, <3>2
  <2> QED BY <2>1, <2>3, <2>4
<1>5. parseVTID_ParseVersion(s).length = length
  BY <1>2, Zenon DEF parseVTID_ParseVersion, hits
<1> HIDE DEF length
<1> QED BY <1>4, <1>5

-----------------------------------------------------------------------------
(* The words of what is left                                               *)

\* The function WordsOf is defined with.
IsReading(f, s) ==
  f = [i \in Nat |-> IF i > Len(s) THEN <<>>
                     ELSE IF s[i] = " " THEN f[i + 1]
                     ELSE <<SubSeq(s, i, WordEnd(s, i) - 1)>> \o f[WordEnd(s, i)]]

\* A word goes on to the next blank.
LEMMA WordEndIs ==
  ASSUME NEW s, Len(s) \in Nat, NEW i \in 0 .. Len(s)
  PROVE  /\ WordEnd(s, i) \in i .. Len(s) + 1
         /\ \A j \in i .. WordEnd(s, i) - 1 : ~IsBlank(s[j])
         /\ WordEnd(s, i) <= Len(s) => IsBlank(s[WordEnd(s, i)])
         /\ ~IsBlank(s[i]) => i < WordEnd(s, i)
<1> DEFINE e == findNext(s, i, {" "})
           A == {j \in i .. Len(s) : s[j] = " "}
           B == {j \in i .. Len(s) : s[j] \in {" "}}
<1>1. A = B
  <2>1. \A j : j \in A <=> j \in B
    BY Zenon
  <2> HIDE DEF A, B
  <2> QED BY <2>1
<1>2. WordEnd(s, i) = e
  BY <1>1, Zenon DEF WordEnd, findNext
<1>3. i \in Nat /\ i <= Len(s) + 1
  OBVIOUS
<1>4. /\ e \in i .. Len(s) + 1
      /\ \A j \in i .. e - 1 : s[j] \notin {" "}
      /\ e <= Len(s) => s[e] \in {" "}
  BY <1>3, NextIs, Zenon
<1>5. \A c : c \in {" "} <=> IsBlank(c)
  BY Zenon DEF IsBlank
<1> HIDE DEF e
<1>6. /\ \A j \in i .. e - 1 : ~IsBlank(s[j])
      /\ e <= Len(s) => IsBlank(s[e])
  BY <1>4, <1>5, Zenon
<1>7. e \in i .. Len(s) + 1
  BY <1>4, Zenon
<1>8. ~IsBlank(s[i]) => i < e
  BY <1>6, <1>7
<1> QED BY <1>2, <1>6, <1>7, <1>8, Zenon

\* There is one.
LEMMA ReadingThere ==
  ASSUME NEW s \in Seq(Spacing)
  PROVE  \E f : IsReading(f, s)
<1> DEFINE T == Spacing \cup {s[0]}
           R == Seq(Seq(T))
           n == Len(s)
           Part(i) == SubSeq(s, i, WordEnd(s, i) - 1)
           made(i, f) == IF i > n THEN <<>>
                         ELSE IF s[i] = " " THEN f[i + 1]
                         ELSE <<Part(i)>> \o f[WordEnd(s, i)]
           step == [i \in Nat |-> [f \in [Nat -> R] |-> made(i, f)]]
<1>1. n \in Nat /\ \A j \in 0 .. n : s[j] \in T
  OBVIOUS
<1>2. \A i \in 0 .. n : WordEnd(s, i) \in i .. n + 1 /\ (~IsBlank(s[i]) => i < WordEnd(s, i))
  BY <1>1, WordEndIs
<1>3. ASSUME NEW i \in 0 .. n, ~IsBlank(s[i]) PROVE Part(i) \in Seq(T)
  <2> DEFINE e == WordEnd(s, i)
  <2>1. e \in i .. n + 1 /\ i < e
    BY <1>2, <1>3
  <2> HIDE DEF e, T
  <2>2. \A j \in i .. e - 1 : s[j] \in T
    BY <1>1, <2>1
  <2>3. i \in Int /\ e - 1 \in Int
    BY <1>1, <2>1
  <2>4. SubSeq(s, i, e - 1) \in Seq(T)
    BY <2>2, <2>3, SubSeqProperties
  <2> QED BY <2>4 DEF e
<1>4. \A c : c = " " <=> IsBlank(c)
  BY Zenon DEF IsBlank
<1>5. <<>> \in R
  OBVIOUS
<1> HIDE DEF T, R, n, Part
<1>6. ASSUME NEW i \in Nat, NEW f \in [Nat -> R] PROVE made(i, f) \in R
  <2>1. CASE i > n
    BY <1>5, <2>1
  <2>2. CASE ~(i > n) /\ IsBlank(s[i])
    <3>1. made(i, f) = f[i + 1]
      BY <1>4, <2>2, Zenon
    <3>2. i + 1 \in Nat
      OBVIOUS
    <3>3. f[i + 1] \in R
      BY <3>2
    <3> QED BY <3>1, <3>3, Zenon
  <2>3. CASE ~(i > n) /\ ~IsBlank(s[i])
    <3>1. made(i, f) = <<Part(i)>> \o f[WordEnd(s, i)]
      BY <1>4, <2>3, Zenon
    <3>2. i \in 0 .. n
      BY <1>1, <2>3
    <3>3. Part(i) \in Seq(T) /\ WordEnd(s, i) \in Nat
      BY <1>1, <1>2, <1>3, <2>3, <3>2
    <3>4. <<Part(i)>> \in R /\ f[WordEnd(s, i)] \in R
      BY <3>3, FewOf DEF R
    <3>5. <<Part(i)>> \o f[WordEnd(s, i)] \in R
      BY <3>4, ConcatProperties DEF R
    <3> QED BY <3>1, <3>5
  <2> QED BY <2>1, <2>2, <2>3
<1>7. ASSUME NEW i \in Nat, NEW f \in [Nat -> R], NEW g \in [Nat -> R],
             i > n \/ \A j \in Nat : j > i => f[j] = g[j]
      PROVE  made(i, f) = made(i, g)
  <2>1. CASE i > n
    BY <2>1
  <2>2. CASE ~(i > n) /\ IsBlank(s[i])
    <3>1. i + 1 \in Nat /\ i + 1 > i
      OBVIOUS
    <3>2. f[i + 1] = g[i + 1]
      BY <1>7, <2>2, <3>1
    <3> QED BY <1>4, <2>2, <3>2, Zenon
  <2>3. CASE ~(i > n) /\ ~IsBlank(s[i])
    <3>1. i \in 0 .. n
      BY <1>1, <2>3
    <3>2. WordEnd(s, i) \in Nat /\ WordEnd(s, i) > i
      BY <1>1, <1>2, <2>3, <3>1
    <3>3. f[WordEnd(s, i)] = g[WordEnd(s, i)]
      BY <1>7, <2>3, <3>2
    <3> QED BY <1>4, <2>3, <3>3, Zenon
  <2> QED BY <2>1, <2>2, <2>3
<1> HIDE DEF made
<1>8. step \in [Nat -> [[Nat -> R] -> R]]
  BY <1>6
<1>9. \A i \in Nat : \A f \in [Nat -> R] : step[i][f] = made(i, f)
  OBVIOUS
<1> HIDE DEF step
<1>10. \A i \in Nat : \A f, g \in [Nat -> R] :
         (\A j \in Nat : j > i => f[j] = g[j]) => step[i][f] = step[i][g]
  <2> SUFFICES ASSUME NEW i \in Nat, NEW f \in [Nat -> R], NEW g \in [Nat -> R],
                      \A j \in Nat : j > i => f[j] = g[j]
               PROVE  step[i][f] = step[i][g]
    OBVIOUS
  <2>1. made(i, f) = made(i, g)
    BY <1>7
  <2> QED BY <1>9, <2>1
<1>11. \A i \in Nat : \A f, g \in [Nat -> R] : i > n => step[i][f] = step[i][g]
  <2> SUFFICES ASSUME NEW i \in Nat, NEW f \in [Nat -> R], NEW g \in [Nat -> R], i > n
               PROVE  step[i][f] = step[i][g]
    OBVIOUS
  <2>1. made(i, f) = made(i, g)
    BY <1>7
  <2> QED BY <1>9, <2>1
<1>n. n \in Nat
  BY <1>1, Zenon
<1>d. Downward(R, n, step)
  BY <1>8, <1>10, <1>11, Zenon DEF Downward
<1>12. PICK f \in [Nat -> R] : f = [i \in Nat |-> step[i][f]]
  BY <1>n, <1>5, <1>d, RecursionDown
<1>13. f = [i \in Nat |-> made(i, f)]
  BY <1>9, <1>12
<1>14. IsReading(f, s)
  BY <1>13, Zenon DEF IsReading, made, n, Part
<1> QED BY <1>14, Zenon

\* What the function says of each place.
LEMMA ReadingIs ==
  ASSUME NEW s \in Seq(Spacing), NEW f, IsReading(f, s)
  PROVE  /\ \A i \in Nat : i > Len(s) => f[i] = <<>>
         /\ \A i \in 1 .. Len(s) : IsBlank(s[i]) => f[i] = f[i + 1]
         /\ \A i \in 1 .. Len(s) : ~IsBlank(s[i]) =>
              f[i] = <<SubSeq(s, i, WordEnd(s, i) - 1)>> \o f[WordEnd(s, i)]
<1>1. Len(s) \in Nat /\ \A i \in 1 .. Len(s) : i \in Nat /\ ~(i > Len(s))
  OBVIOUS
<1>2. \A c : c = " " <=> IsBlank(c)
  BY Zenon DEF IsBlank
<1>3. \A i \in Nat : f[i] = IF i > Len(s) THEN <<>>
                            ELSE IF s[i] = " " THEN f[i + 1]
                            ELSE <<SubSeq(s, i, WordEnd(s, i) - 1)>> \o f[WordEnd(s, i)]
  BY Zenon DEF IsReading
<1> QED BY <1>1, <1>2, <1>3, Zenon

\* Its values are sequences of texts.
LEMMA ReadingType ==
  ASSUME NEW s \in Seq(Spacing), NEW f, IsReading(f, s), NEW i \in 1 .. Len(s) + 1
  PROVE  f[i] \in Seq(Seq(Spacing))
<1> DEFINE n == Len(s)
           R == Seq(Seq(Spacing))
           Good == {d \in Nat : \A j \in 1 .. n + 1 : j + d > n => f[j] \in R}
<1>1. n \in Nat /\ \A j \in 1 .. n : s[j] \in Spacing
  OBVIOUS
<1>2. /\ \A j \in Nat : j > n => f[j] = <<>>
      /\ \A j \in 1 .. n : IsBlank(s[j]) => f[j] = f[j + 1]
      /\ \A j \in 1 .. n : ~IsBlank(s[j]) => f[j] = <<SubSeq(s, j, WordEnd(s, j) - 1)>> \o f[WordEnd(s, j)]
  BY ReadingIs, Zenon
<1>3. <<>> \in R
  OBVIOUS
<1>4. ASSUME NEW j \in 1 .. n, ~IsBlank(s[j])
      PROVE  SubSeq(s, j, WordEnd(s, j) - 1) \in Seq(Spacing) /\ WordEnd(s, j) \in j + 1 .. n + 1
  <2> DEFINE e == WordEnd(s, j)
  <2>1. e \in j .. n + 1 /\ j < e
    <3>1. j \in 0 .. Len(s)
      BY <1>1
    <3> QED BY <1>1, <1>4, <3>1, WordEndIs
  <2> HIDE DEF e, n
  <2>2. \A k \in j .. e - 1 : s[k] \in Spacing
    BY <1>1, <2>1
  <2>3. j \in Int /\ e - 1 \in Int
    BY <1>1, <2>1
  <2>4. SubSeq(s, j, e - 1) \in Seq(Spacing)
    BY <2>2, <2>3, SubSeqProperties
  <2>5. e \in j + 1 .. n + 1
    BY <1>1, <2>1
  <2> QED BY <2>4, <2>5 DEF e
<1> HIDE DEF n, R
<1>5. 0 \in Good
  BY <1>1, <1>2, <1>3
<1>6. ASSUME NEW d \in Nat, d \in Good PROVE d + 1 \in Good
  <2> SUFFICES ASSUME NEW j \in 1 .. n + 1, j + (d + 1) > n PROVE f[j] \in R
    OBVIOUS
  <2>1. CASE j > n
    BY <1>1, <1>2, <1>3, <2>1
  <2>2. CASE ~(j > n) /\ IsBlank(s[j])
    <3>1. j \in 1 .. n /\ j + 1 \in 1 .. n + 1 /\ (j + 1) + d > n
      BY <1>1, <2>2
    <3>2. f[j] = f[j + 1]
      BY <1>2, <2>2, <3>1
    <3>3. f[j + 1] \in R
      BY <1>6, <3>1
    <3> QED BY <3>2, <3>3
  <2>3. CASE ~(j > n) /\ ~IsBlank(s[j])
    <3> DEFINE e == WordEnd(s, j)
               p == SubSeq(s, j, e - 1)
    <3>1. j \in 1 .. n
      BY <1>1, <2>3
    <3>2. p \in Seq(Spacing) /\ e \in j + 1 .. n + 1
      BY <1>4, <2>3, <3>1
    <3>3. f[j] = <<p>> \o f[e]
      BY <1>2, <2>3, <3>1
    <3> HIDE DEF e, p
    <3>4. e \in 1 .. n + 1 /\ e + d > n
      BY <1>1, <3>1, <3>2
    <3>5. f[e] \in R
      BY <1>6, <3>4
    <3>6. <<p>> \in R
      BY <3>2, FewOf DEF R
    <3>7. <<p>> \o f[e] \in R
      BY <3>5, <3>6, ConcatProperties DEF R
    <3> QED BY <3>3, <3>7
  <2> QED BY <2>1, <2>2, <2>3
<1>7. n \in Good
  <2> HIDE DEF Good
  <2> QED BY <1>1, <1>5, <1>6, NatInd
<1>8. i + n > n /\ i \in 1 .. n + 1
  BY <1>1 DEF n
<1> QED BY <1>7, <1>8 DEF R

\* It passes over blanks.
LEMMA SkipBlanks ==
  ASSUME NEW s \in Seq(Spacing), NEW f, IsReading(f, s), NEW a \in 1 .. Len(s) + 1, NEW b \in a .. Len(s) + 1,
         \A z \in a .. b - 1 : IsBlank(s[z])
  PROVE  f[a] = f[b]
<1> DEFINE n == Len(s)
           Good == {d \in Nat : a + d <= b => f[a] = f[a + d]}
<1>1. n \in Nat
  OBVIOUS
<1>2. \A j \in 1 .. n : IsBlank(s[j]) => f[j] = f[j + 1]
  BY ReadingIs, Zenon
<1> HIDE DEF n
<1>3. a \in 1 .. n + 1 /\ b \in a .. n + 1
  BY DEF n
<1>4. 0 \in Good
  BY <1>1, <1>3
<1>5. ASSUME NEW d \in Nat, d \in Good PROVE d + 1 \in Good
  <2> SUFFICES ASSUME a + (d + 1) <= b PROVE f[a] = f[a + (d + 1)]
    OBVIOUS
  <2>1. a + d <= b /\ a + d \in a .. b - 1 /\ a + d \in 1 .. n /\ (a + d) + 1 = a + (d + 1)
    BY <1>1, <1>3
  <2>2. f[a] = f[a + d]
    BY <1>5, <2>1
  <2>3. IsBlank(s[a + d])
    BY <2>1
  <2>4. f[a + d] = f[(a + d) + 1]
    BY <1>2, <2>1, <2>3
  <2> QED BY <2>1, <2>2, <2>4
<1>6. b - a \in Nat /\ a + (b - a) = b /\ a + (b - a) <= b
  BY <1>1, <1>3
<1>7. b - a \in Good
  <2> HIDE DEF Good
  <2> QED BY <1>4, <1>5, <1>6, NatInd
<1> QED BY <1>6, <1>7

\* It takes a word as a whole.
LEMMA ReadsWord ==
  ASSUME NEW s \in Seq(Spacing), NEW f, IsReading(f, s),
         NEW W \in Seq(Word), NEW I, NEW st, WordsAt(s, W, I, st), NEW i \in I
  PROVE  f[st[i]] = <<W[i]>> \o f[st[i] + Len(W[i])]
<1> DEFINE n == Len(s)
           a == st[i]
           L == Len(W[i])
           e == WordEnd(s, a)
           t == SubSeq(s, a, e - 1)
<1>1. i \in 1 .. Len(W) /\ a \in Int /\ 1 <= a /\ a + L <= n + 1
  BY DEF WordsAt
<1>2. n \in Nat /\ \A j \in 1 .. n : s[j] \in Spacing
  OBVIOUS
<1>3. W[i] \in Seq(NameChars) /\ L \in Nat \ {0}
  BY <1>1, WordIs
<1>4. a + L <= n => IsBlank(s[a + L])
  BY <1>2, AroundWord
<1>5. \A k \in 1 .. L : s[a + (k - 1)] = W[i][k]
  BY Zenon DEF WordsAt
<1>6. \A z \in a .. a + L - 1 : ~IsBlank(s[z])
  <2> SUFFICES ASSUME NEW z \in a .. a + L - 1 PROVE ~IsBlank(s[z])
    OBVIOUS
  <2>1. z \in Int
    BY <1>1, <1>3
  <2>2. In(W, st, i, z)
    BY <1>1, <1>3 DEF In
  <2> QED BY <2>1, <2>2, InIs
<1> HIDE DEF n, a, L
<1>7. a \in 0 .. n /\ a \in 1 .. n /\ a \in a .. a + L - 1
  BY <1>1, <1>2, <1>3
<1>8. e = a + L
  <2>1. /\ e \in a .. n + 1
        /\ \A j \in a .. e - 1 : ~IsBlank(s[j])
        /\ e <= n => IsBlank(s[e])
    BY <1>2, <1>7, WordEndIs DEF n
  <2> HIDE DEF e
  <2>2. ~(e < a + L)
    <3> SUFFICES ASSUME e < a + L PROVE FALSE
      OBVIOUS
    <3>1. e \in a .. a + L - 1 /\ e <= n
      BY <1>1, <1>2, <1>3, <2>1
    <3> QED BY <1>6, <2>1, <3>1
  <2>3. ~(a + L < e)
    <3> SUFFICES ASSUME a + L < e PROVE FALSE
      OBVIOUS
    <3>1. a + L \in a .. e - 1 /\ a + L <= n
      BY <1>1, <1>2, <1>3, <2>1
    <3> QED BY <1>4, <2>1, <3>1
  <2> QED BY <1>1, <1>2, <1>3, <2>1, <2>2, <2>3
<1>9. f[a] = <<t>> \o f[e]
  <2>1. ~IsBlank(s[a]) /\ a \in 1 .. Len(s)
    BY <1>6, <1>7 DEF n
  <2> HIDE DEF e
  <2> QED BY <2>1, ReadingIs, Zenon DEF e
<1>10. t = W[i]
  <2>1. \A j \in a .. e - 1 : s[j] \in Spacing
    <3>1. e - 1 <= n
      BY <1>1, <1>2, <1>3, <1>8
    <3> HIDE DEF e
    <3> QED BY <1>1, <1>2, <1>3, <1>8, <3>1
  <2>2. a \in Int /\ e - 1 \in Int /\ e - 1 = a + (L - 1) /\ a <= e - 1 /\ (e - 1) - a + 1 = L
    <3> HIDE DEF e
    <3> QED BY <1>1, <1>3, <1>8
  <2> HIDE DEF e
  <2>3. t \in Seq(Spacing) /\ Len(t) = L /\ \A k \in 1 .. L : t[k] = s[a + k - 1]
    BY <2>1, <2>2, SubSeqProperties
  <2>4. \A k \in 1 .. L : t[k] = W[i][k]
    <3> HIDE DEF t
    <3>1. \A k \in 1 .. L : a + k - 1 = a + (k - 1)
      BY <1>1
    <3> QED BY <1>5, <2>3, <3>1
  <2>5. W[i] \in Seq(Spacing) /\ Len(W[i]) = L
    <3>1. NameChars \subseteq Spacing
      BY DEF Spacing
    <3> QED BY <1>3, <3>1, SeqMonotonic DEF L
  <2> HIDE DEF t
  <2> QED BY <2>3, <2>4, <2>5, SeqEqual
<1> QED BY <1>8, <1>9, <1>10 DEF a, L

\* Between words there are but blanks.
LEMMA GapIsBlank ==
  ASSUME NEW W \in Seq(Word), NEW s, Len(s) \in Nat, NEW I, NEW st, WordsAt(s, W, I, st),
         NEW a \in Nat \ {0}, NEW b \in Nat, b <= Len(s) + 1,
         \A i \in I : st[i] + Len(W[i]) <= a \/ b <= st[i]
  PROVE  \A z \in a .. b - 1 : IsBlank(s[z])
<1> SUFFICES ASSUME NEW z \in a .. b - 1 PROVE IsBlank(s[z])
  OBVIOUS
<1>1. z \in 1 .. Len(s)
  OBVIOUS
<1>2. ASSUME NEW i \in I, In(W, st, i, z) PROVE FALSE
  <2>1. i \in 1 .. Len(W) /\ st[i] \in Int
    BY DEF WordsAt
  <2>2. Len(W[i]) \in Nat
    BY <2>1, WordIs
  <2>3. st[i] <= z /\ z < st[i] + Len(W[i])
    BY <1>2 DEF In
  <2> QED BY <2>1, <2>2, <2>3
<1> QED BY <1>1, <1>2, Zenon DEF WordsAt

\* The words of I, each as a text of its own.
KeptWords(W, I) == [i \in 1 .. Len(W) |-> IF i \in I THEN <<W[i]>> ELSE <<>>]

LEMMA KeptWordsType ==
  ASSUME NEW W \in Seq(Word), NEW I
  PROVE  KeptWords(W, I) \in Seq(Seq(Seq(Spacing))) /\ Len(KeptWords(W, I)) = Len(W)
<1>1. Len(W) \in Nat
  OBVIOUS
<1>2. ASSUME NEW i \in 1 .. Len(W)
      PROVE  KeptWords(W, I)[i] \in Seq(Seq(Spacing))
  <2>1. W[i] \in Seq(NameChars) /\ NameChars \subseteq Spacing
    BY WordIs DEF Spacing
  <2>2. W[i] \in Seq(Spacing)
    BY <2>1, SeqMonotonic
  <2>3. <<W[i]>> \in Seq(Seq(Spacing)) /\ <<>> \in Seq(Seq(Spacing))
    BY <2>2
  <2> QED BY <2>3 DEF KeptWords
<1>3. KeptWords(W, I) = [i \in 1 .. Len(W) |-> KeptWords(W, I)[i]]
  BY DEF KeptWords
<1>4. KeptWords(W, I) \in [1 .. Len(W) -> Seq(Seq(Spacing))]
  BY <1>2, <1>3
<1> QED BY <1>1, <1>4, FewSeq

\* z is behind the words up to the k-th, and none is behind k and before z.
Passed(W, I, st, k, z) ==
  /\ \A i \in I : i <= k => st[i] + Len(W[i]) <= z
  /\ \A i \in I : i > k => z <= st[i]

\* What is read of a text are its words.
LEMMA WordsKept ==
  ASSUME NEW W \in Seq(Word), NEW s \in Seq(Spacing), NEW I, NEW st, WordsAt(s, W, I, st)
  PROVE  WordsOf(s) = FlattenSeq(KeptWords(W, I))
<1> DEFINE n == Len(s)
           N == Len(W)
           R == Seq(Spacing)
           w == KeptWords(W, I)
           f == CHOOSE f : IsReading(f, s)
<1>1. WordsOf(s) = f[1]
  BY Zenon DEF WordsOf, IsReading
<1>2. IsReading(f, s)
  BY ReadingThere, Zenon
<1>3. n \in Nat /\ N \in Nat
  OBVIOUS
<1> HIDE DEF f
<1>4. w \in Seq(Seq(R)) /\ Len(w) = N
  BY KeptWordsType
<1>5. PICK p : Pieces(p, w, R) /\ FlattenSeq(w) = p[Len(w)]
  BY <1>4, FlattenIs, Zenon
<1>6. \A z \in 1 .. n + 1 : f[z] \in Seq(R)
  BY <1>2, ReadingType
<1>7. I \subseteq 1 .. N /\ \A i \in I : st[i] \in Int /\ 1 <= st[i] /\ st[i] + Len(W[i]) <= n + 1
  BY DEF WordsAt
<1>8. \A i \in I : Len(W[i]) \in Nat \ {0}
  BY <1>7, WordIs
<1>9. \A i, j \in I : i < j => st[i] + Len(W[i]) < st[j]
  BY Zenon DEF WordsAt
<1>10. \A i \in 1 .. N : w[i] = IF i \in I THEN <<W[i]>> ELSE <<>>
  BY DEF KeptWords
<1>11. \A i \in I : f[st[i]] = <<W[i]>> \o f[st[i] + Len(W[i])]
  BY <1>2, ReadsWord
<1>12. \A a \in 1 .. n + 1 : \A b \in a .. n + 1 : (\A z \in a .. b - 1 : IsBlank(s[z])) => f[a] = f[b]
  BY <1>2, SkipBlanks
<1>13. \A a \in Nat \ {0} : \A b \in Nat : b <= n + 1 /\ (\A i \in I : st[i] + Len(W[i]) <= a \/ b <= st[i])
          => \A z \in a .. b - 1 : IsBlank(s[z])
  BY <1>3, GapIsBlank
<1>14. f[n + 1] = <<>>
  <2>1. n + 1 \in Nat /\ n + 1 > Len(s)
    BY <1>3
  <2> QED BY <1>2, <2>1, ReadingIs, Zenon
<1> HIDE DEF n, N, R, w
<1> DEFINE Reached(k) == \E z \in 1 .. n + 1 : Passed(W, I, st, k, z) /\ f[1] = p[k] \o f[z]
           Good == {k \in Nat : k <= N => Reached(k)}
<1>15. 0 \in Good
  <2>1. 1 \in 1 .. n + 1
    BY <1>3
  <2>2. Passed(W, I, st, 0, 1)
    BY <1>7, <1>3 DEF Passed
  <2>3. p[0] = <<>>
    BY <1>5, Zenon DEF Pieces
  <2>4. f[1] = p[0] \o f[1]
    <3>1. f[1] \in Seq(R)
      BY <1>6, <2>1
    <3> QED BY <2>3, <3>1
  <2> QED BY <2>1, <2>2, <2>4
<1>16. ASSUME NEW k \in Nat, k \in Good PROVE k + 1 \in Good
  <2>0. k + 1 \in Nat /\ (k + 1 <= N => k <= N)
    BY <1>3
  <2> SUFFICES ASSUME k + 1 <= N
               PROVE  Reached(k + 1)
    BY <2>0, Zenon
  <2>r. Reached(k)
    BY <1>16, <2>0, Zenon
  <2>1. PICK z \in 1 .. n + 1 : Passed(W, I, st, k, z) /\ f[1] = p[k] \o f[z]
    BY <2>r, Zenon
  <2> HIDE DEF Good
  <2>2. p[k] \in Seq(R) /\ w[k + 1] \in Seq(R) /\ p[k + 1] = p[k] \o w[k + 1]
    <3>1. k + 1 \in 1 .. Len(w) /\ (k + 1) - 1 = k
      BY <1>3, <1>4
    <3>2. p[(k + 1) - 1] \in Seq(R) /\ w[k + 1] \in Seq(R) /\ p[k + 1] = p[(k + 1) - 1] \o w[k + 1]
      BY <1>4, <1>5, <3>1, PieceNext
    <3> QED BY <3>1, <3>2
  <2>3. k + 1 \in 1 .. N
    BY <1>3
  <2>4. CASE k + 1 \notin I
    <3>1. p[k + 1] = p[k]
      <4>1. w[k + 1] = <<>>
        BY <1>10, <2>3, <2>4
      <4> DEFINE c == p[k]
      <4>2. c \in Seq(R) /\ p[k + 1] = c \o <<>>
        BY <2>2, <4>1
      <4> HIDE DEF c
      <4>3. c \o <<>> = c
        BY <4>2
      <4> QED BY <4>2, <4>3 DEF c
    <3>2. Passed(W, I, st, k + 1, z)
      <4>1. \A i \in I : i \in Int /\ i # k + 1
        BY <1>7, <2>4
      <4>2. \A i \in I : (i <= k + 1 => i <= k) /\ (i > k + 1 => i > k)
        BY <4>1
      <4> QED BY <2>1, <4>2, Zenon DEF Passed
    <3> QED BY <2>1, <3>1, <3>2, Zenon
  <2>5. CASE k + 1 \in I
    <3> DEFINE i == k + 1
               a == st[i]
               e == st[i] + Len(W[i])
    <3>1. a \in Int /\ z <= a /\ e \in 1 .. n + 1 /\ a \in z .. n + 1 /\ a < e /\ a <= n + 1 /\ a \in Nat
      <4>1. z <= a
        BY <2>1, <2>5 DEF Passed
      <4> QED BY <1>3, <1>7, <1>8, <2>5, <4>1
    <3>2. \A j \in I : st[j] + Len(W[j]) <= z \/ a <= st[j]
      <4> SUFFICES ASSUME NEW j \in I PROVE st[j] + Len(W[j]) <= z \/ a <= st[j]
        OBVIOUS
      <4>0. j \in Int /\ st[j] \in Int
        BY <1>7
      <4>1. CASE j <= k
        BY <2>1, <4>1 DEF Passed
      <4>2. CASE j = k + 1
        BY <3>1, <4>2
      <4>3. CASE k + 1 < j
        <5>1. e < st[j]
          BY <1>9, <2>5, <4>3
        <5> QED BY <3>1, <4>0, <5>1
      <4> QED BY <4>0, <4>1, <4>2, <4>3
    <3>3. f[z] = f[a]
      <4>1. z \in Nat \ {0}
        BY <1>3
      <4>2. \A y \in z .. a - 1 : IsBlank(s[y])
        BY <1>13, <3>1, <3>2, <4>1
      <4> QED BY <1>12, <3>1, <4>2
    <3>4. f[a] = <<W[i]>> \o f[e]
      BY <1>11, <2>5
    <3>5. w[i] = <<W[i]>>
      BY <1>10, <2>3, <2>5
    <3>6. f[1] = p[k + 1] \o f[e]
      <4>1. f[e] \in Seq(R)
        BY <1>6, <3>1
      <4>2. f[1] = p[k] \o (w[k + 1] \o f[e])
        BY <2>1, <3>3, <3>4, <3>5
      <4>3. (p[k] \o w[k + 1]) \o f[e] = p[k] \o (w[k + 1] \o f[e])
        <5> DEFINE b == w[k + 1]
                   c == p[k]
                   d == f[e]
        <5>1. c \in Seq(R) /\ b \in Seq(R) /\ d \in Seq(R)
          BY <2>2, <4>1
        <5> HIDE DEF b, c, d
        <5>2. Regroups(c, b, d)
          BY <5>1, Regroup, Zenon
        <5> QED BY <5>2, Zenon DEF Regroups, b, c, d
      <4> QED BY <2>2, <4>2, <4>3, Zenon
    <3>7. Passed(W, I, st, k + 1, e)
      <4>1. ASSUME NEW j \in I, j <= k + 1 PROVE st[j] + Len(W[j]) <= e
        <5>0. j \in Int /\ st[j] \in Int /\ Len(W[j]) \in Nat
          BY <1>7, <1>8
        <5>1. CASE j = k + 1
          BY <3>1, <5>1
        <5>2. CASE j < k + 1
          <6>1. st[j] + Len(W[j]) < a
            BY <1>9, <2>5, <5>2
          <6> QED BY <3>1, <5>0, <6>1
        <5> QED BY <4>1, <5>0, <5>1, <5>2
      <4>2. ASSUME NEW j \in I, j > k + 1 PROVE e <= st[j]
        <5>0. j \in Int /\ st[j] \in Int /\ k + 1 < j
          BY <1>7, <4>2
        <5>1. e < st[j]
          BY <1>9, <2>5, <5>0
        <5> QED BY <3>1, <5>0, <5>1
      <4> QED BY <4>1, <4>2 DEF Passed
    <3> HIDE DEF e
    <3> QED BY <3>1, <3>6, <3>7
  <2> QED BY <2>4, <2>5
<1>17. N \in Good
  <2> HIDE DEF Good
  <2>1. \A k \in Nat : k \in Good => k + 1 \in Good
    BY <1>16, Zenon
  <2>2. Nat \subseteq Good
    BY <1>15, <2>1, NatInd, Zenon
  <2> QED BY <1>3, <2>2, Zenon
<1>18. PICK z \in 1 .. n + 1 : Passed(W, I, st, N, z) /\ f[1] = p[N] \o f[z]
  <2>1. N <= N
    BY <1>3
  <2>2. Reached(N)
    BY <1>17, <2>1, Zenon
  <2> QED BY <2>2, Zenon
<1>19. f[z] = <<>>
  <2>1. \A i \in I : st[i] + Len(W[i]) <= z
    BY <1>3, <1>7, <1>18 DEF Passed
  <2>2. z \in Nat \ {0} /\ n + 1 \in Nat /\ n + 1 <= n + 1 /\ n + 1 \in z .. n + 1
    BY <1>3
  <2>3. \A y \in z .. (n + 1) - 1 : IsBlank(s[y])
    BY <1>13, <2>1, <2>2
  <2>4. f[z] = f[n + 1]
    BY <1>12, <2>2, <2>3
  <2> QED BY <1>14, <2>4
<1>20. p[N] \in Seq(R)
  <2>1. p \in [0 .. Len(w) -> Seq(R)]
    BY <1>5, Zenon DEF Pieces
  <2> QED BY <1>3, <1>4, <2>1
<1>21. f[1] = p[N]
  BY <1>18, <1>19, <1>20
<1> QED BY <1>1, <1>4, <1>5, <1>21 DEF w

-----------------------------------------------------------------------------
(* The name of a file                                                      *)

SpacedWord(W, i) == IF i = 1 THEN W[i] ELSE <<" ">> \o W[i]
Gap(i) == IF i = 1 THEN 0 ELSE 1
SpacedWords(W) == [i \in 1 .. Len(W) |-> SpacedWord(W, i)]

\* Each is the word, behind a blank but for the first.
LEMMA SpacedWordIs ==
  ASSUME NEW W \in Seq(Word), NEW i \in 1 .. Len(W)
  PROVE  /\ SpacedWord(W, i) \in Seq(Spacing) /\ Len(SpacedWord(W, i)) = Gap(i) + Len(W[i])
         /\ \A k \in 1 .. Len(W[i]) : SpacedWord(W, i)[Gap(i) + k] = W[i][k]
         /\ \A k \in 1 .. Gap(i) : IsBlank(SpacedWord(W, i)[k])
<1> DEFINE w == W[i]
           c == " "
           t == SpacedWord(W, i)
<1>1. w \in Seq(NameChars) /\ NameChars \subseteq Spacing /\ c \in Spacing /\ IsBlank(c)
  <2>1. NameChars \subseteq Spacing
    BY Zenon DEF Spacing
  <2>2. c \in Spacing /\ IsBlank(c)
    BY Zenon DEF Spacing, IsBlank
  <2> QED BY <2>1, <2>2, WordIs
<1>2. w \in Seq(Spacing)
  BY <1>1, SeqMonotonic
<1>3. t = IF i = 1 THEN w ELSE <<c>> \o w
  BY Zenon DEF SpacedWord
<1> HIDE DEF w, c, t
<1>4. CASE i = 1
  <2>1. t = w
    BY <1>3, <1>4
  <2> QED BY <1>2, <1>4, <2>1 DEF w, t, Gap
<1>5. CASE i # 1
  <2> DEFINE u == <<c>> \o w
  <2>1. t = u
    BY <1>3, <1>5
  <2>2. <<c>> \in Seq(Spacing) /\ Len(<<c>>) = 1 /\ <<c>>[1] = c
    BY <1>1
  <2>3. u \in Seq(Spacing) /\ Len(u) = 1 + Len(w)
    BY <1>2, <2>2, ConcatProperties
  <2>4. u[1] = c /\ \A k \in 1 .. Len(w) : u[1 + k] = w[k]
    BY <1>2, <2>2
  <2> HIDE DEF u
  <2>5. \A k \in 1 .. 1 : IsBlank(t[k])
    <3>1. \A k \in 1 .. 1 : k = 1
      OBVIOUS
    <3> QED BY <1>1, <2>1, <2>4, <3>1
  <2> QED BY <1>5, <2>1, <2>3, <2>4, <2>5 DEF w, t, Gap
<1> QED BY <1>4, <1>5

\* The words are in the name of the file.
LEMMA SpacedWordsAt ==
  ASSUME NEW W \in Seq(Word), W # <<>>
  PROVE  /\ Spaced(W) \in Seq(Spacing) /\ Len(Spaced(W)) # 0
         /\ \E st : WordsAt(Spaced(W), W, 1 .. Len(W), st)
<1> DEFINE N == Len(W)
           v == SpacedWords(W)
           s == Spaced(W)
<1>0. \A i \in 1 .. N : Gap(i) \in Nat /\ (i # 1 => Gap(i) = 1)
  BY DEF Gap
<1>1. N \in Nat \ {0} /\ DOMAIN W = 1 .. N
  OBVIOUS
<1>2. s = FlattenSeq(v)
  BY <1>1, Zenon DEF Spaced, SpacedWords, SpacedWord
<1>3. \A i \in 1 .. N : /\ v[i] \in Seq(Spacing) /\ Len(v[i]) = Gap(i) + Len(W[i])
                        /\ \A k \in 1 .. Len(W[i]) : v[i][Gap(i) + k] = W[i][k]
                        /\ \A k \in 1 .. Gap(i) : IsBlank(v[i][k])
  BY SpacedWordIs DEF SpacedWords
<1>4. \A i \in 1 .. N : Len(W[i]) \in Nat \ {0}
  BY WordIs
<1>5. v \in Seq(Seq(Spacing)) /\ Len(v) = N
  <2>1. v = [i \in 1 .. N |-> v[i]]
    BY DEF SpacedWords
  <2> HIDE DEF v
  <2>2. v \in [1 .. N -> Seq(Spacing)]
    BY <1>3, <2>1
  <2> QED BY <1>1, <2>2, FewSeq
<1> HIDE DEF N, v, s
<1>6. PICK p : Pieces(p, v, Spacing) /\ s = p[N]
  BY <1>2, <1>5, FlattenIs
<1>7. s \in Seq(Spacing)
  <2>1. N \in 0 .. Len(v)
    BY <1>1, <1>5
  <2> QED BY <1>5, <1>6, <2>1, PieceType
<1>8. \A k \in 1 .. N : /\ Len(p[k - 1]) \in Nat /\ Len(v[k]) \in Nat /\ Len(p[k]) = Len(p[k - 1]) + Len(v[k])
                        /\ Lies(v[k], s, Len(p[k - 1]))
  <2> SUFFICES ASSUME NEW k \in 1 .. N
               PROVE  /\ Len(p[k - 1]) \in Nat /\ Len(v[k]) \in Nat /\ Len(p[k]) = Len(p[k - 1]) + Len(v[k])
                      /\ Lies(v[k], s, Len(p[k - 1]))
    OBVIOUS
  <2>1. k \in 1 .. Len(v) /\ Pieces(p, v, Spacing) /\ s = p[Len(v)]
    BY <1>5, <1>6
  <2>2. Lies(v[k], p[Len(v)], Len(p[k - 1]))
    BY <1>5, <2>1, PieceAt
  <2>3. Len(p[k - 1]) \in Nat /\ Len(v[k]) \in Nat /\ Len(p[k]) = Len(p[k - 1]) + Len(v[k])
    BY <1>5, <2>1, PieceLen
  <2> QED BY <2>1, <2>2, <2>3, Zenon
<1>9. ASSUME NEW i \in 1 .. Len(s) PROVE \E k \in 1 .. N : \E j \in 1 .. Len(v[k]) : i = Len(p[k - 1]) + j
  <2>1. i \in 1 .. Len(p[Len(v)])
    BY <1>5, <1>6
  <2>2. PlaceOf(p, v, i)
    BY <1>5, <1>6, <2>1, PieceOf
  <2> QED BY <1>5, <2>2, Zenon DEF PlaceOf
<1> DEFINE g == [k \in 1 .. N |-> Len(p[k])]
           st == [k \in 1 .. N |-> Len(p[k - 1]) + Gap(k) + 1]
<1>10. \A k \in 1 .. N : /\ st[k] = Len(p[k - 1]) + Gap(k) + 1 /\ g[k] = Len(p[k]) /\ Gap(k) \in Nat
                         /\ g[k] \in Nat /\ st[k] + Len(W[k]) = g[k] + 1
                         /\ st[k] \in Nat \ {0}
  <2> SUFFICES ASSUME NEW k \in 1 .. N
               PROVE  /\ st[k] = Len(p[k - 1]) + Gap(k) + 1 /\ g[k] = Len(p[k]) /\ Gap(k) \in Nat
                      /\ g[k] \in Nat /\ st[k] + Len(W[k]) = g[k] + 1
                      /\ st[k] \in Nat \ {0}
    OBVIOUS
  <2>1. st[k] = Len(p[k - 1]) + Gap(k) + 1 /\ g[k] = Len(p[k])
    OBVIOUS
  <2>2. Gap(k) \in Nat /\ Len(v[k]) = Gap(k) + Len(W[k]) /\ Len(W[k]) \in Nat
    BY <1>0, <1>3, <1>4
  <2>3. Len(p[k - 1]) \in Nat /\ Len(p[k]) = Len(p[k - 1]) + Len(v[k])
    BY <1>8
  <2> DEFINE a == Len(p[k - 1])
             b == Gap(k)
             l == Len(W[k])
             c == Len(v[k])
             d == st[k]
             e == g[k]
  <2>4. d = a + b + 1 /\ e = a + c /\ b \in Nat /\ c = b + l /\ l \in Nat /\ a \in Nat
    BY <2>1, <2>2, <2>3
  <2> HIDE DEF a, b, c, d, e, l
  <2>5. e \in Nat /\ d + l = e + 1 /\ d \in Nat \ {0}
    BY <2>4
  <2> QED BY <2>1, <2>2, <2>5 DEF d, e, l
<1>11. g \in [1 .. N -> Nat]
  BY <1>10
<1>12. st \in [1 .. N -> Int]
  BY <1>10
<1>13. \A k \in 1 .. N : k < N => g[k] < g[k + 1]
  <2> SUFFICES ASSUME NEW k \in 1 .. N, k < N PROVE g[k] < g[k + 1]
    OBVIOUS
  <2>1. k + 1 \in 1 .. N /\ (k + 1) - 1 = k
    BY <1>1
  <2>2. Len(p[k + 1]) = Len(p[k]) + Len(v[k + 1]) /\ Len(v[k + 1]) = Gap(k + 1) + Len(W[k + 1])
    BY <1>3, <1>8, <2>1
  <2>3. g[k + 1] = Len(p[k + 1]) /\ g[k] = Len(p[k]) /\ Gap(k + 1) \in Nat /\ g[k] \in Nat
    BY <1>10, <2>1
  <2> DEFINE a == g[k]
             b == Gap(k + 1)
             l == Len(W[k + 1])
             d == g[k + 1]
  <2>4. l \in Nat \ {0}
    BY <1>4, <2>1
  <2>5. d = a + (b + l) /\ a \in Nat /\ b \in Nat
    BY <2>2, <2>3
  <2> HIDE DEF a, b, d, l
  <2>6. a < d
    BY <2>4, <2>5
  <2> QED BY <2>6 DEF a, d
<1> HIDE DEF g, st
<1>14. \A i, j \in 1 .. N : i < j => g[i] < g[j]
  BY <1>1, <1>11, <1>13, Rises
<1>15. \A i \in 1 .. N : st[i] + Len(W[i]) <= Len(s) + 1
  <2> SUFFICES ASSUME NEW i \in 1 .. N PROVE st[i] + Len(W[i]) <= Len(s) + 1
    OBVIOUS
  <2>1. i <= N /\ N \in 1 .. N
    BY <1>1
  <2>2. g[N] = Len(s) /\ Len(s) \in Nat
    BY <1>6, <1>7, <1>10, <2>1
  <2>3. i # N => g[i] < g[N]
    BY <1>14, <2>1
  <2>4. st[i] + Len(W[i]) = g[i] + 1 /\ g[i] \in Nat
    BY <1>10
  <2> QED BY <2>1, <2>2, <2>3, <2>4
<1>16. \A i \in 1 .. N : \A k \in 1 .. Len(W[i]) : s[st[i] + (k - 1)] = W[i][k]
  <2> SUFFICES ASSUME NEW i \in 1 .. N, NEW k \in 1 .. Len(W[i]) PROVE s[st[i] + (k - 1)] = W[i][k]
    OBVIOUS
  <2>1. Len(W[i]) \in Nat /\ Len(p[i - 1]) \in Nat
    BY <1>4, <1>8
  <2>2. Gap(i) \in Nat /\ st[i] = Len(p[i - 1]) + Gap(i) + 1 /\ Len(v[i]) = Gap(i) + Len(W[i])
    BY <1>3, <1>10
  <2>3. v[i][Gap(i) + k] = W[i][k]
    BY <1>3
  <2>4. Gap(i) + k \in 1 .. Len(v[i]) /\ Len(p[i - 1]) + (Gap(i) + k) = st[i] + (k - 1)
    <3> DEFINE a == Len(p[i - 1])
               b == Gap(i)
               l == Len(W[i])
               c == Len(v[i])
               d == st[i]
    <3>1. d = a + b + 1 /\ c = b + l /\ b \in Nat /\ l \in Nat /\ a \in Nat /\ k \in 1 .. l
      BY <2>1, <2>2
    <3> HIDE DEF a, b, c, d, l
    <3>2. b + k \in 1 .. c /\ a + (b + k) = d + (k - 1)
      BY <3>1
    <3> QED BY <3>2 DEF a, b, c, d
  <2>5. s[Len(p[i - 1]) + (Gap(i) + k)] = v[i][Gap(i) + k]
    BY <1>8, <2>4, Zenon DEF Lies
  <2> QED BY <2>3, <2>4, <2>5
<1>17. \A i, j \in 1 .. N : i < j => st[i] + Len(W[i]) < st[j]
  <2> SUFFICES ASSUME NEW i \in 1 .. N, NEW j \in 1 .. N, i < j PROVE st[i] + Len(W[i]) < st[j]
    OBVIOUS
  <2>1. j - 1 \in 1 .. N /\ j # 1 /\ (i = j - 1 \/ i < j - 1)
    BY <1>1
  <2>2. st[j] = Len(p[j - 1]) + 2
    <3>1. j \in 1 .. N /\ Gap(j) = 1 /\ st[j] = Len(p[j - 1]) + Gap(j) + 1
      BY <1>0, <1>10, <2>1
    <3>2. Len(p[j - 1]) \in Nat
      BY <1>8
    <3> QED BY <3>1, <3>2
  <2>3. g[j - 1] = Len(p[j - 1]) /\ g[j - 1] \in Nat /\ g[i] \in Nat /\ st[i] + Len(W[i]) = g[i] + 1
    BY <1>10, <2>1
  <2>4. i < j - 1 => g[i] < g[j - 1]
    BY <1>14, <2>1
  <2> QED BY <2>1, <2>2, <2>3, <2>4
<1>18. \A z \in 1 .. Len(s) : IsBlank(s[z]) \/ \E i \in 1 .. N : In(W, st, i, z)
  <2> SUFFICES ASSUME NEW z \in 1 .. Len(s) PROVE IsBlank(s[z]) \/ \E i \in 1 .. N : In(W, st, i, z)
    OBVIOUS
  <2>1. PICK k \in 1 .. N : \E j \in 1 .. Len(v[k]) : z = Len(p[k - 1]) + j
    BY <1>9
  <2>2. PICK j \in 1 .. Len(v[k]) : z = Len(p[k - 1]) + j
    BY <2>1
  <2>3. s[z] = v[k][j]
    BY <1>8, <2>2, Zenon DEF Lies
  <2>4. Gap(k) \in Nat /\ st[k] = Len(p[k - 1]) + Gap(k) + 1 /\ Len(v[k]) = Gap(k) + Len(W[k])
    BY <1>3, <1>10
  <2>5. \A i \in 1 .. Gap(k) : IsBlank(v[k][i])
    BY <1>3
  <2>6. Len(W[k]) \in Nat /\ Len(p[k - 1]) \in Nat
    BY <1>4, <1>8
  <2>7. CASE j <= Gap(k)
    <3>1. j \in 1 .. Gap(k)
      BY <2>4, <2>6, <2>7
    <3> QED BY <2>3, <2>5, <3>1
  <2>8. CASE ~(j <= Gap(k))
    <3> DEFINE a == Len(p[k - 1])
               b == Gap(k)
               l == Len(W[k])
               c == Len(v[k])
               d == st[k]
    <3>0. d = a + b + 1 /\ c = b + l /\ b \in Nat /\ l \in Nat /\ a \in Nat /\ j \in 1 .. c /\ ~(j <= b) /\ z = a + j
      BY <2>2, <2>4, <2>6, <2>8
    <3> HIDE DEF a, b, c, d, l
    <3>3. d <= z /\ z < d + l
      BY <3>0
    <3>1. st[k] <= z /\ z < st[k] + Len(W[k])
      BY <3>3 DEF d, l
    <3>2. In(W, st, k, z)
      BY <3>1, Zenon DEF In
    <3> QED BY <3>2
  <2> QED BY <2>7, <2>8
<1>19. WordsAt(s, W, 1 .. Len(W), st)
  <2>1. \A i \in 1 .. N : 1 <= st[i] /\ st[i] + Len(W[i]) <= Len(s) + 1
    BY <1>10, <1>15
  <2>2. 1 .. N \subseteq 1 .. N
    OBVIOUS
  <2>3. WordsAt(s, W, 1 .. N, st)
    BY <1>12, <1>16, <1>17, <1>18, <2>1, <2>2, Zenon DEF WordsAt, N
  <2> QED BY <2>3 DEF N
<1>20. Len(s) # 0
  <2>1. 1 \in 1 .. N
    BY <1>1
  <2>2. st[1] + Len(W[1]) <= Len(s) + 1 /\ st[1] \in Nat \ {0} /\ Len(W[1]) \in Nat \ {0}
    BY <1>4, <1>10, <1>15, <2>1
  <2>3. Len(s) \in Nat
    BY <1>7
  <2> QED BY <2>2, <2>3
<1> QED BY <1>7, <1>19, <1>20 DEF s

\* Of a name with its extension, the name is left.
IsDot(c) == c = "."

\* The last dot is that of the extension.
LEMMA ExtensionGoes ==
  ASSUME NEW s \in Seq(Spacing), Len(s) # 0
  PROVE  stripExt(s \o Extension) = s
<1> DEFINE e == Extension
           t == s \o e
           n == Len(s)
           dots == {i \in 2 .. Len(t) : IsDot(t[i])}
<1>1. stripExt(t) = IF dots = {} THEN t ELSE SubSeq(t, 1, Max(dots) - 1)
  BY Zenon DEF stripExt, IsDot
<1>2. e \in Seq(Spacing) /\ Len(e) = 4
  <2>1. "." \in Spacing /\ "g" \in Spacing
    BY Zenon DEF Spacing, NameChars, Letters
  <2>2. Extension = <<".", "g", "g", "g">>
    BY Zenon DEF Extension
  <2> QED BY <2>1, <2>2
<1>3. IsDot(e[1]) /\ ~IsDot(e[2]) /\ ~IsDot(e[3]) /\ ~IsDot(e[4])
  <2>1. e[1] = "." /\ e[2] = "g" /\ e[3] = "g" /\ e[4] = "g"
    BY DEF Extension
  <2>2. "." # "g"
    OBVIOUS
  <2> QED BY <2>1, <2>2, Zenon DEF IsDot
<1> HIDE DEF e
<1>4. n \in Nat \ {0} /\ t \in Seq(Spacing) /\ Len(t) = n + 4
  <2>1. n \in Nat \ {0}
    OBVIOUS
  <2>2. t \in Seq(Spacing) /\ Len(t) = n + Len(e)
    BY <1>2, ConcatProperties
  <2> QED BY <1>2, <2>1, <2>2
<1>5. (\A i \in 1 .. n : t[i] = s[i]) /\ \A i \in 1 .. 4 : t[n + i] = e[i]
  <2> DEFINE m == Len(e)
  <2>1. (\A i \in 1 .. n : t[i] = s[i]) /\ \A i \in 1 .. m : t[n + i] = e[i]
    BY <1>2, Joined
  <2>2. m = 4
    BY <1>2
  <2> QED BY <2>1, <2>2
<1> HIDE DEF n, t
<1>6. n + 1 \in dots
  <2>1. 1 \in 1 .. 4
    OBVIOUS
  <2>2. IsDot(t[n + 1])
    BY <1>3, <1>5, <2>1
  <2> QED BY <1>4, <2>2
<1>7. \A i \in dots : n + 1 >= i
  <2> SUFFICES ASSUME NEW i \in dots, i > n + 1 PROVE FALSE
    BY <1>4
  <2>1. \E j \in 2 .. 4 : i = n + j
    <3>1. i - n \in 2 .. 4 /\ i = n + (i - n)
      BY <1>4
    <3> QED BY <3>1
  <2>2. PICK j \in 2 .. 4 : i = n + j
    BY <2>1
  <2>3. j = 2 \/ j = 3 \/ j = 4
    OBVIOUS
  <2>4. j \in 1 .. 4 /\ IsDot(t[n + j])
    BY <2>2
  <2>5. IsDot(e[j])
    BY <1>5, <2>4
  <2> QED BY <1>3, <2>3, <2>5
<1>8. Max(dots) = n + 1
  <2>1. \A a \in dots : a \in Int
    BY <1>4
  <2> HIDE DEF dots
  <2>2. Max(dots) \in dots /\ \A y \in dots : Max(dots) >= y
    BY <1>6, <1>7, Zenon DEF Max
  <2>3. Max(dots) >= n + 1 /\ n + 1 >= Max(dots)
    BY <1>6, <1>7, <2>2
  <2> QED BY <1>4, <2>1, <2>2, <2>3
<1> HIDE DEF dots
<1>9. stripExt(t) = SubSeq(t, 1, n)
  <2>1. (n + 1) - 1 = n
    BY <1>4
  <2> QED BY <1>1, <1>6, <1>8, <2>1
<1>10. SubSeq(t, 1, n) = s
  <2> DEFINE u == SubSeq(t, 1, n)
  <2>1. \A i \in 1 .. n : t[i] \in Spacing
    BY <1>4
  <2>2. u \in Seq(Spacing) /\ Len(u) = n /\ \A i \in 1 .. n : u[i] = t[1 + i - 1]
    <3>1. 1 \in Int /\ n \in Int /\ 1 <= n /\ n - 1 + 1 = n
      BY <1>4
    <3> QED BY <2>1, <3>1, SubSeqProperties
  <2> HIDE DEF u
  <2>3. \A i \in 1 .. n : u[i] = s[i]
    <3>1. \A i \in 1 .. n : 1 + i - 1 = i
      OBVIOUS
    <3> QED BY <1>5, <2>2, <3>1
  <2> QED BY <2>2, <2>3, SeqEqual DEF n, u
<1> QED BY <1>9, <1>10 DEF t, e

-----------------------------------------------------------------------------
(* Its words dealt out                                                     *)

FirstOf(J) == IF J = {} THEN {} ELSE {Min(J)}

LEMMA FirstIs ==
  ASSUME NEW N \in Nat, NEW J, J \subseteq 1 .. N, J # {}
  PROVE  Min(J) \in J /\ \A i \in J : Min(J) <= i
<1>1. J \subseteq Nat
  OBVIOUS
<1>2. \E m \in J : \A i \in J : m <= i
  BY <1>1, LeastNat
<1> QED BY <1>2, Zenon DEF Min

\* A word as the text has it.
LEMMA WordCut ==
  ASSUME NEW W \in Seq(Word), NEW s \in Seq(Spacing), NEW I, NEW st, WordsAt(s, W, I, st), NEW m \in I
  PROVE  SubSeq(s, st[m], st[m] + (Len(W[m]) - 1)) = W[m]
<1> DEFINE n == Len(s)
           a == st[m]
           l == Len(W[m])
           e == a + (l - 1)
           t == SubSeq(s, a, e)
<1>1. m \in 1 .. Len(W) /\ a \in Int /\ 1 <= a /\ a + l <= n + 1
  BY DEF WordsAt
<1>2. n \in Nat /\ \A j \in 1 .. n : s[j] \in Spacing
  OBVIOUS
<1>3. W[m] \in Seq(NameChars) /\ l \in Nat \ {0}
  BY <1>1, WordIs
<1>4. \A k \in 1 .. l : s[a + (k - 1)] = W[m][k]
  BY Zenon DEF WordsAt
<1> HIDE DEF n, a, l
<1>5. \A j \in a .. e : s[j] \in Spacing
  BY <1>1, <1>2, <1>3
<1>6. a \in Int /\ e \in Int /\ a <= e /\ (e - a) + 1 = l
  BY <1>1, <1>3
<1> HIDE DEF e
<1>7. t \in Seq(Spacing) /\ Len(t) = l /\ \A k \in 1 .. l : t[k] = s[a + k - 1]
  BY <1>5, <1>6, SubSeqProperties
<1> HIDE DEF t
<1>8. \A k \in 1 .. l : t[k] = W[m][k]
  <2>1. \A k \in 1 .. l : a + k - 1 = a + (k - 1)
    BY <1>1
  <2> QED BY <1>4, <1>7, <2>1
<1>9. W[m] \in Seq(Spacing) /\ Len(W[m]) = l
  <2>1. NameChars \subseteq Spacing
    BY DEF Spacing
  <2> QED BY <1>3, <2>1, SeqMonotonic DEF l
<1> QED BY <1>7, <1>8, <1>9, SeqEqual DEF t, a, e, l

\* The version goes from the name, with its place.
Taken(s) == parseVTID_ParseVersion(s).length \in {4, 5}
VersionCut(s) == Cut(s, parseVTID_ParseVersion(s).off, parseVTID_ParseVersion(s).length + 2)
VersionText(s) == SubSeq(s, parseVTID_ParseVersion(s).off,
                         parseVTID_ParseVersion(s).off + parseVTID_ParseVersion(s).length)

\* The version found is the word, and the rest keeps the other words.
LEMMA TakesVersion ==
  ASSUME NEW W \in Seq(Word), NEW s \in Seq(Spacing), NEW I, NEW st, WordsAt(s, W, I, st),
         NEW m \in I, IsVersion(W[m]), \A i \in I : HasVersion(W[i]) => m <= i
  PROVE  /\ Taken(s) /\ VersionText(s) = W[m]
         /\ VersionCut(s) \in Seq(Spacing)
         /\ \E u : WordsAt(VersionCut(s), W, I \ {m}, u)
<1> DEFINE l == Len(W[m])
           v == parseVTID_ParseVersion(s)
<1>1. Len(s) \in Nat
  OBVIOUS
<1>2. v = [off |-> st[m], length |-> l - 1]
  BY <1>1, FindsVersion
<1>3. l \in {5, 6}
  BY Zenon DEF IsVersion
<1> HIDE DEF l, v
<1>4. v.off = st[m] /\ v.length = l - 1
  BY <1>2
<1>5. v.length \in {4, 5} /\ v.length + 2 = l + 1
  BY <1>3, <1>4
<1>6. VersionCut(s) = Cut(s, st[m], Len(W[m]) + 1)
  BY <1>4, <1>5, Zenon DEF VersionCut, v, l
<1>7. VersionText(s) = SubSeq(s, st[m], st[m] + (Len(W[m]) - 1))
  BY <1>4, Zenon DEF VersionText, v, l
<1>8. VersionText(s) = W[m]
  BY <1>7, WordCut
<1>9. VersionCut(s) \in Seq(Spacing) /\ WordsAt(VersionCut(s), W, I \ {m}, Moved(W, st, m))
  BY <1>6, CutKeepsWords
<1> QED BY <1>5, <1>8, <1>9, Zenon DEF Taken, v

\* So does the title id.
TitleCut(s) == Cut(s, parseVTID_ParseTitleID(s), 10)
TitleText(s) == SubSeq(s, parseVTID_ParseTitleID(s), parseVTID_ParseTitleID(s) + 8)

\* The title id found is the word, and the rest keeps the other words.
LEMMA TakesTitle ==
  ASSUME NEW W \in Seq(Word), NEW s \in Seq(Spacing), NEW I, NEW st, WordsAt(s, W, I, st),
         NEW m \in I, IsTitleID(W[m]), \A i \in I : HasTitleID(W[i]) => m <= i
  PROVE  /\ parseVTID_ParseTitleID(s) # 0 /\ TitleText(s) = W[m]
         /\ TitleCut(s) \in Seq(Spacing)
         /\ \E u : WordsAt(TitleCut(s), W, I \ {m}, u)
<1>1. Len(s) \in Nat
  OBVIOUS
<1>2. parseVTID_ParseTitleID(s) = st[m] /\ st[m] # 0
  BY <1>1, FindsTitle
<1>3. Len(W[m]) = 9
  BY Zenon DEF IsTitleID
<1>4. Len(W[m]) + 1 = 10 /\ Len(W[m]) - 1 = 8
  BY <1>3
<1>5. TitleCut(s) = Cut(s, st[m], Len(W[m]) + 1)
  BY <1>2, <1>4, Zenon DEF TitleCut
<1>6. TitleText(s) = SubSeq(s, st[m], st[m] + (Len(W[m]) - 1))
  BY <1>2, <1>4, Zenon DEF TitleText
<1>7. TitleText(s) = W[m]
  BY <1>6, WordCut
<1>8. TitleCut(s) \in Seq(Spacing) /\ WordsAt(TitleCut(s), W, I \ {m}, Moved(W, st, m))
  BY <1>5, CutKeepsWords
<1> QED BY <1>2, <1>7, <1>8, Zenon

\* A version is too short for a title id.
LEMMA VersionIsNoTitle ==
  ASSUME NEW W \in Seq(Word), NEW i \in 1 .. Len(W), IsVersion(W[i])
  PROVE  ~HasTitleID(W[i])
<1> DEFINE w == W[i]
<1>0. w \in Seq(NameChars)
  BY WordIs
<1> HIDE DEF w
<1>1. Len(w) \in {5, 6} /\ DOMAIN w = 1 .. Len(w)
  BY <1>0 DEF IsVersion, w
<1>2. ASSUME NEW k \in DOMAIN w, Fits(w, k, TitleIDKinds) PROVE FALSE
  <2>1. Len(TitleIDKinds) = 9
    BY TitleKinds, Zenon DEF KindsAre
  <2>2. k + Len(TitleIDKinds) - 1 <= Len(w)
    BY <1>2, Zenon DEF Fits
  <2>3. k \in 1 .. Len(w)
    BY <1>1, <1>2
  <2> QED BY <1>1, <2>1, <2>2, <2>3
<1> QED BY <1>2, Zenon DEF HasTitleID, w

\* A name gives its first version and its first title id to the fields, and keeps
\* the other words.
LEMMA EntrySplits ==
  ASSUME NEW W \in Seq(Word), W # <<>>,
         NEW J, J = {i \in 1 .. Len(W) : HasVersion(W[i])},
         NEW K, K = {i \in 1 .. Len(W) : HasTitleID(W[i])},
         \A i \in FirstOf(J) : IsVersion(W[i]),
         \A i \in FirstOf(K) : IsTitleID(W[i])
  PROVE  LET e == Entry(Spaced(W))
         IN  /\ e.version = IF J = {} THEN None ELSE W[Min(J)]
             /\ e.title_id = IF K = {} THEN None ELSE W[Min(K)]
             /\ WordsOf(e.name) = FlattenSeq(KeptWords(W, (1 .. Len(W)) \ (FirstOf(J) \cup FirstOf(K))))
<1> DEFINE N == Len(W)
           s == Spaced(W)
           left == IF Taken(s) THEN VersionCut(s) ELSE s
           t == parseVTID_ParseTitleID(left)
           name == IF t = 0 THEN left ELSE TitleCut(left)
           version == IF Taken(s) THEN VersionText(s) ELSE None
           title == IF t = 0 THEN None ELSE TitleText(left)
           A == (1 .. N) \ FirstOf(J)
           B == A \ FirstOf(K)
<1>1. N \in Nat /\ J \subseteq 1 .. N /\ K \subseteq 1 .. N
  OBVIOUS
<1>2. Entry(s) = [name |-> name, version |-> version, title_id |-> title]
  BY Zenon DEF Entry, Taken, VersionCut, VersionText, TitleCut, TitleText
<1>3. PICK st : WordsAt(s, W, 1 .. N, st)
  BY SpacedWordsAt
<1>4. s \in Seq(Spacing)
  BY SpacedWordsAt
<1> HIDE DEF s
<1>5. /\ left \in Seq(Spacing) /\ \E u : WordsAt(left, W, A, u)
      /\ version = IF J = {} THEN None ELSE W[Min(J)]
  <2>1. CASE J = {}
    <3>1. \A i \in 1 .. N : ~HasVersion(W[i])
      BY <2>1
    <3>2. Len(s) \in Nat
      BY <1>4
    <3>3. ~Taken(s)
      BY <1>3, <3>1, <3>2, FindsNoVersion DEF Taken
    <3>4. A = 1 .. N
      BY <2>1 DEF FirstOf
    <3> QED BY <1>3, <1>4, <2>1, <3>3, <3>4, Zenon
  <2>2. CASE J # {}
    <3> DEFINE m == Min(J)
    <3>1. m \in J /\ \A i \in J : m <= i
      BY <1>1, <2>2, FirstIs
    <3>2. A = (1 .. N) \ {m} /\ m \in FirstOf(J)
      BY <2>2, Zenon DEF FirstOf
    <3>3. IsVersion(W[m]) /\ m \in 1 .. N
      BY <1>1, <3>1, <3>2, Zenon
    <3>4. \A i \in 1 .. N : HasVersion(W[i]) => m <= i
      BY <3>1
    <3> HIDE DEF m
    <3>5. /\ Taken(s) /\ VersionText(s) = W[m]
          /\ VersionCut(s) \in Seq(Spacing)
          /\ \E u : WordsAt(VersionCut(s), W, (1 .. N) \ {m}, u)
      BY <1>3, <1>4, <3>3, <3>4, TakesVersion
    <3> QED BY <2>2, <3>2, <3>5, Zenon DEF m
  <2> QED BY <2>1, <2>2
<1> HIDE DEF left, version
<1>6. PICK u : WordsAt(left, W, A, u)
  BY <1>5, Zenon
<1>7. K \subseteq A
  <2> SUFFICES ASSUME NEW i \in K, i \in FirstOf(J) PROVE FALSE
    BY <1>1
  <2>1. IsVersion(W[i]) /\ i \in 1 .. N /\ HasTitleID(W[i])
    BY Zenon
  <2> QED BY <2>1, VersionIsNoTitle
<1> HIDE DEF A
<1>8. /\ name \in Seq(Spacing) /\ \E y : WordsAt(name, W, B, y)
      /\ title = IF K = {} THEN None ELSE W[Min(K)]
  <2>0. A \subseteq 1 .. N
    BY Zenon DEF A
  <2>1. CASE K = {}
    <3>1. \A i \in A : ~HasTitleID(W[i])
      BY <2>0, <2>1
    <3>2. Len(left) \in Nat
      BY <1>5
    <3>3. t = 0
      BY <1>6, <3>1, <3>2, FindsNoTitle
    <3>4. B = A
      BY <2>1 DEF FirstOf
    <3> HIDE DEF t
    <3> QED BY <1>5, <1>6, <2>1, <3>3, <3>4, Zenon
  <2>2. CASE K # {}
    <3> DEFINE m == Min(K)
    <3>1. m \in K /\ \A i \in K : m <= i
      BY <1>1, <2>2, FirstIs
    <3>2. B = A \ {m} /\ m \in FirstOf(K)
      BY <2>2, Zenon DEF FirstOf
    <3>3. IsTitleID(W[m]) /\ m \in A
      BY <1>7, <3>1, <3>2, Zenon
    <3>4. \A i \in A : HasTitleID(W[i]) => m <= i
      BY <2>0, <3>1
    <3> HIDE DEF m
    <3>5. /\ t # 0 /\ TitleText(left) = W[m]
          /\ TitleCut(left) \in Seq(Spacing)
          /\ \E y : WordsAt(TitleCut(left), W, A \ {m}, y)
      BY <1>5, <1>6, <3>3, <3>4, TakesTitle
    <3> HIDE DEF t
    <3> QED BY <2>2, <3>2, <3>5, Zenon DEF m
  <2> QED BY <2>1, <2>2
<1> HIDE DEF name, title
<1>9. WordsOf(name) = FlattenSeq(KeptWords(W, B))
  BY <1>8, WordsKept
<1>10. B = (1 .. N) \ (FirstOf(J) \cup FirstOf(K))
  BY Zenon DEF A
<1>11. Entry(s).name = name /\ Entry(s).version = version /\ Entry(s).title_id = title
  BY <1>2
<1> QED BY <1>5, <1>8, <1>9, <1>10, <1>11, Zenon DEF s

\* The game listed is that of the file's name.
Named == /\ file \in Files
         /\ entry = None \/ entry = parseVTID(Spaced(file.words) \o Extension)

\* ListFile alone sets the entry.
LEMMA NamedNext == Named /\ [Next]_vars => Named'
<1> SUFFICES ASSUME Named, [Next]_vars PROVE Named'
  OBVIOUS
<1>1. CASE ListFile
  BY <1>1, Zenon DEF Named, ListFile
<1>2. CASE UNCHANGED <<file, entry>>
  BY <1>2, Zenon DEF Named
<1>3. ListFile \/ UNCHANGED <<file, entry>>
  BY Zenon DEF Next, vars, readVars, Open, EndCode, OpenCode, NextLine, ReadName, ReadMark, PassOver,
        ReadCodes, Reading, InCode, EndOfFile, ChooseOptions, Export, Exported
<1> QED BY <1>1, <1>2, <1>3

\* Its words are dealt out as the property says.
LEMMA NamedSplit == Named => SplitAsNamed
<1> SUFFICES ASSUME Named, entry # None PROVE SplitAsNamed
  BY Zenon DEF SplitAsNamed
<1> DEFINE w == file.words
           s == Spaced(w)
           J == {i \in DOMAIN w : HasVersion(w[i])}
           K == {i \in DOMAIN w : HasTitleID(w[i])}
           kept == [i \in DOMAIN w |-> IF i \in FirstOf(J) \cup FirstOf(K) THEN <<>> ELSE <<w[i]>>]
<1>1. SUFFICES ASSUME \A i \in FirstOf(J) : IsVersion(w[i]),
                      \A i \in FirstOf(K) : IsTitleID(w[i])
               PROVE  /\ entry.version = (IF J = {} THEN None ELSE w[Min(J)])
                      /\ entry.title_id = (IF K = {} THEN None ELSE w[Min(K)])
                      /\ WordsOf(entry.name) = FlattenSeq(kept)
  BY Zenon DEF SplitAsNamed, FirstOf
<1>2. w \in Seq(Word) /\ w # <<>>
  BY NamesAssumption, Zenon DEF Named
<1>3. entry = Entry(stripExt(s \o Extension))
  BY Zenon DEF Named, parseVTID
<1> HIDE DEF w
<1>4. stripExt(s \o Extension) = s
  <2>1. s \in Seq(Spacing) /\ Len(s) # 0
    BY <1>2, SpacedWordsAt
  <2> HIDE DEF s
  <2> QED BY <2>1, ExtensionGoes
<1>5. DOMAIN w = 1 .. Len(w)
  BY <1>2
<1>6. J = {i \in 1 .. Len(w) : HasVersion(w[i])} /\ K = {i \in 1 .. Len(w) : HasTitleID(w[i])}
  BY <1>5, Zenon
<1> HIDE DEF s, J, K
<1>7. LET e == Entry(Spaced(w))
      IN  /\ e.version = IF J = {} THEN None ELSE w[Min(J)]
          /\ e.title_id = IF K = {} THEN None ELSE w[Min(K)]
          /\ WordsOf(e.name) = FlattenSeq(KeptWords(w, (1 .. Len(w)) \ (FirstOf(J) \cup FirstOf(K))))
  BY <1>1, <1>2, <1>6, EntrySplits, Zenon
<1>8. KeptWords(w, (1 .. Len(w)) \ (FirstOf(J) \cup FirstOf(K))) = kept
  <2> DEFINE T == FirstOf(J) \cup FirstOf(K)
  <2> HIDE DEF T
  <2>1. KeptWords(w, (1 .. Len(w)) \ T) = [i \in 1 .. Len(w) |-> IF i \in T THEN <<>> ELSE <<w[i]>>]
    BY Zenon DEF KeptWords
  <2> QED BY <1>5, <2>1, Zenon DEF T
<1> QED BY <1>3, <1>4, <1>7, <1>8, Zenon DEF s

\* SplitAsNamed: parseVTID deals out the words of every file name, whatever its words.
THEOREM AlwaysSplitAsNamed == Spec => []SplitAsNamed
<1>1. Init => Named
  BY Zenon DEF Init, Named
<1> QED BY <1>1, NamedNext, NamedSplit, PTL DEF Spec

-----------------------------------------------------------------------------
(* Functions that take a text apart from its beginning                     *)

\* A text begins and goes on.
LEMMA CutApart ==
  ASSUME NEW S, NEW s \in Seq(S), NEW e \in 0 .. Len(s)
  PROVE  s = SubSeq(s, 1, e) \o RestOf(s, e)
<1> DEFINE n == Len(s)
           a == SubSeq(s, 1, e)
           t == RestOf(s, e)
<1>1. n \in Nat /\ e \in 0 .. n /\ e \in 0 .. n + 1
  OBVIOUS
<1>2. 1 \in 1 .. n + 1 /\ e \in 1 - 1 .. n
  BY <1>1
<1>3. /\ a \in Seq(S) /\ Len(a) = e + 1 - 1
      /\ \A k \in 1 .. e + 1 - 1 : a[k] = s[1 + (k - 1)]
  BY <1>2, PartIs
<1>4. /\ t \in Seq(S) /\ Len(t) = (IF e > n THEN 0 ELSE n - e)
      /\ \A k \in 1 .. n - e : t[k] = s[e + k]
  BY <1>1, RestIs
<1> HIDE DEF a, t
<1>5. /\ a \o t \in Seq(S) /\ Len(a \o t) = Len(a) + Len(t)
      /\ \A j \in 1 .. Len(a) : (a \o t)[j] = a[j]
      /\ \A j \in 1 .. Len(t) : (a \o t)[Len(a) + j] = t[j]
  <2>1. a \in Seq(S) /\ t \in Seq(S)
    BY <1>3, <1>4
  <2> HIDE DEF n
  <2> QED BY <2>1, Joined
<1> DEFINE w == a \o t
<1> HIDE DEF w, n
<1>6. w \in Seq(S) /\ Len(w) = n /\ Len(a) = e /\ Len(t) = n - e
  BY <1>1, <1>3, <1>4, <1>5 DEF w
<1>7. ASSUME NEW k \in 1 .. n PROVE w[k] = s[k]
  <2>1. CASE k <= e
    <3>1. w[k] = a[k]
      BY <2>1, <1>1, <1>6, <1>5 DEF w
    <3>2. k \in 1 .. e + 1 - 1 /\ 1 + (k - 1) = k
      BY <2>1, <1>1
    <3> QED BY <3>1, <3>2, <1>3
  <2>2. CASE k > e
    <3>1. k - e \in 1 .. n - e /\ e + (k - e) = k
      BY <2>2, <1>1
    <3>2. w[k] = t[k - e]
      BY <3>1, <1>6, <1>5 DEF w
    <3> QED BY <3>1, <3>2, <1>4
  <2> QED BY <2>1, <2>2, <1>1
<1>8. w = s
  BY <1>6, <1>7, SameChars DEF n
<1> QED BY <1>8 DEF w, a, t

\* Its values are sequences.
LEMMA TailType ==
  ASSUME NEW D, NEW S, NEW m, NEW stops, NEW base \in [D -> Seq(S)], NEW pre \in [D -> Seq(S)],
         NEW next, Descends(D, m, stops, next), NEW f, TailMade(D, stops, base, pre, next, f)
  PROVE  f \in [D -> Seq(S)]
<1> DEFINE R == Seq(S)
           Good == {n \in Nat : \A d \in D : m[d] < n => f[d] \in R}
<1>g. /\ m \in [D -> Nat] /\ next \in [D -> D]
      /\ \A d \in D : d \notin stops => m[next[d]] < m[d]
  BY Zenon DEF Descends
<1>f. f = [d \in D |-> IF d \in stops THEN base[d] ELSE pre[d] \o f[next[d]]]
  BY Zenon DEF TailMade
<1>0. base \in [D -> R] /\ pre \in [D -> R]
  OBVIOUS
<1>2. \A a, t \in R : a \o t \in R
  BY ConcatProperties
<1> HIDE DEF R
<1>3. 0 \in Good
  BY <1>g
<1>4. ASSUME NEW n \in Nat, n \in Good PROVE n + 1 \in Good
  <2> SUFFICES ASSUME NEW d \in D, m[d] < n + 1 PROVE f[d] \in R
    BY n + 1 \in Nat
  <2>1. f[d] = IF d \in stops THEN base[d] ELSE pre[d] \o f[next[d]]
    BY <1>f
  <2>2. CASE d \in stops
    BY <2>1, <2>2, <1>0
  <2>3. CASE d \notin stops
    <3>1. next[d] \in D /\ m[next[d]] \in Nat /\ m[d] \in Nat /\ m[next[d]] < m[d]
      BY <1>g, <2>3
    <3>2. m[next[d]] < n
      BY <3>1
    <3>3. f[next[d]] \in R
      BY <3>1, <3>2, <1>4
    <3> QED BY <2>1, <2>3, <3>3, <1>0, <1>2
  <2> QED BY <2>2, <2>3
<1>5. Nat \subseteq Good
  <2> HIDE DEF Good
  <2> QED BY <1>3, <1>4, NatInd
<1>6. ASSUME NEW d \in D PROVE f[d] \in R
  <2>1. m[d] \in Nat /\ m[d] + 1 \in Nat /\ m[d] < m[d] + 1
    BY <1>g
  <2> QED BY <2>1, <1>5
<1>7. f \in [D -> R]
  <2>1. f = [d \in D |-> f[d]]
    BY <1>f
  <2> QED BY <1>6, <2>1
<1> QED BY <1>7 DEF R

-----------------------------------------------------------------------------
(* Comments                                                                *)

IsOpen(c) == c = "/*"
IsClose(c) == c = "*/"
OpenOf(s) == findNext(s, 1, {"/*"})
CloseFrom(s, k) == findNext(s, k, {"*/"})

\* The end of a comment is the first from there on.
LEMMA NextMark ==
  ASSUME NEW s \in Text, NEW k \in 1 .. Len(s) + 1
  PROVE  /\ CloseFrom(s, k) \in k .. Len(s) + 1
         /\ \A j \in k .. CloseFrom(s, k) - 1 : ~IsClose(s[j])
         /\ CloseFrom(s, k) <= Len(s) => IsClose(s[CloseFrom(s, k)])
<1>1. Len(s) \in Nat /\ k \in Nat /\ k <= Len(s) + 1
  BY LenProperties DEF Text
<1> DEFINE e == findNext(s, k, {"*/"})
<1>2. /\ e \in k .. Len(s) + 1
      /\ \A j \in k .. e - 1 : s[j] \notin {"*/"}
      /\ e <= Len(s) => s[e] \in {"*/"}
  BY <1>1, NextIs, Zenon
<1> HIDE DEF e
<1>3. \A c : c \in {"*/"} <=> IsClose(c)
  BY Zenon DEF IsClose
<1>4. /\ \A j \in k .. e - 1 : ~IsClose(s[j])
      /\ e <= Len(s) => IsClose(s[e])
  BY <1>2, <1>3, Zenon
<1>5. e = CloseFrom(s, k)
  BY Zenon DEF e, CloseFrom
<1> QED BY <1>2, <1>4, <1>5, Zenon

\* A comment opens where the text first says so.
LEMMA OpenIs ==
  ASSUME NEW s \in Text
  PROVE  /\ OpenOf(s) \in 1 .. Len(s) + 1
         /\ \A j \in 1 .. OpenOf(s) - 1 : ~IsOpen(s[j])
         /\ OpenOf(s) <= Len(s) => IsOpen(s[OpenOf(s)])
<1>1. Len(s) \in Nat /\ 1 \in Nat /\ 1 <= Len(s) + 1
  BY LenProperties DEF Text
<1> DEFINE e == findNext(s, 1, {"/*"})
<1>2. /\ e \in 1 .. Len(s) + 1
      /\ \A j \in 1 .. e - 1 : s[j] \notin {"/*"}
      /\ e <= Len(s) => s[e] \in {"/*"}
  BY <1>1, NextIs, Zenon
<1> HIDE DEF e
<1>3. \A c : c \in {"/*"} <=> IsOpen(c)
  BY Zenon DEF IsOpen
<1>4. /\ \A j \in 1 .. e - 1 : ~IsOpen(s[j])
      /\ e <= Len(s) => IsOpen(s[e])
  BY <1>2, <1>3, Zenon
<1>5. e = OpenOf(s)
  BY Zenon DEF e, OpenOf
<1> QED BY <1>2, <1>4, <1>5, Zenon

IsUncommented(f) ==
  f = [s \in Text |->
         IF OpenOf(s) > Len(s) THEN s
         ELSE SubSeq(s, 1, OpenOf(s) - 1) \o f[RestOf(s, CloseFrom(s, OpenOf(s)))]]

\* A text is less than the length of any it is the end of.
LEMMA RestLess ==
  ASSUME NEW s \in Text, NEW e \in 1 .. Len(s) + 1
  PROVE  RestOf(s, e) \in Text /\ (s # <<>> => Len(RestOf(s, e)) < Len(s))
<1>1. s \in Seq(Chars) /\ Len(s) \in Nat /\ e \in 0 .. Len(s) + 1
  BY LenProperties DEF Text
<1>2. RestOf(s, e) \in Seq(Chars) /\ Len(RestOf(s, e)) = (IF e > Len(s) THEN 0 ELSE Len(s) - e)
  BY <1>1, RestIs, Zenon
<1>3. s # <<>> => Len(s) # 0
  BY <1>1, EmptySeq
<1> QED BY <1>1, <1>2, <1>3 DEF Text

\* The function is what it is defined to be, and makes texts.
LEMMA UncommentedIs == IsUncommented(Uncommented) /\ Uncommented \in [Text -> Text]
<1> DEFINE stops == {s \in Text : OpenOf(s) > Len(s)}
           m == [s \in Text |-> Len(s)]
           base == [s \in Text |-> s]
           pre == [s \in Text |-> IF s \in stops THEN s ELSE SubSeq(s, 1, OpenOf(s) - 1)]
           next == [s \in Text |-> IF s \in stops THEN s ELSE RestOf(s, CloseFrom(s, OpenOf(s)))]
<1>1. ASSUME NEW s \in Text, s \notin stops
      PROVE  /\ SubSeq(s, 1, OpenOf(s) - 1) \in Text
             /\ RestOf(s, CloseFrom(s, OpenOf(s))) \in Text
             /\ Len(RestOf(s, CloseFrom(s, OpenOf(s)))) < Len(s)
  <2>1. s \in Seq(Chars) /\ Len(s) \in Nat
    BY LenProperties DEF Text
  <2> DEFINE o == OpenOf(s)
             c == CloseFrom(s, o)
  <2>2. o \in 1 .. Len(s) + 1 /\ ~(o > Len(s))
    BY <1>1, OpenIs
  <2>3. c \in o .. Len(s) + 1
    BY <2>2, NextMark, Zenon
  <2> HIDE DEF o, c
  <2>4. o - 1 \in 1 - 1 .. Len(s) /\ 1 \in 1 .. Len(s) + 1 /\ c \in 1 .. Len(s) + 1
    BY <2>1, <2>2, <2>3
  <2>5. SubSeq(s, 1, o - 1) \in Seq(Chars)
    BY <2>1, <2>4, PartIs, Zenon
  <2>6. s # <<>>
    BY <2>1, <2>2
  <2>7. RestOf(s, c) \in Text /\ Len(RestOf(s, c)) < Len(s)
    BY <2>4, <2>6, RestLess
  <2> QED BY <2>5, <2>7 DEF Text, o, c
<1>2. \A s \in Text : Len(s) \in Nat
  BY LenProperties DEF Text
<1>3. base \in [Text -> Text] /\ pre \in [Text -> Text] /\ next \in [Text -> Text] /\ m \in [Text -> Nat]
  <2> HIDE DEF stops
  <2> QED BY <1>1, <1>2
<1>4. \A s \in Text : s \notin stops => m[next[s]] < m[s]
  <2> HIDE DEF stops
  <2> QED BY <1>1, <1>3
<1>5. Descends(Text, m, stops, next)
  BY <1>3, <1>4, Zenon DEF Descends
<1>6. base \in [Text -> Seq(Chars)] /\ pre \in [Text -> Seq(Chars)]
  BY <1>3 DEF Text
<1>7. ASSUME NEW f PROVE TailMade(Text, stops, base, pre, next, f) <=> IsUncommented(f)
  <2>1. \A s \in Text : (s \in stops <=> OpenOf(s) > Len(s))
    OBVIOUS
  <2>2. \A s \in Text :
          (IF s \in stops THEN base[s] ELSE pre[s] \o f[next[s]])
          = (IF OpenOf(s) > Len(s) THEN s
             ELSE SubSeq(s, 1, OpenOf(s) - 1) \o f[RestOf(s, CloseFrom(s, OpenOf(s)))])
    <3> HIDE DEF stops
    <3> QED BY <2>1
  <2> HIDE DEF stops, base, pre, next
  <2>3. [s \in Text |-> IF s \in stops THEN base[s] ELSE pre[s] \o f[next[s]]]
        = [s \in Text |-> IF OpenOf(s) > Len(s) THEN s
             ELSE SubSeq(s, 1, OpenOf(s) - 1) \o f[RestOf(s, CloseFrom(s, OpenOf(s)))]]
    BY <2>2
  <2> QED BY <2>3, Zenon DEF TailMade, IsUncommented
<1> HIDE DEF stops, m, base, pre, next
<1>8. \E f : IsUncommented(f)
  <2>1. \E f \in [Text -> Seq(Chars)] : TailMade(Text, stops, base, pre, next, f)
    BY <1>5, <1>6, TailRecursion
  <2> QED BY <2>1, <1>7, Zenon
<1>9. Uncommented = CHOOSE f : IsUncommented(f)
  BY Zenon DEF Uncommented, IsUncommented, OpenOf, CloseFrom, RestOf
<1>10. IsUncommented(Uncommented)
  BY <1>8, <1>9, Zenon
<1>11. Uncommented \in [Text -> Seq(Chars)]
  BY <1>5, <1>6, <1>7, <1>10, TailType
<1> QED BY <1>10, <1>11 DEF Text

IsStripped(f) ==
  f = [s \in Text |->
         IF "/*" \notin ToSet(s) \/ RunsOn(s) THEN s
         ELSE f[SubSeq(s, 1, OpenOf(s) - 1) \o RestOf(s, CloseFrom(s, 1))]]

\* A text has a mark that opens a comment if one is found; and does not close one first
\* if it is found first.
LEMMA StripsOn ==
  ASSUME NEW s \in Text
  PROVE  /\ "/*" \in ToSet(s) <=> OpenOf(s) <= Len(s)
         /\ RunsOn(s) <=> OpenOf(s) <= Len(s) /\ CloseFrom(s, 1) < OpenOf(s)
<1>1. s \in Seq(Chars) /\ Len(s) \in Nat
  BY LenProperties DEF Text
<1>2. /\ OpenOf(s) \in 1 .. Len(s) + 1
      /\ \A j \in 1 .. OpenOf(s) - 1 : ~IsOpen(s[j])
      /\ OpenOf(s) <= Len(s) => IsOpen(s[OpenOf(s)])
  BY OpenIs
<1>3. "/*" \in ToSet(s) <=> \E j \in 1 .. Len(s) : IsOpen(s[j])
  <2>1. DOMAIN s = 1 .. Len(s)
    BY <1>1
  <2> QED BY <2>1, Zenon DEF ToSet, IsOpen
<1>4. (\E j \in 1 .. Len(s) : IsOpen(s[j])) <=> OpenOf(s) <= Len(s)
  <2> DEFINE o == OpenOf(s)
  <2> HIDE DEF o
  <2>1. /\ o \in 1 .. Len(s) + 1
        /\ \A j \in 1 .. o - 1 : ~IsOpen(s[j])
        /\ o <= Len(s) => IsOpen(s[o])
    BY <1>2 DEF o
  <2>2. o <= Len(s) => o \in 1 .. Len(s)
    BY <1>1, <2>1
  <2>3. ~(o <= Len(s)) => \A j \in 1 .. Len(s) : j \in 1 .. o - 1
    BY <1>1, <2>1
  <2>4. (\E j \in 1 .. Len(s) : IsOpen(s[j])) <=> o <= Len(s)
    BY <2>1, <2>2, <2>3, Zenon
  <2> QED BY <2>4 DEF o
<1>5. "/*" \in ToSet(s) <=> OpenOf(s) <= Len(s)
  BY <1>3, <1>4, Zenon
<1> QED BY <1>5, Zenon DEF RunsOn, CloseFrom, OpenOf

\* What a round of the loop leaves.
Round(s) == SubSeq(s, 1, OpenOf(s) - 1) \o RestOf(s, CloseFrom(s, 1))

\* A round takes out a comment, and leaves a shorter text.
LEMMA RoundIs ==
  ASSUME NEW s \in Text, OpenOf(s) <= Len(s), ~(CloseFrom(s, 1) < OpenOf(s))
  PROVE  Round(s) \in Text /\ Len(Round(s)) < Len(s)
<1> DEFINE o == OpenOf(s)
           c == CloseFrom(s, 1)
           a == SubSeq(s, 1, o - 1)
           t == RestOf(s, c)
<1>1. s \in Seq(Chars) /\ Len(s) \in Nat
  BY LenProperties DEF Text
<1>2. o \in 1 .. Len(s) + 1 /\ 1 \in 1 .. Len(s) + 1 /\ o <= Len(s) /\ ~(c < o)
  BY <1>1, OpenIs
<1>3. c \in 1 .. Len(s) + 1
  BY <1>2, NextMark, Zenon
<1> HIDE DEF o, c
<1>4. o - 1 \in 1 - 1 .. Len(s) /\ c \in 0 .. Len(s) + 1
  BY <1>1, <1>2, <1>3
<1>5. a \in Seq(Chars) /\ Len(a) = o - 1 + 1 - 1
  BY <1>1, <1>2, <1>4, PartIs
<1>6. t \in Seq(Chars) /\ Len(t) = (IF c > Len(s) THEN 0 ELSE Len(s) - c)
  BY <1>1, <1>4, RestIs, Zenon
<1> HIDE DEF a, t
<1>7. a \o t \in Seq(Chars) /\ Len(a \o t) = Len(a) + Len(t)
  BY <1>5, <1>6, Joined
<1>8. Len(a) + Len(t) < Len(s)
  BY <1>1, <1>2, <1>3, <1>5, <1>6
<1> QED BY <1>7, <1>8 DEF a, t, o, c, Round, Text

\* The function is what it is defined to be.
LEMMA StrippedIs == IsStripped(StripMultilineComments)
<1> DEFINE stops == {s \in Text : ~(OpenOf(s) <= Len(s)) \/ CloseFrom(s, 1) < OpenOf(s)}
           m == [s \in Text |-> Len(s)]
           base == [s \in Text |-> s]
           pre == [s \in Text |-> <<>>]
           next == [s \in Text |-> IF s \in stops THEN s ELSE Round(s)]
<1>1. ASSUME NEW s \in Text, s \notin stops
      PROVE  Round(s) \in Text /\ Len(Round(s)) < Len(s)
  BY <1>1, RoundIs
<1>2. \A s \in Text : Len(s) \in Nat
  BY LenProperties DEF Text
<1>e. <<>> \in Text
  BY DEF Text
<1>3. base \in [Text -> Text] /\ pre \in [Text -> Text] /\ next \in [Text -> Text] /\ m \in [Text -> Nat]
  <2> HIDE DEF stops
  <2> QED BY <1>1, <1>2, <1>e
<1>4. \A s \in Text : s \notin stops => m[next[s]] < m[s]
  <2> HIDE DEF stops
  <2> QED BY <1>1, <1>3
<1>5. Descends(Text, m, stops, next)
  BY <1>3, <1>4, Zenon DEF Descends
<1>6. base \in [Text -> Seq(Chars)] /\ pre \in [Text -> Seq(Chars)]
  BY <1>3 DEF Text
<1> HIDE DEF m
<1>7. PICK f \in [Text -> Seq(Chars)] : TailMade(Text, stops, base, pre, next, f)
  BY <1>5, <1>6, TailRecursion
<1>8. \A t \in Text : <<>> \o f[t] = f[t]
  <2>1. \A r \in Seq(Chars) : <<>> \o r = r
    OBVIOUS
  <2> QED BY <2>1, <1>7
<1>9. \A s \in Text : (s \in stops <=> "/*" \notin ToSet(s) \/ RunsOn(s))
  BY StripsOn, Zenon
<1>10. ASSUME NEW s \in Text
       PROVE  (IF s \in stops THEN base[s] ELSE pre[s] \o f[next[s]])
              = (IF "/*" \notin ToSet(s) \/ RunsOn(s) THEN s ELSE f[Round(s)])
  <2>1. CASE s \in stops
    <3>1. base[s] = s
      OBVIOUS
    <3> HIDE DEF stops, base, pre, next
    <3> QED BY <2>1, <3>1, <1>9, Zenon
  <2>2. CASE s \notin stops
    <3>1. pre[s] = <<>> /\ next[s] = Round(s)
      BY <2>2
    <3>2. <<>> \o f[Round(s)] = f[Round(s)]
      BY <1>1, <1>8, <2>2, Zenon
    <3>3. ~("/*" \notin ToSet(s) \/ RunsOn(s))
      BY <2>2, <1>9, Zenon
    <3> HIDE DEF stops, base, pre, next
    <3> QED BY <2>2, <3>1, <3>2, <3>3, Zenon
  <2> QED BY <2>1, <2>2, Zenon
<1>11. f = [s \in Text |-> IF s \in stops THEN base[s] ELSE pre[s] \o f[next[s]]]
  BY <1>7, Zenon DEF TailMade
<1> DEFINE made(s) == IF "/*" \notin ToSet(s) \/ RunsOn(s) THEN s ELSE f[Round(s)]
           other(s) == IF s \in stops THEN base[s] ELSE pre[s] \o f[next[s]]
<1>12. [s \in Text |-> other(s)] = [s \in Text |-> made(s)]
  <2>1. \A s \in Text : other(s) = made(s)
    BY <1>10, Zenon
  <2> HIDE DEF made, other
  <2> QED BY <2>1
<1>13. IsStripped(f)
  BY <1>11, <1>12, Zenon DEF IsStripped, Round
<1>14. StripMultilineComments = CHOOSE g : IsStripped(g)
  BY Zenon DEF StripMultilineComments, IsStripped, OpenOf, CloseFrom, RestOf
<1> QED BY <1>13, <1>14, Zenon

\* A mark is where nothing before it is one.
LEMMA OpenAt ==
  ASSUME NEW w \in Text, NEW m \in 1 .. Len(w) + 1, m <= Len(w) => IsOpen(w[m]),
         \A j \in 1 .. m - 1 : ~IsOpen(w[j])
  PROVE  OpenOf(w) = m
<1>1. Len(w) \in Nat /\ 1 \in Nat /\ m \in Nat /\ 1 <= m /\ m <= Len(w) + 1
  BY LenProperties DEF Text
<1>2. \A c : c \in {"/*"} <=> IsOpen(c)
  BY Zenon DEF IsOpen
<1>3. (m <= Len(w) => w[m] \in {"/*"}) /\ \A j \in 1 .. m - 1 : w[j] \notin {"/*"}
  BY <1>2, Zenon
<1>4. findNext(w, 1, {"/*"}) = m
  BY <1>1, <1>3, NextAt, Zenon
<1> QED BY <1>4, Zenon DEF OpenOf

\* The same for the end of a comment.
LEMMA CloseAt ==
  ASSUME NEW w \in Text, NEW i \in 1 .. Len(w) + 1, NEW m \in i .. Len(w) + 1,
         m <= Len(w) => IsClose(w[m]), \A j \in i .. m - 1 : ~IsClose(w[j])
  PROVE  CloseFrom(w, i) = m
<1>1. Len(w) \in Nat /\ i \in Nat /\ m \in Nat /\ i <= m /\ m <= Len(w) + 1
  <2>1. Len(w) \in Nat
    BY LenProperties DEF Text
  <2> QED BY <2>1
<1>2. \A c : c \in {"*/"} <=> IsClose(c)
  BY Zenon DEF IsClose
<1>3. (m <= Len(w) => w[m] \in {"*/"}) /\ \A j \in i .. m - 1 : w[j] \notin {"*/"}
  BY <1>2, Zenon
<1>4. findNext(w, i, {"*/"}) = m
  BY <1>1, <1>3, NextAt, Zenon
<1> QED BY <1>4, Zenon DEF CloseFrom

\* A text without marks of comments, and one with its comments in order.
Free(p) == \A j \in 1 .. Len(p) : ~IsOpen(p[j]) /\ ~IsClose(p[j])
InOrder(s) ==
  \A j \in 1 .. Len(s) :
    IsClose(s[j]) => \E i \in 1 .. j - 1 : IsOpen(s[i]) /\ \A k \in i .. j - 1 : ~IsClose(s[k])

\* This is what the property means by comments in order.
LEMMA OrderIs ==
  ASSUME NEW s \in Text
  PROVE  WellCommented(s) <=> InOrder(s)
<1>1. DOMAIN s = 1 .. Len(s)
  BY DEF Text
<1> QED BY <1>1, Zenon DEF WellCommented, InOrder, IsClose, IsOpen

\* The comment that begins first is the one that ends first.
LEMMA CloseLater ==
  ASSUME NEW s \in Text, InOrder(s), NEW o \in 1 .. Len(s), OpenOf(s) = o, NEW c, c = CloseFrom(s, o)
  PROVE  /\ c \in o + 1 .. Len(s) + 1 /\ (c <= Len(s) => IsClose(s[c]))
         /\ \A j \in 1 .. c - 1 : ~IsClose(s[j])
<1>1. Len(s) \in Nat
  BY LenProperties DEF Text
<1>2. IsOpen(s[o]) /\ \A j \in 1 .. o - 1 : ~IsOpen(s[j])
  <2>1. OpenOf(s) <= Len(s)
    BY <1>1
  <2> QED BY <2>1, OpenIs
<1>3. /\ c \in o .. Len(s) + 1 /\ \A j \in o .. c - 1 : ~IsClose(s[j])
      /\ c <= Len(s) => IsClose(s[c])
  <2>1. o \in 1 .. Len(s) + 1
    BY <1>1
  <2> QED BY <2>1, NextMark, Zenon
<1>4. ASSUME NEW j \in 1 .. o, IsClose(s[j]) PROVE FALSE
  <2>1. j \in 1 .. Len(s)
    BY <1>1
  <2>2. PICK i \in 1 .. j - 1 : IsOpen(s[i])
    BY <2>1, <1>4, Zenon DEF InOrder
  <2>3. i \in 1 .. o - 1
    BY <1>1
  <2> QED BY <2>2, <2>3, <1>2, Zenon
<1>5. c # o
  BY <1>1, <1>3, <1>4
<1>6. ASSUME NEW j \in 1 .. c - 1 PROVE ~IsClose(s[j])
  <2>1. j \in 1 .. o \/ j \in o .. c - 1
    BY <1>1, <1>3
  <2> QED BY <2>1, <1>3, <1>4, Zenon
<1> QED BY <1>1, <1>3, <1>5, <1>6

\* Behind it, the comments are in order again.
LEMMA OrderBehind ==
  ASSUME NEW s \in Text, InOrder(s), NEW c \in 1 .. Len(s) + 1, c <= Len(s) => IsClose(s[c])
  PROVE  InOrder(RestOf(s, c))
<1> DEFINE t == RestOf(s, c)
           n == Len(s)
<1>1. s \in Seq(Chars) /\ n \in Nat
  BY LenProperties DEF Text
<1>2. c \in 0 .. Len(s) + 1
  BY <1>1
<1>3. Len(t) = (IF c > n THEN 0 ELSE n - c) /\ \A k \in 1 .. n - c : t[k] = s[c + k]
  BY <1>1, <1>2, RestIs, Zenon
<1> HIDE DEF t, n
<1>4. SUFFICES ASSUME NEW j \in 1 .. Len(t), IsClose(t[j])
               PROVE  \E i \in 1 .. j - 1 : IsOpen(t[i]) /\ \A k \in i .. j - 1 : ~IsClose(t[k])
  BY Zenon DEF InOrder, t
<1>5. c \in 1 .. n + 1
  BY DEF n
<1>6. c \in Nat /\ j \in Nat /\ 1 <= j /\ c <= n /\ j \in 1 .. n - c /\ c + j \in 1 .. n
  BY <1>1, <1>3, <1>5
<1>7. IsClose(s[c + j])
  BY <1>3, <1>4, <1>6
<1>8. IsClose(s[c])
  BY <1>6 DEF n
<1>9. PICK i \in 1 .. c + j - 1 : IsOpen(s[i]) /\ \A k \in i .. c + j - 1 : ~IsClose(s[k])
  <2>1. c + j \in 1 .. Len(s)
    BY <1>6 DEF n
  <2>2. \E i \in 1 .. (c + j) - 1 : IsOpen(s[i]) /\ \A k \in i .. (c + j) - 1 : ~IsClose(s[k])
    BY <2>1, <1>7, Zenon DEF InOrder
  <2>3. (c + j) - 1 = c + j - 1
    BY <1>6
  <2> QED BY <2>2, <2>3
<1>10. i \in Nat /\ 1 <= i /\ i <= c + j - 1 /\ ~(c \in i .. c + j - 1)
  BY <1>6, <1>8, <1>9
<1>11. i - c \in 1 .. j - 1 /\ i - c \in 1 .. n - c /\ c + (i - c) = i
  BY <1>1, <1>6, <1>10
<1>12. IsOpen(t[i - c])
  BY <1>3, <1>9, <1>11
<1>13. ASSUME NEW k \in (i - c) .. j - 1 PROVE ~IsClose(t[k])
  <2>1. k \in 1 .. n - c /\ c + k \in i .. c + j - 1
    BY <1>1, <1>6, <1>10, <1>11
  <2> QED BY <2>1, <1>3, <1>9
<1> QED BY <1>11, <1>12, <1>13

OneLess(p, s, o, c) ==
  /\ OpenOf(p \o s) <= Len(p \o s) /\ ~(CloseFrom(p \o s, 1) < OpenOf(p \o s))
  /\ p \o SubSeq(s, 1, o - 1) \in Text /\ Free(p \o SubSeq(s, 1, o - 1))
  /\ Round(p \o s) = (p \o SubSeq(s, 1, o - 1)) \o RestOf(s, c)

\* With a text free of marks before it, a round of the loop takes the first comment of a text
\* away, and the rest is again such a text.
LEMMA OneRound ==
  ASSUME NEW p \in Text, Free(p), NEW s \in Text, InOrder(s),
         NEW o \in 1 .. Len(s), OpenOf(s) = o, NEW c, c = CloseFrom(s, o)
  PROVE  OneLess(p, s, o, c)
<1> DEFINE w == p \o s
           a == SubSeq(s, 1, o - 1)
           t == RestOf(s, c)
           l == Len(p)
           n == Len(s)
<1>1. p \in Seq(Chars) /\ s \in Seq(Chars)
  BY DEF Text
<1>2. /\ l \in Nat /\ n \in Nat /\ w \in Seq(Chars) /\ Len(w) = l + n
      /\ \A j \in 1 .. l : w[j] = p[j]
      /\ \A j \in 1 .. n : w[l + j] = s[j]
  BY <1>1, Joined
<1>3. /\ c \in o + 1 .. n + 1 /\ (c <= n => IsClose(s[c]))
      /\ \A j \in 1 .. c - 1 : ~IsClose(s[j])
  BY CloseLater, Zenon
<1>4. IsOpen(s[o]) /\ \A j \in 1 .. o - 1 : ~IsOpen(s[j])
  <2>1. OpenOf(s) <= Len(s)
    BY <1>2
  <2> QED BY <2>1, OpenIs
<1>5. 1 \in 1 .. n + 1 /\ o - 1 \in 1 - 1 .. n /\ c \in 0 .. n + 1
  BY <1>2, <1>3
<1>6. /\ a \in Seq(Chars) /\ Len(a) = o - 1 + 1 - 1
      /\ \A k \in 1 .. o - 1 + 1 - 1 : a[k] = s[1 + (k - 1)]
  BY <1>1, <1>5, PartIs
<1>7. /\ t \in Seq(Chars) /\ Len(t) = (IF c > n THEN 0 ELSE n - c)
      /\ \A k \in 1 .. n - c : t[k] = s[c + k]
  BY <1>1, <1>5, RestIs, Zenon
<1>8. o \in 1 .. n
  OBVIOUS
<1>p. \A j \in 1 .. l : ~IsOpen(p[j]) /\ ~IsClose(p[j])
  BY DEF Free
<1> HIDE DEF w, a, t, l, n
<1>9. Len(a) = o - 1 /\ \A k \in 1 .. o - 1 : a[k] = s[k]
  <2>1. o - 1 + 1 - 1 = o - 1 /\ \A k \in 1 .. o - 1 : 1 + (k - 1) = k
    BY <1>8
  <2> QED BY <1>6, <2>1
<1>10. \A j \in 1 .. l + n : j \notin 1 .. l => j - l \in 1 .. n /\ l + (j - l) = j
  BY <1>2
<1>11. OpenOf(w) = l + o
  <2>1. l + o \in 1 .. Len(w) + 1 /\ l + o <= Len(w)
    BY <1>2, <1>8
  <2>2. IsOpen(w[l + o])
    BY <1>2, <1>4, <1>8
  <2>3. ASSUME NEW j \in 1 .. (l + o) - 1 PROVE ~IsOpen(w[j])
    <3>1. CASE j \in 1 .. l
      BY <3>1, <1>2, <1>p, Zenon
    <3>2. CASE j \notin 1 .. l
      <4>1. j - l \in 1 .. o - 1 /\ j - l \in 1 .. n /\ l + (j - l) = j
        BY <3>2, <1>2, <1>8
      <4>2. w[j] = s[j - l]
        BY <4>1, <1>2
      <4> QED BY <4>1, <4>2, <1>4
    <3> QED BY <3>1, <3>2
  <2>4. w \in Text
    BY <1>2 DEF Text
  <2> QED BY <2>1, <2>2, <2>3, <2>4, OpenAt, Zenon
<1>12. CloseFrom(w, 1) = l + c
  <2>1. l + c \in 1 .. Len(w) + 1 /\ 1 \in 1 .. Len(w) + 1
    BY <1>2, <1>3, <1>8
  <2>2. l + c <= Len(w) => IsClose(w[l + c])
    <3>1. l + c <= Len(w) => c <= n /\ c \in 1 .. n
      BY <1>2, <1>3, <1>8
    <3> QED BY <3>1, <1>2, <1>3
  <2>3. ASSUME NEW j \in 1 .. (l + c) - 1 PROVE ~IsClose(w[j])
    <3>1. CASE j \in 1 .. l
      BY <3>1, <1>2, <1>p, Zenon
    <3>2. CASE j \notin 1 .. l
      <4>1. j - l \in 1 .. c - 1 /\ j - l \in 1 .. n /\ l + (j - l) = j
        BY <3>2, <1>2, <1>3, <1>8
      <4>2. w[j] = s[j - l]
        BY <4>1, <1>2
      <4> QED BY <4>1, <4>2, <1>3
    <3> QED BY <3>1, <3>2
  <2>4. w \in Text
    BY <1>2 DEF Text
  <2> QED BY <2>1, <2>2, <2>3, <2>4, CloseAt, Zenon
<1>13. OpenOf(w) <= Len(w) /\ ~(CloseFrom(w, 1) < OpenOf(w))
  <2>1. l + o <= Len(w) /\ ~(l + c < l + o)
    BY <1>2, <1>3, <1>8
  <2> QED BY <2>1, <1>11, <1>12
<1> DEFINE q == p \o a
<1>14. /\ q \in Seq(Chars) /\ Len(q) = l + Len(a)
       /\ \A j \in 1 .. l : q[j] = p[j]
       /\ \A j \in 1 .. Len(a) : q[l + j] = a[j]
  <2>1. p \in Seq(Chars) /\ a \in Seq(Chars)
    BY <1>1, <1>6
  <2> QED BY <2>1, Joined DEF l
<1> HIDE DEF q
<1>15. ASSUME NEW j \in 1 .. l + (o - 1)
       PROVE  q[j] = w[j] /\ ~IsOpen(q[j]) /\ ~IsClose(q[j])
  <2>1. CASE j \in 1 .. l
    BY <2>1, <1>14, <1>2, <1>p, Zenon
  <2>2. CASE j \notin 1 .. l
    <3>1. j - l \in 1 .. o - 1 /\ j - l \in 1 .. n /\ j - l \in 1 .. c - 1 /\ l + (j - l) = j
      BY <2>2, <1>2, <1>3, <1>8
    <3>2. q[j] = a[j - l] /\ w[j] = s[j - l]
      BY <3>1, <1>2, <1>9, <1>14
    <3>3. a[j - l] = s[j - l]
      BY <3>1, <1>9
    <3> QED BY <3>1, <3>2, <3>3, <1>3, <1>4
  <2> QED BY <2>1, <2>2
<1>16. Len(q) = l + (o - 1)
  BY <1>9, <1>14
<1>17. Free(q)
  BY <1>15, <1>16, Zenon DEF Free
<1>18. Round(w) = q \o t
  <2>1. Round(w) = SubSeq(w, 1, (l + o) - 1) \o RestOf(w, l + c)
    BY <1>11, <1>12, Zenon DEF Round
  <2>2. SubSeq(w, 1, (l + o) - 1) = q
    <3> DEFINE h == SubSeq(w, 1, (l + o) - 1)
    <3>1. 1 \in 1 .. Len(w) + 1 /\ (l + o) - 1 \in 1 - 1 .. Len(w)
      BY <1>2, <1>8
    <3>2. /\ h \in Seq(Chars) /\ Len(h) = ((l + o) - 1) + 1 - 1
          /\ \A k \in 1 .. ((l + o) - 1) + 1 - 1 : h[k] = w[1 + (k - 1)]
      BY <3>1, <1>2, PartIs
    <3> HIDE DEF h
    <3>3. ((l + o) - 1) + 1 - 1 = l + (o - 1) /\ \A k \in 1 .. l + (o - 1) : 1 + (k - 1) = k
      BY <1>2, <1>8
    <3>4. Len(h) = Len(q) /\ \A k \in 1 .. Len(h) : h[k] = q[k]
      BY <3>2, <3>3, <1>15, <1>16
    <3>5. h = q
      BY <3>2, <3>4, <1>14, SameChars
    <3> QED BY <3>5 DEF h
  <2>3. RestOf(w, l + c) = t
    <3> DEFINE e == l + c
               h == RestOf(w, e)
    <3>1. e \in 0 .. Len(w) + 1 /\ Len(w) = l + n /\ c \in Nat /\ c <= n + 1 /\ e = l + c
      BY <1>2, <1>5
    <3> HIDE DEF e
    <3>2. /\ h \in Seq(Chars) /\ Len(h) = (IF e > Len(w) THEN 0 ELSE Len(w) - e)
          /\ \A k \in 1 .. Len(w) - e : h[k] = w[e + k]
      <4>1. w \in Seq(Chars) /\ e \in 0 .. Len(w) + 1
        BY <3>1, <1>2
      <4> QED BY <4>1, RestIs
    <3> HIDE DEF h
    <3>3. Len(h) = Len(t) /\ Len(h) \in Nat /\ (Len(h) # 0 => Len(h) = n - c /\ Len(h) = Len(w) - e)
      BY <3>1, <3>2, <1>7, <1>2
    <3>4. ASSUME NEW k \in 1 .. Len(h) PROVE h[k] = t[k]
      <4>1. k \in 1 .. n - c /\ k \in 1 .. Len(w) - e
        <5>1. k \in Nat /\ 1 <= k /\ k <= Len(h) /\ Len(h) # 0
          BY <3>3
        <5>2. Len(h) = n - c /\ Len(h) = Len(w) - e
          BY <3>3, <5>1
        <5>3. n \in Nat /\ c \in Nat /\ e \in Int /\ Len(w) \in Nat
          BY <1>2, <3>1
        <5> QED BY <5>1, <5>2, <5>3
      <4>2. e + k = l + (c + k) /\ c + k \in 1 .. n
        <5>1. n \in Nat /\ c \in Nat /\ l \in Nat /\ e = l + c /\ k \in Nat /\ 1 <= k /\ k <= n - c
          BY <4>1, <1>2, <3>1
        <5> QED BY <5>1
      <4>3. h[k] = w[e + k] /\ t[k] = s[c + k]
        BY <4>1, <3>2, <1>7
      <4>4. w[l + (c + k)] = s[c + k]
        BY <4>2, <1>2
      <4> QED BY <4>2, <4>3, <4>4
    <3>5. h = t
      BY <3>2, <3>3, <3>4, <1>7, SameChars
    <3> QED BY <3>5 DEF h, e
  <2> QED BY <2>1, <2>2, <2>3
<1>19. q \in Text
  BY <1>14 DEF Text
<1>20. OpenOf(p \o s) <= Len(p \o s) /\ ~(CloseFrom(p \o s, 1) < OpenOf(p \o s))
  BY <1>13 DEF w
<1>21. p \o SubSeq(s, 1, o - 1) \in Text /\ Free(p \o SubSeq(s, 1, o - 1))
  BY <1>17, <1>19 DEF q, a
<1>22. Round(p \o s) = (p \o SubSeq(s, 1, o - 1)) \o RestOf(s, c)
  BY <1>18 DEF w, q, a, t
<1> QED BY <1>20, <1>21, <1>22, Zenon DEF OneLess

\* Behind a text free of marks, to strip the comments is to leave them out, where they
\* are in order.
LEMMA StripsBehind ==
  ASSUME NEW p \in Text, Free(p), NEW s \in Text, InOrder(s)
  PROVE  StripMultilineComments[p \o s] = p \o Uncommented[s]
<1> DEFINE Strips(q, t) == StripMultilineComments[q \o t] = q \o Uncommented[t]
           Good == {n \in Nat : \A q, t \in Text : Free(q) /\ InOrder(t) /\ Len(t) < n => Strips(q, t)}
<1>0. \A t \in Text : Len(t) \in Nat
  BY LenProperties DEF Text
<1>1. 0 \in Good
  <2>1. \A t \in Text : ~(Len(t) < 0)
    BY <1>0
  <2> QED BY <2>1
<1>2. ASSUME NEW n \in Nat, n \in Good PROVE n + 1 \in Good
  <2> SUFFICES ASSUME NEW q \in Text, NEW t \in Text, Free(q), InOrder(t), Len(t) < n + 1
               PROVE  Strips(q, t)
    BY n + 1 \in Nat
  <2>1. q \o t \in Text
    BY DEF Text
  <2>2. StripMultilineComments[q \o t]
        = IF "/*" \notin ToSet(q \o t) \/ RunsOn(q \o t) THEN q \o t
          ELSE StripMultilineComments[Round(q \o t)]
    BY <2>1, StrippedIs, Zenon DEF IsStripped, Round
  <2>3. /\ "/*" \in ToSet(q \o t) <=> OpenOf(q \o t) <= Len(q \o t)
        /\ RunsOn(q \o t) <=> OpenOf(q \o t) <= Len(q \o t) /\ CloseFrom(q \o t, 1) < OpenOf(q \o t)
    BY <2>1, StripsOn, Zenon
  <2>4. Uncommented[t] = IF OpenOf(t) > Len(t) THEN t
                         ELSE SubSeq(t, 1, OpenOf(t) - 1) \o Uncommented[RestOf(t, CloseFrom(t, OpenOf(t)))]
    BY UncommentedIs, Zenon DEF IsUncommented
  <2>5. CASE OpenOf(t) > Len(t)
    <3>1. OpenOf(q \o t) = Len(q \o t) + 1
      <4>1. /\ OpenOf(t) \in 1 .. Len(t) + 1
            /\ \A j \in 1 .. OpenOf(t) - 1 : ~IsOpen(t[j])
        BY OpenIs
      <4>2. \A j \in 1 .. Len(t) : ~IsOpen(t[j])
        BY <4>1, <2>5, <1>0
      <4>3. \A j \in 1 .. Len(q) : ~IsOpen(q[j])
        BY DEF Free
      <4> DEFINE w == q \o t
                 l == Len(q)
                 k == Len(t)
      <4>4. /\ l \in Nat /\ k \in Nat /\ Len(w) = l + k
            /\ \A j \in 1 .. l : w[j] = q[j]
            /\ \A j \in 1 .. k : w[l + j] = t[j]
        <5>1. q \in Seq(Chars) /\ t \in Seq(Chars)
          BY DEF Text
        <5> QED BY <5>1, Joined
      <4>5. (\A j \in 1 .. k : ~IsOpen(t[j])) /\ (\A j \in 1 .. l : ~IsOpen(q[j])) /\ w \in Text
        BY <4>2, <4>3, <2>1
      <4> HIDE DEF w, l, k
      <4>6. ASSUME NEW j \in 1 .. l + k PROVE ~IsOpen(w[j])
        <5>1. CASE j <= l
          <6>1. j \in 1 .. l
            BY <5>1, <4>4
          <6> QED BY <6>1, <4>4, <4>5
        <5>2. CASE ~(j <= l)
          <6>1. j - l \in 1 .. k /\ l + (j - l) = j
            BY <5>2, <4>4
          <6>2. w[l + (j - l)] = t[j - l] /\ ~IsOpen(t[j - l])
            BY <6>1, <4>4, <4>5
          <6> QED BY <6>1, <6>2
        <5> QED BY <5>1, <5>2
      <4>7. Len(w) + 1 \in 1 .. Len(w) + 1 /\ ~(Len(w) + 1 <= Len(w)) /\ (Len(w) + 1) - 1 = l + k
        BY <4>4
      <4>8. \A j \in 1 .. (Len(w) + 1) - 1 : ~IsOpen(w[j])
        BY <4>6, <4>7
      <4>9. OpenOf(w) = Len(w) + 1
        BY <4>5, <4>7, <4>8, OpenAt
      <4> QED BY <4>9 DEF w
    <3>2. ~(OpenOf(q \o t) <= Len(q \o t))
      <4>1. Len(q \o t) \in Nat
        BY <2>1, <1>0
      <4> QED BY <3>1, <4>1
    <3>3. StripMultilineComments[q \o t] = q \o t
      BY <2>2, <2>3, <3>2, Zenon
    <3>4. Uncommented[t] = t
      BY <2>4, <2>5, Zenon
    <3> QED BY <3>3, <3>4, Zenon
  <2>6. CASE ~(OpenOf(t) > Len(t))
    <3> DEFINE o == OpenOf(t)
               c == CloseFrom(t, o)
               a == SubSeq(t, 1, o - 1)
               r == RestOf(t, c)
    <3>1. o \in 1 .. Len(t)
      <4>1. OpenOf(t) \in 1 .. Len(t) + 1
        BY OpenIs
      <4> QED BY <4>1, <2>6, <1>0
    <3>2. /\ OpenOf(q \o t) <= Len(q \o t) /\ ~(CloseFrom(q \o t, 1) < OpenOf(q \o t))
          /\ q \o a \in Text /\ Free(q \o a)
          /\ Round(q \o t) = (q \o a) \o r
      <4> HIDE DEF o, c
      <4>1. OpenOf(t) = o /\ c = CloseFrom(t, o)
        BY Zenon DEF o, c
      <4>2. OneLess(q, t, o, c)
        BY <4>1, <3>1, OneRound
      <4> QED BY <4>2, Zenon DEF OneLess
    <3>3. /\ c \in o + 1 .. Len(t) + 1 /\ (c <= Len(t) => IsClose(t[c]))
      <4> HIDE DEF o, c
      <4>1. OpenOf(t) = o /\ c = CloseFrom(t, o)
        BY Zenon DEF o, c
      <4> QED BY <4>1, <3>1, CloseLater
    <3> HIDE DEF o, c
    <3>4. c \in 1 .. Len(t) + 1
      BY <3>1, <3>3, <1>0
    <3>5. r \in Text /\ Len(r) < Len(t)
      <4>1. t # <<>>
        BY <3>1, <1>0
      <4> QED BY <4>1, <3>4, RestLess
    <3>6. InOrder(r)
      BY <3>3, <3>4, OrderBehind
    <3>7. a \in Seq(Chars)
      <4>1. o - 1 \in 1 - 1 .. Len(t) /\ 1 \in 1 .. Len(t) + 1 /\ t \in Seq(Chars)
        BY <3>1, <1>0 DEF Text
      <4> QED BY <4>1, PartIs
    <3>8. Len(r) < n
      BY <3>5, <1>0
    <3>9. Strips(q \o a, r)
      <4> HIDE DEF a, r, Strips
      <4> QED BY <1>2, <3>2, <3>5, <3>6, <3>8
    <3>10. Uncommented[t] = a \o Uncommented[r]
      BY <2>4, <2>6, Zenon DEF o, c
    <3>11. (q \o a) \o Uncommented[r] = q \o (a \o Uncommented[r])
      <4>1. Uncommented[r] \in Seq(Chars) /\ q \in Seq(Chars)
        BY <3>5, UncommentedIs DEF Text
      <4>2. Regroups(q, a, Uncommented[r])
        BY <4>1, <3>7, Regroup
      <4> QED BY <4>2 DEF Regroups
    <3>12. StripMultilineComments[q \o t] = StripMultilineComments[Round(q \o t)]
      BY <2>2, <2>3, <3>2, Zenon
    <3>13. StripMultilineComments[(q \o a) \o r] = (q \o a) \o Uncommented[r]
      BY <3>9, Zenon
    <3> QED BY <3>2, <3>10, <3>11, <3>12, <3>13, Zenon
  <2> QED BY <2>5, <2>6
<1>3. Nat \subseteq Good
  <2> HIDE DEF Good
  <2> QED BY <1>1, <1>2, NatInd
<1>4. Len(s) \in Nat /\ Len(s) + 1 \in Nat /\ Len(s) < Len(s) + 1
  BY <1>0
<1>5. Len(s) + 1 \in Good
  BY <1>3, <1>4
<1>6. Strips(p, s)
  <2> HIDE DEF Strips
  <2> QED BY <1>4, <1>5
<1> QED BY <1>6

\* Where comments are in order, the loop of StripMultilineComments takes out
\* every one of them, and nothing else.
LEMMA StripsAll ==
  ASSUME NEW s \in Text, WellCommented(s)
  PROVE  StripMultilineComments[s] = Uncommented[s]
<1>1. <<>> \in Text /\ Free(<<>>) /\ InOrder(s)
  BY OrderIs DEF Text, Free
<1>2. StripMultilineComments[<<>> \o s] = <<>> \o Uncommented[s]
  BY <1>1, StripsBehind
<1>3. Uncommented[s] \in Text
  BY UncommentedIs
<1>4. \A t \in Text : <<>> \o t = t
  BY DEF Text
<1> QED BY <1>2, <1>3, <1>4

-----------------------------------------------------------------------------
(* Lines                                                                   *)

IsNL(c) == c = "\n"
EndOf(s) == findNextLine(s, 1)
LineOf(s) == SubSeq(s, 1, EndOf(s) - 1)
EndedLine(s) == SubSeq(s, 1, EndOf(s))
Dropped(s) == EndOf(s) - 1 > 2 /\ ~isCodeLineValid(LineOf(s))

\* A line ends at the first "\n", or with the text.
LEMMA EndIs ==
  ASSUME NEW s \in Text
  PROVE  /\ EndOf(s) \in 1 .. Len(s) + 1
         /\ \A j \in 1 .. EndOf(s) - 1 : ~IsNL(s[j])
         /\ EndOf(s) <= Len(s) => IsNL(s[EndOf(s)])
<1>1. Len(s) \in Nat /\ 1 \in Nat /\ 1 <= Len(s) + 1
  BY LenProperties DEF Text
<1> DEFINE e == findNext(s, 1, {"\n"})
<1>2. /\ e \in 1 .. Len(s) + 1
      /\ \A j \in 1 .. e - 1 : s[j] \notin {"\n"}
      /\ e <= Len(s) => s[e] \in {"\n"}
  BY <1>1, NextIs, Zenon
<1> HIDE DEF e
<1>3. \A c : c \in {"\n"} <=> IsNL(c)
  BY Zenon DEF IsNL
<1>4. /\ \A j \in 1 .. e - 1 : ~IsNL(s[j])
      /\ e <= Len(s) => IsNL(s[e])
  BY <1>2, <1>3, Zenon
<1>5. e = EndOf(s)
  BY Zenon DEF e, EndOf, findNextLine
<1> QED BY <1>2, <1>4, <1>5, Zenon

\* The first line of a text, with and without its end, and what is behind it.
LEMMA LineParts ==
  ASSUME NEW s \in Text
  PROVE  /\ LineOf(s) \in Text /\ Len(LineOf(s)) = EndOf(s) - 1
         /\ \A k \in 1 .. EndOf(s) - 1 : LineOf(s)[k] = s[k]
         /\ EndOf(s) <= Len(s) => EndedLine(s) \in Text /\ EndedLine(s) = Append(LineOf(s), "\n")
         /\ RestOf(s, EndOf(s)) \in Text /\ (s # <<>> => Len(RestOf(s, EndOf(s))) < Len(s))
<1> DEFINE e == EndOf(s)
           l == LineOf(s)
<1>1. s \in Seq(Chars) /\ Len(s) \in Nat
  BY LenProperties DEF Text
<1>2. e \in 1 .. Len(s) + 1 /\ (e <= Len(s) => IsNL(s[e]))
  BY EndIs
<1>3. l = SubSeq(s, 1, e - 1)
  BY Zenon DEF LineOf
<1>4. EndedLine(s) = SubSeq(s, 1, e)
  BY Zenon DEF EndedLine
<1>5. RestOf(s, e) \in Text /\ (s # <<>> => Len(RestOf(s, e)) < Len(s))
  BY <1>2, RestLess
<1> HIDE DEF e, l
<1>6. /\ l \in Seq(Chars) /\ Len(l) = e - 1 /\ \A k \in 1 .. e - 1 : l[k] = s[k]
  <2>1. e - 1 \in 1 - 1 .. Len(s) /\ 1 \in 1 .. Len(s) + 1
    BY <1>1, <1>2
  <2> DEFINE h == SubSeq(s, 1, e - 1)
  <2>2. /\ h \in Seq(Chars) /\ Len(h) = (e - 1) + 1 - 1
        /\ \A k \in 1 .. (e - 1) + 1 - 1 : h[k] = s[1 + (k - 1)]
    BY <1>1, <2>1, PartIs
  <2>3. h = l
    BY <1>3
  <2> HIDE DEF h
  <2>4. (e - 1) + 1 - 1 = e - 1 /\ \A k \in 1 .. e - 1 : 1 + (k - 1) = k
    BY <1>2
  <2>5. Len(h) = e - 1 /\ \A k \in 1 .. e - 1 : h[k] = s[k]
    BY <2>2, <2>4
  <2> QED BY <2>2, <2>3, <2>5
<1>7. ASSUME e <= Len(s) PROVE EndedLine(s) \in Text /\ EndedLine(s) = Append(l, "\n")
  <2>1. e \in 1 - 1 .. Len(s) /\ 1 \in 1 .. Len(s) + 1
    BY <1>1, <1>2, <1>7
  <2> DEFINE h == SubSeq(s, 1, e)
             g == Append(l, s[e])
  <2>2. /\ h \in Seq(Chars) /\ Len(h) = e + 1 - 1
        /\ \A k \in 1 .. e + 1 - 1 : h[k] = s[1 + (k - 1)]
    BY <1>1, <2>1, PartIs
  <2>3. s[e] \in Chars
    <3>1. e \in 1 .. Len(s)
      BY <1>1, <1>2, <1>7
    <3> QED BY <3>1, <1>1, ElementOfSeq
  <2>4. /\ g \in Seq(Chars) /\ Len(g) = Len(l) + 1 /\ g[Len(l) + 1] = s[e]
        /\ \A k \in 1 .. Len(l) : g[k] = l[k]
    BY <1>6, <2>3, AppendProperties
  <2> HIDE DEF h, g
  <2>5. Len(h) = e /\ Len(g) = e /\ \A k \in 1 .. e : 1 + (k - 1) = k /\ k \in 1 .. e + 1 - 1
    BY <1>2, <1>6, <2>2, <2>4
  <2>6. ASSUME NEW k \in 1 .. e PROVE h[k] = g[k]
    <3>1. h[k] = s[k]
      BY <2>2, <2>5
    <3>2. CASE k = e
      <4>1. Len(l) + 1 = e
        BY <1>2, <1>6
      <4> QED BY <3>1, <3>2, <4>1, <2>4
    <3>3. CASE k # e
      <4>1. k \in 1 .. e - 1
        BY <3>3, <1>2
      <4> QED BY <3>1, <4>1, <2>4, <1>6
    <3> QED BY <3>2, <3>3
  <2>7. h = g
    BY <2>2, <2>4, <2>5, <2>6, SameChars
  <2>8. s[e] = "\n"
    BY <1>2, <1>7 DEF IsNL
  <2> QED BY <1>4, <2>2, <2>7, <2>8 DEF h, g, Text
<1>8. l \in Text
  BY <1>6 DEF Text
<1> QED BY <1>5, <1>6, <1>7, <1>8 DEF e, l

IsLines(f) ==
  f = [s \in Text |-> IF s = <<>> THEN <<>> ELSE <<LineOf(s)>> \o f[RestOf(s, EndOf(s))]]

\* LinesOf is what it is defined to be, and makes texts.
LEMMA LinesIs == IsLines(LinesOf) /\ LinesOf \in [Text -> Seq(Text)]
<1> DEFINE stops == {s \in Text : s = <<>>}
           m == [s \in Text |-> Len(s)]
           base == [s \in Text |-> <<>>]
           pre == [s \in Text |-> <<LineOf(s)>>]
           next == [s \in Text |-> RestOf(s, EndOf(s))]
<1>1. \A s \in Text : /\ LineOf(s) \in Text /\ RestOf(s, EndOf(s)) \in Text
                      /\ s # <<>> => Len(RestOf(s, EndOf(s))) < Len(s)
  BY LineParts
<1>2. \A s \in Text : Len(s) \in Nat
  BY LenProperties DEF Text
<1>e. <<>> \in Seq(Text)
  OBVIOUS
<1>f. \A l \in Text : <<l>> \in Seq(Text)
  OBVIOUS
<1>3. base \in [Text -> Seq(Text)] /\ pre \in [Text -> Seq(Text)] /\ next \in [Text -> Text] /\ m \in [Text -> Nat]
  <2> HIDE DEF stops
  <2> QED BY <1>1, <1>2, <1>e, <1>f
<1>4. \A s \in Text : s \notin stops => m[next[s]] < m[s]
  BY <1>1, <1>3
<1>5. Descends(Text, m, stops, next)
  BY <1>3, <1>4, Zenon DEF Descends
<1>7. ASSUME NEW f PROVE TailMade(Text, stops, base, pre, next, f) <=> IsLines(f)
  <2>1. \A s \in Text :
          (IF s \in stops THEN base[s] ELSE pre[s] \o f[next[s]])
          = (IF s = <<>> THEN <<>> ELSE <<LineOf(s)>> \o f[RestOf(s, EndOf(s))])
    <3>1. \A s \in Text : /\ s \in stops <=> s = <<>>
                          /\ base[s] = <<>> /\ pre[s] = <<LineOf(s)>> /\ next[s] = RestOf(s, EndOf(s))
      OBVIOUS
    <3> HIDE DEF stops, base, pre, next
    <3> QED BY <3>1
  <2> HIDE DEF stops, base, pre, next
  <2>2. [s \in Text |-> IF s \in stops THEN base[s] ELSE pre[s] \o f[next[s]]]
        = [s \in Text |-> IF s = <<>> THEN <<>> ELSE <<LineOf(s)>> \o f[RestOf(s, EndOf(s))]]
    BY <2>1
  <2> QED BY <2>2, Zenon DEF TailMade, IsLines
<1> HIDE DEF stops, m, base, pre, next
<1>8. \E f : IsLines(f)
  <2>1. \E f \in [Text -> Seq(Text)] : TailMade(Text, stops, base, pre, next, f)
    BY <1>3, <1>5, TailRecursion
  <2> QED BY <2>1, <1>7, Zenon
<1>9. LinesOf = CHOOSE f : IsLines(f)
  BY Zenon DEF LinesOf, IsLines, LineOf, EndOf, RestOf
<1>10. IsLines(LinesOf)
  BY <1>8, <1>9, Zenon
<1>11. LinesOf \in [Text -> Seq(Text)]
  BY <1>3, <1>5, <1>7, <1>10, TailType
<1> QED BY <1>10, <1>11

IsShrunk(f) ==
  f = [s \in Text |->
         IF EndOf(s) > Len(s) THEN s
         ELSE (IF Dropped(s) THEN <<>> ELSE EndedLine(s)) \o f[RestOf(s, EndOf(s))]]

\* So is ShrinkLines.
LEMMA ShrunkIs == IsShrunk(ShrinkLines) /\ ShrinkLines \in [Text -> Text]
<1> DEFINE stops == {s \in Text : EndOf(s) > Len(s)}
           m == [s \in Text |-> Len(s)]
           base == [s \in Text |-> s]
           pre == [s \in Text |-> IF EndOf(s) > Len(s) \/ Dropped(s) THEN <<>> ELSE EndedLine(s)]
           next == [s \in Text |-> RestOf(s, EndOf(s))]
<1>2. \A s \in Text : Len(s) \in Nat
  BY LenProperties DEF Text
<1>1. ASSUME NEW s \in Text
      PROVE  /\ RestOf(s, EndOf(s)) \in Text
             /\ ~(EndOf(s) > Len(s)) => EndedLine(s) \in Text /\ Len(RestOf(s, EndOf(s))) < Len(s)
  <2>1. EndOf(s) \in 1 .. Len(s) + 1
    BY EndIs
  <2>2. ~(EndOf(s) > Len(s)) => s # <<>> /\ EndOf(s) <= Len(s)
    BY <2>1, <1>2
  <2> QED BY <2>2, LineParts
<1>e. <<>> \in Text
  BY DEF Text
<1>3. base \in [Text -> Text] /\ pre \in [Text -> Text] /\ next \in [Text -> Text] /\ m \in [Text -> Nat]
  <2> HIDE DEF stops
  <2> QED BY <1>1, <1>2, <1>e
<1>4. \A s \in Text : s \notin stops => m[next[s]] < m[s]
  BY <1>1, <1>3
<1>5. Descends(Text, m, stops, next)
  BY <1>3, <1>4, Zenon DEF Descends
<1>6. base \in [Text -> Seq(Chars)] /\ pre \in [Text -> Seq(Chars)]
  BY <1>3 DEF Text
<1>7. ASSUME NEW f PROVE TailMade(Text, stops, base, pre, next, f) <=> IsShrunk(f)
  <2> DEFINE other(s) == IF s \in stops THEN base[s] ELSE pre[s] \o f[next[s]]
             made(s) == IF EndOf(s) > Len(s) THEN s
                        ELSE (IF Dropped(s) THEN <<>> ELSE EndedLine(s)) \o f[RestOf(s, EndOf(s))]
  <2>1. ASSUME NEW s \in Text PROVE other(s) = made(s)
    <3>1. /\ s \in stops <=> EndOf(s) > Len(s)
          /\ base[s] = s /\ next[s] = RestOf(s, EndOf(s))
          /\ pre[s] = IF EndOf(s) > Len(s) \/ Dropped(s) THEN <<>> ELSE EndedLine(s)
      OBVIOUS
    <3> HIDE DEF stops, base, pre, next
    <3> QED BY <3>1, Zenon
  <2>2. [s \in Text |-> other(s)] = [s \in Text |-> made(s)]
    <3> HIDE DEF other, made
    <3> QED BY <2>1
  <2> HIDE DEF stops, base, pre, next
  <2> QED BY <2>2, Zenon DEF TailMade, IsShrunk
<1> HIDE DEF stops, m, base, pre, next
<1>8. \E f : IsShrunk(f)
  <2>1. \E f \in [Text -> Seq(Chars)] : TailMade(Text, stops, base, pre, next, f)
    BY <1>5, <1>6, TailRecursion
  <2> QED BY <2>1, <1>7, Zenon
<1>9. ShrinkLines = CHOOSE f : IsShrunk(f)
  BY Zenon DEF ShrinkLines, IsShrunk, LineOf, EndedLine, Dropped, EndOf, RestOf
<1>10. IsShrunk(ShrinkLines)
  BY <1>8, <1>9, Zenon
<1>11. ShrinkLines \in [Text -> Seq(Chars)]
  BY <1>5, <1>6, <1>7, <1>10, TailType
<1> QED BY <1>10, <1>11 DEF Text

\* The two programs look at a line in the same way.
LEMMA SameValid ==
  ASSUME NEW line \in Text
  PROVE  isCodeLineValid(line) <=> PluginTakes(line)
<1> DEFINE b == CountOf(line, {" "})
           B(z) == CountOf(SubSeq(line, 1, z), {" "})
           one == LineKind(line) = "1"
           two == LineKind(line) = "2"
           checked == {z \in DOMAIN line : one => B(z) < 2}
           float == IF two THEN {"."} ELSE {}
<1>1. ~(one /\ two)
  OBVIOUS
<1>2. ASSUME NEW z \in DOMAIN line PROVE B(z) >= 2 <=> ~(B(z) < 2)
  <2>1. line \in Seq(Chars) /\ Len(line) \in Nat /\ DOMAIN line = 1 .. Len(line)
    BY DEF Text
  <2>2. SubSeq(line, 1, z) \in Seq(Chars)
    <3>1. 1 \in 1 .. Len(line) + 1 /\ z \in 1 - 1 .. Len(line)
      BY <2>1
    <3> QED BY <2>1, <3>1, PartIs
  <2>3. B(z) \in Nat
    BY <2>2, CountNat DEF Text
  <2> HIDE DEF B
  <2> QED BY <2>3
<1>3. isCodeLineValid(line)
      <=> (IF one THEN b >= 2 /\ \A z \in DOMAIN line : B(z) >= 2 \/ line[z] \in Hex
           ELSE IF two THEN b = 2 /\ ToSet(line) \subseteq Hex \cup {"."}
           ELSE b = 2 /\ ToSet(line) \subseteq Hex)
  <2>1. CASE one
    BY <2>1, Zenon DEF isCodeLineValid
  <2>2. CASE two
    <3>1. ~one
      BY <1>1, <2>2, Zenon
    <3> QED BY <2>2, <3>1, Zenon DEF isCodeLineValid
  <2>3. CASE ~one /\ ~two
    BY <2>3, Zenon DEF isCodeLineValid
  <2> QED BY <2>1, <2>2, <2>3, Zenon
<1>4. PluginTakes(line)
      <=> /\ IF one THEN b >= 2 ELSE b = 2
          /\ \A z \in checked : line[z] \in Hex \cup float
  BY Zenon DEF PluginTakes
<1>5. \A T : ToSet(line) \subseteq T <=> \A z \in DOMAIN line : line[z] \in T
  BY Zenon DEF ToSet
<1> HIDE DEF one, two, b, B
<1>6. CASE one
  <2>1. float = {}
    BY <1>1, <1>6, Zenon
  <2>2. \A c : c \in Hex \cup float <=> c \in Hex
    BY <2>1, Zenon
  <2>3. \A z \in DOMAIN line : z \in checked <=> ~(B(z) >= 2)
    BY <1>2, <1>6, Zenon
  <2> QED BY <1>3, <1>4, <1>6, <2>2, <2>3, Zenon
<1>7. CASE ~one
  <2>1. checked = DOMAIN line
    BY <1>7, Zenon
  <2>2. CASE two
    <3>1. float = {"."}
      BY <2>2, Zenon
    <3> HIDE DEF checked, float
    <3> QED BY <1>3, <1>4, <1>5, <1>7, <2>1, <2>2, <3>1, Zenon
  <2>3. CASE ~two
    <3>1. float = {}
      BY <2>3, Zenon
    <3>2. \A c : c \in Hex \cup float <=> c \in Hex
      BY <3>1, Zenon
    <3> HIDE DEF checked, float
    <3> QED BY <1>3, <1>4, <1>5, <1>7, <2>1, <2>3, <3>2, Zenon
  <2> QED BY <2>2, <2>3
<1> QED BY <1>6, <1>7

\* The first piece is how the text of all begins.
LEMMA FlattenFirst ==
  ASSUME NEW S, NEW a \in Seq(S), NEW r \in Seq(Seq(S))
  PROVE  FlattenSeq(<<a>> \o r) = a \o FlattenSeq(r)
<1> DEFINE s == <<a>> \o r
<1>1. <<a>> \in Seq(Seq(S)) /\ Len(<<a>>) = 1 /\ <<a>>[1] = a
  OBVIOUS
<1>2. /\ Len(r) \in Nat /\ s \in Seq(Seq(S)) /\ Len(s) = Len(<<a>>) + Len(r)
      /\ \A j \in 1 .. Len(<<a>>) : s[j] = <<a>>[j]
      /\ \A j \in 1 .. Len(r) : s[Len(<<a>>) + j] = r[j]
  BY <1>1, Joined
<1>3. Len(s) = 1 + Len(r) /\ s[1] = a /\ \A j \in 1 .. Len(r) : s[1 + j] = r[j]
  <2>1. 1 \in 1 .. 1
    OBVIOUS
  <2> QED BY <1>1, <1>2, <2>1
<1> HIDE DEF s
<1>6. PICK u : Pieces(u, s, S) /\ FlattenSeq(s) = u[Len(s)]
  BY <1>2, FlattenIs
<1>7. PICK q : Pieces(q, r, S) /\ FlattenSeq(r) = q[Len(r)]
  BY FlattenIs
<1>8. Lies(r, s, 1)
  BY <1>2, <1>3 DEF Lies
<1>9. RunsOver(u, 1, q, r)
  <2>1. 1 \in Nat
    OBVIOUS
  <2> QED BY <2>1, <1>2, <1>6, <1>7, <1>8, PiecesRun
<1>10. u[1] = a
  <2>1. 1 \in 1 .. Len(s)
    BY <1>2, <1>3
  <2>2. u[0] = <<>> /\ u[1] = u[1 - 1] \o s[1]
    BY <2>1, <1>6, Zenon DEF Pieces
  <2>3. 1 - 1 = 0 /\ <<>> \o a = a
    OBVIOUS
  <2> QED BY <2>2, <2>3, <1>3
<1>11. u[1 + Len(r)] = u[1] \o q[Len(r)]
  BY <1>9, Zenon DEF RunsOver
<1>12. FlattenSeq(s) = a \o FlattenSeq(r)
  BY <1>3, <1>6, <1>7, <1>10, <1>11
<1> QED BY <1>12 DEF s

\* A line that goes, with its end, and those of a text.
KeptLine(l) == IF Goes(l) THEN Append(l, "\n") ELSE <<>>
KeptOf(ls) == [k \in DOMAIN ls |-> IF Goes(ls[k]) THEN Append(ls[k], "\n") ELSE <<>>]
KeptText(s) == FlattenSeq(KeptOf(LinesOf[s]))
Closed(s) == IF s = <<>> \/ Last(s) = "\n" THEN s ELSE Append(s, "\n")
WellEnded(s) == s # <<>> => Last(s) = "\n" \/ Goes(Last(LinesOf[s]))

\* An end of a line is a character.
LEMMA NLIsChar == "\n" \in Chars
PROOF BY DEF Chars, Hex

\* A line that is kept is a text.
LEMMA KeptLineType ==
  ASSUME NEW l \in Text
  PROVE  KeptLine(l) \in Seq(Chars)
<1>1. Append(l, "\n") \in Seq(Chars) /\ <<>> \in Seq(Chars)
  BY NLIsChar DEF Text
<1> QED BY <1>1 DEF KeptLine

\* So are those of a text.
LEMMA KeptOfType ==
  ASSUME NEW ls \in Seq(Text)
  PROVE  KeptOf(ls) \in Seq(Seq(Chars)) /\ Len(KeptOf(ls)) = Len(ls)
<1> DEFINE n == Len(ls)
<1>1. n \in Nat /\ DOMAIN ls = 1 .. n /\ \A k \in 1 .. n : ls[k] \in Text
  BY ElementOfSeq
<1>2. KeptOf(ls) = [k \in 1 .. n |-> KeptLine(ls[k])]
  BY <1>1, Zenon DEF KeptOf, KeptLine
<1>3. \A k \in 1 .. n : KeptLine(ls[k]) \in Seq(Chars)
  BY <1>1, KeptLineType
<1> HIDE DEF n
<1>4. KeptOf(ls) \in Seq(Seq(Chars)) /\ Len(KeptOf(ls)) = n
  BY <1>1, <1>2, <1>3
<1> QED BY <1>4 DEF n

\* The lines that are kept are the first, if it is, and the others.
LEMMA KeptFirst ==
  ASSUME NEW l \in Text, NEW ls \in Seq(Text)
  PROVE  FlattenSeq(KeptOf(<<l>> \o ls)) = KeptLine(l) \o FlattenSeq(KeptOf(ls))
<1> DEFINE a == KeptOf(<<l>> \o ls)
           h == <<KeptLine(l)>>
           t == KeptOf(ls)
<1>1. <<l>> \in Seq(Text) /\ Len(<<l>>) = 1 /\ <<l>>[1] = l
  OBVIOUS
<1> DEFINE w == <<l>> \o ls
<1>2. /\ Len(ls) \in Nat /\ w \in Seq(Text) /\ Len(w) = 1 + Len(ls)
      /\ w[1] = l
      /\ \A j \in 1 .. Len(ls) : w[1 + j] = ls[j]
  <2>1. /\ Len(ls) \in Nat /\ w \in Seq(Text) /\ Len(w) = Len(<<l>>) + Len(ls)
        /\ \A j \in 1 .. Len(<<l>>) : w[j] = <<l>>[j]
        /\ \A j \in 1 .. Len(ls) : w[Len(<<l>>) + j] = ls[j]
    BY <1>1, Joined
  <2>2. 1 \in 1 .. 1
    OBVIOUS
  <2> HIDE DEF w
  <2> QED BY <1>1, <2>1, <2>2
<1>3. a = KeptOf(w)
  OBVIOUS
<1> HIDE DEF w, a
<1>4. a \in Seq(Seq(Chars)) /\ Len(a) = 1 + Len(ls) /\ t \in Seq(Seq(Chars)) /\ Len(t) = Len(ls)
  BY <1>2, <1>3, KeptOfType
<1>5. \A v \in Seq(Text) : \A k \in 1 .. Len(v) : KeptOf(v)[k] = KeptLine(v[k])
  <2> SUFFICES ASSUME NEW v \in Seq(Text), NEW k \in 1 .. Len(v) PROVE KeptOf(v)[k] = KeptLine(v[k])
    OBVIOUS
  <2>1. DOMAIN v = 1 .. Len(v)
    OBVIOUS
  <2> QED BY <2>1, Zenon DEF KeptOf, KeptLine
<1>6. a[1] = KeptLine(l) /\ \A j \in 1 .. Len(ls) : a[1 + j] = KeptLine(ls[j])
  <2>1. 1 \in 1 .. Len(w) /\ \A j \in 1 .. Len(ls) : 1 + j \in 1 .. Len(w)
    BY <1>2
  <2> QED BY <2>1, <1>2, <1>3, <1>5
<1>7. \A j \in 1 .. Len(ls) : t[j] = KeptLine(ls[j])
  BY <1>5
<1>8. KeptLine(l) \in Seq(Chars)
  BY KeptLineType
<1> HIDE DEF t
<1>9. a = h \o t
  <2>1. h \in Seq(Seq(Chars)) /\ Len(h) = 1 /\ h[1] = KeptLine(l)
    BY <1>8
  <2> HIDE DEF h
  <2> DEFINE g == h \o t
  <2>2. /\ g \in Seq(Seq(Chars)) /\ Len(g) = Len(h) + Len(t)
        /\ \A j \in 1 .. Len(h) : g[j] = h[j]
        /\ \A j \in 1 .. Len(t) : g[Len(h) + j] = t[j]
    <3>1. h \in Seq(Seq(Chars)) /\ t \in Seq(Seq(Chars))
      BY <2>1, <1>4
    <3> QED BY <3>1, Joined
  <2> HIDE DEF g
  <2>3. Len(g) = 1 + Len(ls) /\ g[1] = KeptLine(l) /\ \A j \in 1 .. Len(ls) : g[1 + j] = t[j]
    BY <2>1, <2>2, <1>2, <1>4
  <2>4. ASSUME NEW k \in 1 .. Len(a) PROVE a[k] = g[k]
    <3>1. CASE k = 1
      BY <3>1, <2>3, <1>6
    <3>2. CASE k # 1
      <4>1. k - 1 \in 1 .. Len(ls) /\ 1 + (k - 1) = k
        BY <3>2, <1>2, <1>4
      <4>2. g[1 + (k - 1)] = t[k - 1] /\ a[1 + (k - 1)] = KeptLine(ls[k - 1]) /\ t[k - 1] = KeptLine(ls[k - 1])
        BY <4>1, <2>3, <1>6, <1>7
      <4> QED BY <4>1, <4>2
    <3> QED BY <3>1, <3>2
  <2>5. a = g
    BY <2>2, <2>3, <2>4, <1>4, SameChars
  <2> QED BY <2>5 DEF g
<1>10. FlattenSeq(h \o t) = KeptLine(l) \o FlattenSeq(t)
  BY <1>4, <1>8, FlattenFirst
<1> QED BY <1>9, <1>10 DEF a, t, w

\* A text ends as what is behind another does.
LEMMA LastBehind ==
  ASSUME NEW S, NEW a \in Seq(S), NEW t \in Seq(S), t # <<>>
  PROVE  a \o t # <<>> /\ Last(a \o t) = Last(t)
<1> DEFINE w == a \o t
<1>1. /\ Len(a) \in Nat /\ Len(t) \in Nat /\ w \in Seq(S) /\ Len(w) = Len(a) + Len(t)
      /\ \A j \in 1 .. Len(t) : w[Len(a) + j] = t[j]
  BY Joined
<1>2. Len(t) # 0
  BY EmptySeq
<1> HIDE DEF w
<1>3. Len(t) \in 1 .. Len(t) /\ Len(w) # 0
  BY <1>1, <1>2
<1>4. w[Len(w)] = t[Len(t)]
  BY <1>1, <1>3
<1>5. w # <<>>
  BY <1>3
<1>6. w # <<>> /\ Last(w) = Last(t)
  BY <1>4, <1>5, Zenon DEF Last
<1> QED BY <1>6 DEF w

\* What is at the end of two texts, of which the first is ended.
LEMMA ClosedBehind ==
  ASSUME NEW a \in Text, NEW t \in Text, a = <<>> \/ Last(a) = "\n"
  PROVE  Closed(a \o t) = a \o Closed(t)
<1>1. CASE t = <<>>
  <2>1. a \o t = a /\ Closed(t) = <<>> /\ a \o <<>> = a
    BY <1>1 DEF Closed, Text
  <2> QED BY <2>1 DEF Closed
<1>2. CASE t # <<>>
  <2>0. a \in Seq(Chars) /\ t \in Seq(Chars) /\ Len(t) # 0
    BY <1>2, EmptySeq DEF Text
  <2> DEFINE w == a \o t
  <2>2. w # <<>> /\ Last(w) = Last(t)
    BY <2>0, <1>2, LastBehind
  <2>3. CASE Last(t) = "\n"
    BY <2>2, <2>3, <1>2, Zenon DEF Closed
  <2>4. CASE Last(t) # "\n"
    <3>1. Closed(w) = Append(w, "\n") /\ Closed(t) = Append(t, "\n")
      BY <2>2, <2>4, <1>2, Zenon DEF Closed
    <3>2. Append(a \o t, "\n") = a \o Append(t, "\n")
      <4>1. \A c \in Chars : Append(a \o t, c) = a \o Append(t, c)
        BY <2>0
      <4> QED BY <4>1, NLIsChar
    <3> QED BY <3>1, <3>2
  <2> QED BY <2>3, <2>4
<1> QED BY <1>1, <1>2

\* Nothing is kept of nothing.
LEMMA KeptNone == KeptText(<<>>) = <<>>
<1>1. LinesOf[<<>>] = <<>>
  <2>1. <<>> \in Text
    BY DEF Text
  <2> QED BY <2>1, LinesIs, Zenon DEF IsLines
<1>2. <<>> \in Seq(Text)
  OBVIOUS
<1>3. KeptOf(<<>>) \in Seq(Seq(Chars)) /\ Len(KeptOf(<<>>)) = 0
  BY <1>2, KeptOfType
<1>4. PICK p : Pieces(p, KeptOf(<<>>), Chars) /\ FlattenSeq(KeptOf(<<>>)) = p[Len(KeptOf(<<>>))]
  BY <1>3, FlattenIs
<1>5. p[0] = <<>>
  BY <1>4, Zenon DEF Pieces
<1> QED BY <1>1, <1>3, <1>4, <1>5, Zenon DEF KeptText

\* Of a text, its first line is kept, or not, and what is kept of the rest.
LEMMA KeptMore ==
  ASSUME NEW s \in Text, s # <<>>
  PROVE  /\ LinesOf[s] = <<LineOf(s)>> \o LinesOf[RestOf(s, EndOf(s))]
         /\ KeptText(s) = KeptLine(LineOf(s)) \o KeptText(RestOf(s, EndOf(s)))
<1>1. LinesOf[s] = <<LineOf(s)>> \o LinesOf[RestOf(s, EndOf(s))]
  BY LinesIs, Zenon DEF IsLines
<1>2. LineOf(s) \in Text /\ LinesOf[RestOf(s, EndOf(s))] \in Seq(Text)
  BY LineParts, LinesIs
<1>3. FlattenSeq(KeptOf(<<LineOf(s)>> \o LinesOf[RestOf(s, EndOf(s))]))
      = KeptLine(LineOf(s)) \o FlattenSeq(KeptOf(LinesOf[RestOf(s, EndOf(s))]))
  BY <1>2, KeptFirst
<1> QED BY <1>1, <1>3, Zenon DEF KeptText

\* The last line of a text that nothing ends is the whole text, and goes.
LEMMA LastAlone ==
  ASSUME NEW s \in Text, WellEnded(s), s # <<>>, EndOf(s) > Len(s)
  PROVE  Closed(s) = KeptText(s)
<1>1. s \in Seq(Chars) /\ Len(s) \in Nat /\ Len(s) # 0
  BY EmptySeq, LenProperties DEF Text
<1>2. /\ EndOf(s) \in 1 .. Len(s) + 1 /\ \A j \in 1 .. EndOf(s) - 1 : ~IsNL(s[j])
  BY EndIs
<1>3. EndOf(s) = Len(s) + 1 /\ EndOf(s) - 1 = Len(s) /\ EndOf(s) \in 0 .. Len(s) + 1
  BY <1>1, <1>2
<1>4. LineOf(s) = s
  <2>1. /\ LineOf(s) \in Text /\ Len(LineOf(s)) = EndOf(s) - 1
        /\ \A k \in 1 .. EndOf(s) - 1 : LineOf(s)[k] = s[k]
    BY LineParts
  <2> DEFINE l == LineOf(s)
  <2> HIDE DEF l
  <2>2. l \in Seq(Chars) /\ Len(l) = Len(s) /\ \A k \in 1 .. Len(l) : l[k] = s[k]
    BY <2>1, <1>3 DEF l, Text
  <2>3. l = s
    BY <1>1, <2>2, SameChars
  <2> QED BY <2>3 DEF l
<1>5. RestOf(s, EndOf(s)) = <<>>
  <2>1. RestOf(s, EndOf(s)) \in Seq(Chars) /\ Len(RestOf(s, EndOf(s))) = 0
    BY <1>1, <1>3, RestIs
  <2> QED BY <2>1, EmptySeq
<1>6. LinesOf[s] = <<s>> /\ KeptText(s) = KeptLine(s)
  <2>1. LinesOf[<<>>] = <<>>
    <3>1. <<>> \in Text
      BY DEF Text
    <3> QED BY <3>1, LinesIs, Zenon DEF IsLines
  <2>2. LinesOf[s] = <<s>> \o <<>> /\ KeptText(s) = KeptLine(s) \o <<>>
    BY <1>4, <1>5, <2>1, KeptMore, KeptNone
  <2>3. <<s>> \o <<>> = <<s>>
    OBVIOUS
  <2>4. KeptLine(s) \o <<>> = KeptLine(s)
    BY KeptLineType, ConcatEmptySeq
  <2> QED BY <2>2, <2>3, <2>4
<1>7. ~(Last(s) = "\n")
  <2>1. Len(s) \in 1 .. EndOf(s) - 1
    BY <1>1, <1>3
  <2>2. ~IsNL(s[Len(s)])
    BY <1>2, <2>1
  <2> QED BY <2>2, Zenon DEF Last, IsNL
<1>8. Last(LinesOf[s]) = s
  <2>1. Len(<<s>>) = 1 /\ <<s>>[1] = s
    OBVIOUS
  <2> QED BY <2>1, <1>6, Zenon DEF Last
<1>9. Goes(s)
  BY <1>7, <1>8, Zenon DEF WellEnded
<1>10. KeptLine(s) = Append(s, "\n")
  BY <1>9, Zenon DEF KeptLine
<1>11. Closed(s) = Append(s, "\n")
  BY <1>7, Zenon DEF Closed
<1> QED BY <1>6, <1>10, <1>11

\* What goes of a first line.
LEMMA LineKeptIs ==
  ASSUME NEW s \in Text, EndOf(s) <= Len(s)
  PROVE  /\ (IF Dropped(s) THEN <<>> ELSE EndedLine(s)) = KeptLine(LineOf(s))
         /\ KeptLine(LineOf(s)) \in Text
         /\ KeptLine(LineOf(s)) = <<>> \/ Last(KeptLine(LineOf(s))) = "\n"
<1> DEFINE l == LineOf(s)
<1>1. l \in Text /\ Len(l) = EndOf(s) - 1 /\ EndedLine(s) = Append(l, "\n")
  BY LineParts
<1>2. EndOf(s) \in 1 .. Len(s) + 1 /\ Len(s) \in Nat
  BY EndIs, LenProperties DEF Text
<1>3. (EndOf(s) - 1 > 2) <=> ~(Len(l) <= 2)
  BY <1>1, <1>2
<1>4. isCodeLineValid(l) <=> PluginTakes(l)
  BY <1>1, SameValid
<1>5. Dropped(s) <=> ~Goes(l)
  BY <1>3, <1>4, Zenon DEF Dropped, Goes
<1>6. (IF Dropped(s) THEN <<>> ELSE EndedLine(s)) = KeptLine(l)
  BY <1>1, <1>5, Zenon DEF KeptLine
<1>7. Last(Append(l, "\n")) = "\n"
  <2>1. \A c \in Chars : Append(l, c)[Len(Append(l, c))] = c
    BY <1>1 DEF Text
  <2> QED BY <2>1, NLIsChar, Zenon DEF Last
<1>8. KeptLine(l) = <<>> \/ Last(KeptLine(l)) = "\n"
  BY <1>7, Zenon DEF KeptLine
<1>9. KeptLine(l) \in Text
  BY <1>1, KeptLineType DEF Text
<1> QED BY <1>6, <1>8, <1>9

\* What is behind the first line ends as the text does.
LEMMA EndedBehind ==
  ASSUME NEW s \in Text, WellEnded(s), EndOf(s) <= Len(s)
  PROVE  WellEnded(RestOf(s, EndOf(s)))
<1> DEFINE e == EndOf(s)
           r == RestOf(s, e)
<1>1. SUFFICES ASSUME r # <<>> PROVE Last(r) = "\n" \/ Goes(Last(LinesOf[r]))
  BY Zenon DEF WellEnded
<1>2. s \in Seq(Chars) /\ Len(s) \in Nat /\ e \in 1 .. Len(s) + 1
  BY EndIs, LenProperties DEF Text
<1>3. e \in 0 .. Len(s) /\ s # <<>>
  BY <1>2
<1>4. s = SubSeq(s, 1, e) \o r
  BY <1>2, <1>3, CutApart
<1>5. r \in Text
  BY LineParts
<1>6. Last(s) = Last(r)
  <2>1. SubSeq(s, 1, e) \in Seq(Chars)
    <3>1. 1 \in 1 .. Len(s) + 1 /\ e \in 1 - 1 .. Len(s)
      BY <1>2, <1>3
    <3> QED BY <3>1, <1>2, PartIs
  <2> DEFINE a == SubSeq(s, 1, e)
  <2> HIDE DEF a, r
  <2>2. a \in Seq(Chars) /\ r \in Seq(Chars) /\ s = a \o r
    BY <2>1, <1>4, <1>5 DEF a, Text
  <2>3. Last(a \o r) = Last(r)
    BY <2>2, <1>1, LastBehind
  <2> QED BY <2>2, <2>3
<1>7. LinesOf[s] = <<LineOf(s)>> \o LinesOf[r]
  BY <1>3, KeptMore
<1>8. LinesOf[r] \in Seq(Text) /\ LinesOf[r] # <<>> /\ <<LineOf(s)>> \in Seq(Text)
  <2>1. LinesOf[r] = <<LineOf(r)>> \o LinesOf[RestOf(r, EndOf(r))]
    BY <1>1, <1>5, KeptMore
  <2>2. LineOf(r) \in Text /\ LinesOf[RestOf(r, EndOf(r))] \in Seq(Text)
    BY <1>5, LineParts, LinesIs
  <2>3. \A l \in Text : \A ls \in Seq(Text) : <<l>> \o ls \in Seq(Text) /\ <<l>> \o ls # <<>>
    OBVIOUS
  <2>4. LineOf(s) \in Text
    BY LineParts
  <2>5. <<LineOf(s)>> \in Seq(Text)
    BY <2>4
  <2> QED BY <2>1, <2>2, <2>3, <2>5
<1>9. Last(LinesOf[s]) = Last(LinesOf[r])
  BY <1>7, <1>8, LastBehind
<1> QED BY <1>3, <1>6, <1>9, Zenon DEF WellEnded

\* What ShrinkLines leaves of a text, closed, is its lines that go.
LEMMA ShrunkClosed ==
  ASSUME NEW s \in Text, WellEnded(s)
  PROVE  Closed(ShrinkLines[s]) = KeptText(s)
<1> DEFINE Is(t) == Closed(ShrinkLines[t]) = KeptText(t)
           Good == {n \in Nat : \A t \in Text : WellEnded(t) /\ Len(t) < n => Is(t)}
<1>0. \A t \in Text : Len(t) \in Nat
  BY LenProperties DEF Text
<1>1. 0 \in Good
  <2>1. \A t \in Text : ~(Len(t) < 0)
    BY <1>0
  <2> QED BY <2>1
<1>2. ASSUME NEW n \in Nat, n \in Good PROVE n + 1 \in Good
  <2> SUFFICES ASSUME NEW t \in Text, WellEnded(t), Len(t) < n + 1 PROVE Is(t)
    BY n + 1 \in Nat
  <2>1. ShrinkLines[t] = IF EndOf(t) > Len(t) THEN t
                         ELSE (IF Dropped(t) THEN <<>> ELSE EndedLine(t)) \o ShrinkLines[RestOf(t, EndOf(t))]
    BY ShrunkIs, Zenon DEF IsShrunk
  <2>2. EndOf(t) \in 1 .. Len(t) + 1 /\ Len(t) \in Nat
    BY EndIs, <1>0
  <2>3. CASE t = <<>>
    <3>1. EndOf(t) > Len(t)
      BY <2>2, <2>3
    <3>2. ShrinkLines[t] = <<>>
      BY <2>1, <2>3, <3>1, Zenon
    <3>3. Closed(<<>>) = <<>>
      BY Zenon DEF Closed
    <3> QED BY <2>3, <3>2, <3>3, KeptNone, Zenon
  <2>4. CASE t # <<>> /\ EndOf(t) > Len(t)
    <3>1. ShrinkLines[t] = t
      BY <2>1, <2>4, Zenon
    <3>2. Closed(t) = KeptText(t)
      BY <2>4, LastAlone
    <3> QED BY <3>1, <3>2, Zenon
  <2>5. CASE t # <<>> /\ ~(EndOf(t) > Len(t))
    <3> DEFINE r == RestOf(t, EndOf(t))
               k == KeptLine(LineOf(t))
    <3>1. EndOf(t) <= Len(t)
      BY <2>2, <2>5
    <3>2. r \in Text /\ Len(r) < Len(t)
      BY <2>5, LineParts
    <3>3. WellEnded(r)
      BY <3>1, EndedBehind
    <3>4. (IF Dropped(t) THEN <<>> ELSE EndedLine(t)) = k /\ k \in Text /\ (k = <<>> \/ Last(k) = "\n")
      BY <3>1, LineKeptIs
    <3>5. KeptText(t) = k \o KeptText(r)
      BY <2>5, KeptMore
    <3>6. ShrinkLines[t] = k \o ShrinkLines[r]
      BY <2>1, <2>5, <3>4, Zenon
    <3>7. ShrinkLines[r] \in Text
      BY <3>2, ShrunkIs
    <3> HIDE DEF r, k
    <3>8. Closed(k \o ShrinkLines[r]) = k \o Closed(ShrinkLines[r])
      BY <3>4, <3>7, ClosedBehind
    <3>9. Is(r)
      <4> HIDE DEF Is
      <4>1. Len(r) < n
        BY <3>2, <2>2, <1>0
      <4> QED BY <1>2, <3>2, <3>3, <4>1
    <3> QED BY <3>5, <3>6, <3>8, <3>9, Zenon
  <2> QED BY <2>3, <2>4, <2>5
<1>3. Nat \subseteq Good
  <2> HIDE DEF Good
  <2> QED BY <1>1, <1>2, NatInd
<1>4. Len(s) \in Nat /\ Len(s) + 1 \in Nat /\ Len(s) < Len(s) + 1
  BY <1>0
<1>5. Len(s) + 1 \in Good
  BY <1>3, <1>4
<1>6. Is(s)
  <2> HIDE DEF Is
  <2> QED BY <1>4, <1>5
<1> QED BY <1>6

-----------------------------------------------------------------------------
(* Options                                                                 *)

IsZ(c) == c = "Z"

\* There are d letters Z from p on; that is, there is a tag's place where there are no more.
MatchAt(w, d, p) == d # 0 /\ p + d <= Len(w) + 1 /\ \A j \in p .. p + d - 1 : IsZ(w[j])
Exactly(w, d, p) == (p = 1 \/ ~IsZ(w[p - 1])) /\ (p + d > Len(w) \/ ~IsZ(w[p + d]))
Exacts(w, d) == \A p \in 1 .. Len(w) : MatchAt(w, d, p) => Exactly(w, d, p)

\* c is what is at z, if v is put into the places of the tag.
Covers(w, d, p, z) == MatchAt(w, d, p) /\ z < p + d
Right(c, w, d, v, z) ==
  /\ \A p \in 1 .. z : Covers(w, d, p, z) => c = v[z + 1 - p]
  /\ (\A p \in 1 .. z : ~Covers(w, d, p, z)) => c = w[z]

\* There is only one such character.
LEMMA RightOne ==
  ASSUME NEW a, NEW b, NEW w, NEW d, NEW v, NEW z, Right(a, w, d, v, z), Right(b, w, d, v, z)
  PROVE  a = b
<1>1. CASE \A p \in 1 .. z : ~Covers(w, d, p, z)
  <2>1. a = w[z] /\ b = w[z]
    BY <1>1, Zenon DEF Right
  <2> QED BY <2>1
<1>2. CASE \E p \in 1 .. z : Covers(w, d, p, z)
  <2>1. PICK p \in 1 .. z : Covers(w, d, p, z)
    BY <1>2
  <2>2. a = v[z + 1 - p] /\ b = v[z + 1 - p]
    BY <2>1, Zenon DEF Right
  <2> QED BY <2>2
<1> QED BY <1>1, <1>2, Zenon

\* Outside the places it is that of the text.
LEMMA RightOut ==
  ASSUME NEW w, NEW d, NEW v, NEW z, \A p \in 1 .. z : ~Covers(w, d, p, z)
  PROVE  Right(w[z], w, d, v, z)
PROOF BY Zenon DEF Right

\* No two places lie over each other or side by side.
LEMMA MatchesApart ==
  ASSUME NEW w, Len(w) \in Nat, NEW d \in Nat, Exacts(w, d),
         NEW p \in 1 .. Len(w), NEW q \in 1 .. Len(w), MatchAt(w, d, p), MatchAt(w, d, q), p < q
  PROVE  p + d < q
<1>1. SUFFICES ASSUME q <= p + d PROVE FALSE
  OBVIOUS
<1>2. q # 1 /\ q - 1 \in p .. p + d - 1
  BY <1>1
<1>3. IsZ(w[q - 1])
  BY <1>2 DEF MatchAt
<1>4. ~IsZ(w[q - 1])
  BY <1>2, Zenon DEF Exacts, Exactly
<1> QED BY <1>3, <1>4

\* In a place it is that of the value.
LEMMA RightIn ==
  ASSUME NEW w, Len(w) \in Nat, NEW d \in Nat, Exacts(w, d), NEW v,
         NEW p \in 1 .. Len(w), MatchAt(w, d, p), NEW z \in p .. p + d - 1
  PROVE  Right(v[z + 1 - p], w, d, v, z)
<1>1. p \in 1 .. z /\ Covers(w, d, p, z)
  BY DEF Covers
<1>2. ASSUME NEW q \in 1 .. z, Covers(w, d, q, z) PROVE q = p
  <2>1. MatchAt(w, d, q) /\ z < q + d
    BY <1>2, Zenon DEF Covers
  <2>2. q \in 1 .. Len(w)
    BY DEF MatchAt
  <2>3. ~(p < q)
    <3>1. p < q => p + d < q
      BY <2>1, <2>2, MatchesApart
    <3> QED BY <3>1
  <2>4. ~(q < p)
    <3>1. q < p => q + d < p
      BY <2>1, <2>2, MatchesApart
    <3> QED BY <3>1, <2>1
  <2> QED BY <2>3, <2>4
<1> QED BY <1>1, <1>2, Zenon DEF Right

\* Where letters Z begin, StartsAt says so.
LEMMA ZsIs ==
  ASSUME NEW d \in Nat
  PROVE  Zs(d) \in Seq(Chars) /\ Len(Zs(d)) = d /\ \A j \in 1 .. d : IsZ(Zs(d)[j])
<1>1. "Z" \in Chars
  BY Zenon DEF Chars
<1>2. Zs(d) = [i \in 1 .. d |-> "Z"]
  BY Zenon DEF Zs
<1>3. Zs(d) \in Seq(Chars) /\ Len(Zs(d)) = d
  BY <1>1, <1>2
<1>4. \A j \in 1 .. d : Zs(d)[j] = "Z"
  BY <1>2
<1> QED BY <1>3, <1>4, Zenon DEF IsZ

\* StartsAt finds the places of the tag.
LEMMA StartsIs ==
  ASSUME NEW s \in Text, NEW d \in Nat \ {0}, NEW i \in 1 .. Len(s)
  PROVE  StartsAt(s, i, Zs(d)) <=> MatchAt(s, d, i)
<1> DEFINE u == Zs(d)
           w == SubSeq(s, i, i + d - 1)
<1>1. u \in Seq(Chars) /\ Len(u) = d /\ \A j \in 1 .. d : IsZ(u[j])
  BY ZsIs
<1>2. s \in Seq(Chars) /\ Len(s) \in Nat
  BY LenProperties DEF Text
<1> HIDE DEF u
<1>3. StartsAt(s, i, u) <=> i + d - 1 <= Len(s) /\ w = u
  BY <1>1, Zenon DEF StartsAt
<1>4. CASE ~(i + d <= Len(s) + 1)
  <2>1. ~(i + d - 1 <= Len(s))
    BY <1>2, <1>4
  <2> QED BY <1>3, <1>4, <2>1, Zenon DEF MatchAt, u
<1>5. CASE i + d <= Len(s) + 1
  <2>1. i \in 1 .. Len(s) + 1 /\ i + d - 1 \in i - 1 .. Len(s)
    BY <1>2, <1>5
  <2>2. /\ w \in Seq(Chars) /\ Len(w) = (i + d - 1) + 1 - i
        /\ \A k \in 1 .. (i + d - 1) + 1 - i : w[k] = s[i + (k - 1)]
    BY <1>2, <2>1, PartIs
  <2> HIDE DEF w
  <2>3. (i + d - 1) + 1 - i = d
    BY <1>2
  <2>4. Len(w) = d /\ \A k \in 1 .. d : w[k] = s[i + (k - 1)]
    BY <2>2, <2>3
  <2>5. ASSUME w = u, NEW j \in i .. i + d - 1 PROVE IsZ(s[j])
    <3>1. j + 1 - i \in 1 .. d /\ i + ((j + 1 - i) - 1) = j
      BY <1>2
    <3> QED BY <3>1, <2>4, <2>5, <1>1
  <2>6. ASSUME \A j \in i .. i + d - 1 : IsZ(s[j]) PROVE w = u
    <3>1. ASSUME NEW k \in 1 .. d PROVE w[k] = u[k]
      <4>1. i + (k - 1) \in i .. i + d - 1
        BY <1>2
      <4>2. IsZ(w[k]) /\ IsZ(u[k])
        BY <4>1, <2>4, <2>6, <1>1
      <4> QED BY <4>2, Zenon DEF IsZ
    <3> QED BY <3>1, <2>2, <2>4, <1>1, SameChars
  <2>7. i + d - 1 <= Len(s) /\ d # 0
    BY <1>2, <1>5
  <2> QED BY <1>3, <1>5, <2>5, <2>6, <2>7, Zenon DEF MatchAt, u
<1> QED BY <1>4, <1>5

\* Where no run is longer than the tag, the places of the tag are just as long.
LEMMA NoLonger ==
  ASSUME NEW s \in Text, NEW d \in Nat \ {0}, \A z \in DOMAIN s : ~StartsAt(s, z, Zs(d + 1))
  PROVE  Exacts(s, d)
<1>1. Len(s) \in Nat /\ DOMAIN s = 1 .. Len(s) /\ d + 1 \in Nat \ {0}
  BY DEF Text
<1>2. \A z \in 1 .. Len(s) : ~MatchAt(s, d + 1, z)
  BY <1>1, StartsIs
<1>3. SUFFICES ASSUME NEW p \in 1 .. Len(s), MatchAt(s, d, p) PROVE Exactly(s, d, p)
  BY Zenon DEF Exacts
<1>4. p + d <= Len(s) + 1 /\ \A j \in p .. p + d - 1 : IsZ(s[j])
  BY <1>3, Zenon DEF MatchAt
<1>5. ASSUME p # 1, IsZ(s[p - 1]) PROVE FALSE
  <2>1. p - 1 \in 1 .. Len(s) /\ (p - 1) + (d + 1) <= Len(s) + 1 /\ d + 1 # 0
    BY <1>1, <1>4, <1>5
  <2>2. ASSUME NEW j \in p - 1 .. (p - 1) + (d + 1) - 1 PROVE IsZ(s[j])
    <3>1. j = p - 1 \/ j \in p .. p + d - 1
      BY <1>1
    <3> QED BY <3>1, <1>4, <1>5
  <2>3. MatchAt(s, d + 1, p - 1)
    BY <2>1, <2>2, Zenon DEF MatchAt
  <2> QED BY <2>1, <2>3, <1>2
<1>6. ASSUME ~(p + d > Len(s)), IsZ(s[p + d]) PROVE FALSE
  <2>1. p + (d + 1) <= Len(s) + 1 /\ d + 1 # 0
    BY <1>1, <1>6
  <2>2. ASSUME NEW j \in p .. p + (d + 1) - 1 PROVE IsZ(s[j])
    <3>1. j = p + d \/ j \in p .. p + d - 1
      BY <1>1
    <3> QED BY <3>1, <1>4, <1>6
  <2>3. MatchAt(s, d + 1, p)
    BY <2>1, <2>2, Zenon DEF MatchAt
  <2> QED BY <2>3, <1>2
<1> QED BY <1>5, <1>6, Zenon DEF Exactly

\* What Filled makes of a text, from each place on.
RunEnd(s, i) == findNext(s, i, Chars \ {"Z"})
Mine(options, n) == {o \in ToSet(options) : o.id = n}
Put(s, options, i) ==
  IF Mine(options, RunEnd(s, i) - i) = {} THEN SubSeq(s, i, RunEnd(s, i) - 1)
  ELSE (CHOOSE o \in Mine(options, RunEnd(s, i) - i) : TRUE).value
IsFill(f, s, options) ==
  f = [i \in 1 .. Len(s) + 1 |->
         IF i > Len(s) THEN <<>>
         ELSE IF s[i] # "Z" THEN <<s[i]>> \o f[i + 1]
         ELSE Put(s, options, i) \o f[RunEnd(s, i)]]

\* A run of letters Z ends where the text goes on with something else.
LEMMA RunEndIs ==
  ASSUME NEW s \in Text, NEW i \in 1 .. Len(s) + 1
  PROVE  /\ RunEnd(s, i) \in i .. Len(s) + 1
         /\ \A j \in i .. RunEnd(s, i) - 1 : IsZ(s[j])
         /\ RunEnd(s, i) <= Len(s) => ~IsZ(s[RunEnd(s, i)])
<1>1. Len(s) \in Nat /\ i \in Nat /\ i <= Len(s) + 1
  <2>1. Len(s) \in Nat
    BY LenProperties DEF Text
  <2> QED BY <2>1
<1> DEFINE e == findNext(s, i, Chars \ {"Z"})
<1>2. /\ e \in i .. Len(s) + 1
      /\ \A j \in i .. e - 1 : s[j] \notin Chars \ {"Z"}
      /\ e <= Len(s) => s[e] \in Chars \ {"Z"}
  BY <1>1, NextIs, Zenon
<1> HIDE DEF e
<1>3. \A j \in 1 .. Len(s) : s[j] \in Chars
  BY DEF Text
<1>4. \A c : (c \in Chars /\ c \notin Chars \ {"Z"} => IsZ(c)) /\ (c \in Chars \ {"Z"} => ~IsZ(c))
  BY Zenon DEF IsZ
<1>5. \A j \in i .. e - 1 : j \in 1 .. Len(s)
  BY <1>1, <1>2
<1>6. \A j \in i .. e - 1 : IsZ(s[j])
  BY <1>2, <1>3, <1>4, <1>5, Zenon
<1>7. e <= Len(s) => ~IsZ(s[e])
  BY <1>2, <1>4, Zenon
<1>8. e = RunEnd(s, i)
  BY Zenon DEF e, RunEnd
<1> QED BY <1>2, <1>6, <1>7, <1>8, Zenon

\* The options of a code with no tag, or with one: the value v is as long as the tag.
OneTag(options, d, v) ==
  /\ d \in Nat /\ v \in Text /\ Len(v) = d
  /\ \A n \in Nat \ {0} : /\ n = d => /\ Mine(options, n) # {}
                                      /\ \A o \in Mine(options, n) : o.value = v
                          /\ n # d => Mine(options, n) = {}

\* A run of the length of the tag gives way to the value, another one stays.
LEMMA PutIs ==
  ASSUME NEW s \in Text, NEW options, NEW d, NEW v, OneTag(options, d, v),
         NEW i \in 1 .. Len(s), IsZ(s[i])
  PROVE  /\ RunEnd(s, i) \in i + 1 .. Len(s) + 1
         /\ Put(s, options, i) \in Seq(Chars) /\ Len(Put(s, options, i)) = RunEnd(s, i) - i
         /\ RunEnd(s, i) - i = d => Put(s, options, i) = v
         /\ RunEnd(s, i) - i # d =>
              \A k \in 1 .. RunEnd(s, i) - i : Put(s, options, i)[k] = s[i + (k - 1)]
<1>1. s \in Seq(Chars) /\ Len(s) \in Nat
  BY LenProperties DEF Text
<1> DEFINE e == RunEnd(s, i)
           n == e - i
<1>2. i \in 1 .. Len(s) + 1
  BY <1>1
<1>3. /\ e \in i .. Len(s) + 1 /\ \A j \in i .. e - 1 : IsZ(s[j])
      /\ e <= Len(s) => ~IsZ(s[e])
  BY <1>2, RunEndIs, Zenon
<1> HIDE DEF e
<1>4. e \in i + 1 .. Len(s) + 1
  <2>1. e # i
    BY <1>1, <1>3
  <2> QED BY <1>1, <1>3, <2>1
<1>5. n \in Nat \ {0}
  BY <1>1, <1>4
<1>6. CASE n = d
  <2>1. Mine(options, n) # {} /\ \A o \in Mine(options, n) : o.value = v
    BY <1>5, <1>6, Zenon DEF OneTag
  <2>2. (CHOOSE o \in Mine(options, n) : TRUE) \in Mine(options, n)
    BY <2>1, Zenon
  <2>3. Put(s, options, i) = v
    BY <2>1, <2>2, Zenon DEF Put, e
  <2>4. v \in Seq(Chars) /\ Len(v) = n
    BY <1>6 DEF OneTag, Text
  <2> QED BY <1>4, <1>6, <2>3, <2>4 DEF e
<1>7. CASE n # d
  <2>1. Mine(options, n) = {}
    BY <1>5, <1>7, Zenon DEF OneTag
  <2>2. Put(s, options, i) = SubSeq(s, i, e - 1)
    BY <2>1, Zenon DEF Put, e
  <2> DEFINE h == SubSeq(s, i, e - 1)
  <2>3. e - 1 \in i - 1 .. Len(s)
    BY <1>1, <1>4
  <2>4. /\ h \in Seq(Chars) /\ Len(h) = (e - 1) + 1 - i
        /\ \A k \in 1 .. (e - 1) + 1 - i : h[k] = s[i + (k - 1)]
    BY <1>1, <1>2, <2>3, PartIs
  <2> HIDE DEF h
  <2>5. (e - 1) + 1 - i = n
    BY <1>1, <1>4
  <2>6. h \in Seq(Chars) /\ Len(h) = n /\ \A k \in 1 .. n : h[k] = s[i + (k - 1)]
    BY <2>4, <2>5
  <2>7. h = Put(s, options, i)
    BY <2>2 DEF h
  <2> QED BY <1>4, <1>7, <2>6, <2>7 DEF e
<1> QED BY <1>6, <1>7

\* The function Filled is defined with is what it is defined to be.
LEMMA FillIs ==
  ASSUME NEW s \in Text, NEW options, NEW d, NEW v, OneTag(options, d, v)
  PROVE  \E f \in [1 .. Len(s) + 1 -> Seq(Chars)] : IsFill(f, s, options) /\ Filled(s, options) = f[1]
<1> DEFINE n == Len(s)
           D == 1 .. n + 1
           z(i) == IsZ(s[i])
           stops == {n + 1}
           m == [i \in D |-> n + 1 - i]
           base == [i \in D |-> <<>>]
           pre == [i \in D |-> IF i = n + 1 THEN <<>> ELSE IF z(i) THEN Put(s, options, i) ELSE <<s[i]>>]
           next == [i \in D |-> IF i = n + 1 THEN i ELSE IF z(i) THEN RunEnd(s, i) ELSE i + 1]
<1>1. s \in Seq(Chars) /\ n \in Nat /\ \A i \in 1 .. n : s[i] \in Chars /\ <<s[i]>> \in Seq(Chars)
  BY LenProperties DEF Text
<1>2. \A i \in 1 .. n : z(i) => RunEnd(s, i) \in i + 1 .. n + 1 /\ Put(s, options, i) \in Seq(Chars)
  BY PutIs
<1>3. \A i \in D : i # n + 1 => i \in 1 .. n
  BY <1>1
<1>e. <<>> \in Seq(Chars)
  OBVIOUS
<1> HIDE DEF z, n
<1>4. /\ base \in [D -> Seq(Chars)] /\ pre \in [D -> Seq(Chars)] /\ m \in [D -> Nat]
  <2>1. \A i \in D : n + 1 - i \in Nat
    BY <1>1
  <2> QED BY <2>1, <1>1, <1>2, <1>3, <1>e
<1>5. ASSUME NEW i \in D, i # n + 1
      PROVE  next[i] \in D /\ m[next[i]] < m[i]
  <2>1. i \in 1 .. n
    BY <1>3, <1>5
  <2>2. next[i] \in i + 1 .. n + 1
    <3>1. CASE z(i)
      <4>1. next[i] = RunEnd(s, i)
        BY <3>1, <1>5
      <4> HIDE DEF next
      <4> QED BY <4>1, <3>1, <2>1, <1>2
    <3>2. CASE ~z(i)
      <4>1. next[i] = i + 1
        BY <3>2, <1>5
      <4> HIDE DEF next
      <4> QED BY <4>1, <2>1, <1>1
    <3> QED BY <3>1, <3>2
  <2> HIDE DEF next
  <2>3. next[i] \in D
    BY <2>1, <2>2, <1>1
  <2>4. m[next[i]] = n + 1 - next[i] /\ m[i] = n + 1 - i
    BY <2>3
  <2> QED BY <2>1, <2>2, <2>3, <2>4, <1>1
<1>6. next \in [D -> D]
  <2>1. next[n + 1] \in D
    BY <1>1
  <2>2. \A i \in D : next[i] \in D
    BY <1>5, <2>1
  <2>3. next = [i \in D |-> next[i]]
    OBVIOUS
  <2> HIDE DEF next
  <2> QED BY <2>2, <2>3
<1>7. Descends(D, m, stops, next)
  <2>1. \A i \in D : i \notin stops => m[next[i]] < m[i]
    BY <1>5
  <2> QED BY <2>1, <1>4, <1>6, Zenon DEF Descends
<1>8. ASSUME NEW f PROVE TailMade(D, stops, base, pre, next, f) <=> IsFill(f, s, options)
  <2> DEFINE other(i) == IF i \in stops THEN base[i] ELSE pre[i] \o f[next[i]]
             made(i) == IF i > Len(s) THEN <<>>
                        ELSE IF s[i] # "Z" THEN <<s[i]>> \o f[i + 1]
                        ELSE Put(s, options, i) \o f[RunEnd(s, i)]
  <2>1. ASSUME NEW i \in D PROVE other(i) = made(i)
    <3>1. i > Len(s) <=> i = n + 1
      BY <1>1 DEF n
    <3>2. z(i) <=> s[i] = "Z"
      BY Zenon DEF z, IsZ
    <3>3. CASE i = n + 1
      <4>1. other(i) = <<>>
        BY <3>3
      <4>2. made(i) = <<>>
        BY <3>1, <3>3, Zenon
      <4> HIDE DEF other, made
      <4> QED BY <4>1, <4>2
    <3>4. CASE i # n + 1 /\ z(i)
      <4>1. pre[i] = Put(s, options, i) /\ next[i] = RunEnd(s, i) /\ i \notin stops
        BY <3>4
      <4> HIDE DEF pre, next, stops
      <4> QED BY <4>1, <3>1, <3>2, <3>4, Zenon
    <3>5. CASE i # n + 1 /\ ~z(i)
      <4>1. pre[i] = <<s[i]>> /\ next[i] = i + 1 /\ i \notin stops
        BY <3>5
      <4> HIDE DEF pre, next, stops
      <4> QED BY <4>1, <3>1, <3>2, <3>5, Zenon
    <3> QED BY <3>3, <3>4, <3>5, Zenon
  <2>2. [i \in D |-> other(i)] = [i \in D |-> made(i)]
    <3> HIDE DEF other, made
    <3> QED BY <2>1
  <2> HIDE DEF stops, base, pre, next
  <2> QED BY <2>2, Zenon DEF TailMade, IsFill, n
<1>9. n + 1 \in D /\ 1 \in D
  BY <1>1
<1> HIDE DEF stops, m, base, pre, next
<1>10. \E f : IsFill(f, s, options)
  <2>1. \E f \in [D -> Seq(Chars)] : TailMade(D, stops, base, pre, next, f)
    <3> HIDE DEF D
    <3> QED BY <1>4, <1>7, TailRecursion
  <2> QED BY <2>1, <1>8, Zenon
<1> DEFINE g == CHOOSE f : IsFill(f, s, options)
<1>11. Filled(s, options) = g[1]
  BY Zenon DEF Filled, IsFill, Put, RunEnd, Mine
<1>12. IsFill(g, s, options)
  BY <1>10, Zenon
<1> HIDE DEF g
<1>13. g \in [D -> Seq(Chars)]
  <2>1. TailMade(D, stops, base, pre, next, g)
    BY <1>8, <1>12, Zenon
  <2> HIDE DEF D
  <2> QED BY <2>1, <1>4, <1>7, TailType
<1> QED BY <1>11, <1>12, <1>13 DEF n

\* It is right everywhere, from any place on that is not within letters Z.
Fresh(s, k) == k = 1 \/ k > Len(s) \/ ~IsZ(s[k - 1]) \/ ~IsZ(s[k])
RightFrom(r, s, d, v, k) == Len(r) = Len(s) + 1 - k /\ \A z \in k .. Len(s) : Right(r[z + 1 - k], s, d, v, z)

\* One more part before it.
LEMMA RightJoined ==
  ASSUME NEW s \in Text, NEW d, NEW v, NEW k \in 1 .. Len(s), NEW e \in k + 1 .. Len(s) + 1,
         NEW h \in Seq(Chars), Len(h) = e - k, \A z \in k .. e - 1 : Right(h[z + 1 - k], s, d, v, z),
         NEW r \in Seq(Chars), RightFrom(r, s, d, v, e)
  PROVE  RightFrom(h \o r, s, d, v, k)
<1> DEFINE w == h \o r
           n == Len(s)
<1>1. n \in Nat
  BY LenProperties DEF Text
<1>2. /\ Len(h) \in Nat /\ Len(r) \in Nat /\ Len(w) = Len(h) + Len(r)
      /\ \A j \in 1 .. Len(h) : w[j] = h[j]
      /\ \A j \in 1 .. Len(r) : w[Len(h) + j] = r[j]
  <2>1. Joins(h \o r, h, r)
    BY JoinsIs, Zenon
  <2> QED BY <2>1, Zenon DEF Joins
<1>3. Len(r) = n + 1 - e /\ \A z \in e .. n : Right(r[z + 1 - e], s, d, v, z)
  BY Zenon DEF RightFrom
<1>4. k \in 1 .. n /\ e \in k + 1 .. n + 1
  OBVIOUS
<1> HIDE DEF w, n
<1>5. Len(w) = n + 1 - k
  BY <1>1, <1>2, <1>3, <1>4
<1>6. ASSUME NEW z \in k .. n PROVE Right(w[z + 1 - k], s, d, v, z)
  <2>1. CASE z < e
    <3>1. z \in k .. e - 1 /\ z + 1 - k \in 1 .. Len(h)
      BY <1>1, <1>4, <2>1
    <3>2. w[z + 1 - k] = h[z + 1 - k]
      BY <3>1, <1>2
    <3> QED BY <3>1, <3>2
  <2>2. CASE ~(z < e)
    <3>1. z \in e .. n /\ z + 1 - e \in 1 .. Len(r) /\ Len(h) + (z + 1 - e) = z + 1 - k
      BY <1>1, <1>3, <1>4, <2>2
    <3>2. w[Len(h) + (z + 1 - e)] = r[z + 1 - e]
      BY <3>1, <1>2
    <3>3. w[z + 1 - k] = r[z + 1 - e]
      BY <3>1, <3>2
    <3> QED BY <3>1, <3>3, <1>3
  <2> QED BY <2>1, <2>2
<1> QED BY <1>5, <1>6, Zenon DEF RightFrom, w, n

\* Nothing but a letter Z is covered by a tag's place; and where a run is not as long
\* as the tag, none of it is.
LEMMA NoneCovers ==
  ASSUME NEW s \in Text, NEW d \in Nat, NEW k \in 1 .. Len(s), ~IsZ(s[k])
  PROVE  \A p \in 1 .. k : ~Covers(s, d, p, k)
<1> SUFFICES ASSUME NEW p \in 1 .. k, Covers(s, d, p, k) PROVE FALSE
  OBVIOUS
<1>1. MatchAt(s, d, p) /\ k < p + d
  BY Zenon DEF Covers
<1>2. k \in p .. p + d - 1
  BY <1>1
<1>3. IsZ(s[k])
  BY <1>1, <1>2, Zenon DEF MatchAt
<1> QED BY <1>3

\* What covers a letter of a run is the run as a whole, as long as the tag.
LEMMA RunCovers ==
  ASSUME NEW s \in Text, NEW d \in Nat, Exacts(s, d), NEW k \in 1 .. Len(s), NEW e \in k + 1 .. Len(s) + 1,
         Fresh(s, k), \A j \in k .. e - 1 : IsZ(s[j]), e <= Len(s) => ~IsZ(s[e]),
         NEW z \in k .. e - 1, NEW p \in 1 .. z, Covers(s, d, p, z)
  PROVE  p = k /\ e - k = d
<1>1. MatchAt(s, d, p) /\ z < p + d /\ Len(s) \in Nat
  BY LenProperties, Zenon DEF Covers, Text
<1>2. p \in 1 .. Len(s)
  BY <1>1
<1>3. Exactly(s, d, p)
  BY <1>1, <1>2, Zenon DEF Exacts
<1>4. p + d <= Len(s) + 1 /\ \A j \in p .. p + d - 1 : IsZ(s[j])
  BY <1>1, Zenon DEF MatchAt
<1>5. (p = 1 \/ ~IsZ(s[p - 1])) /\ (p + d > Len(s) \/ ~IsZ(s[p + d]))
  BY <1>3, Zenon DEF Exactly
<1>6. IsZ(s[k]) /\ ~(k > Len(s))
  <2>1. k \in k .. e - 1 /\ ~(k > Len(s))
    BY <1>1
  <2> QED BY <2>1
<1>7. k = 1 \/ ~IsZ(s[k - 1])
  BY <1>6, Zenon DEF Fresh
<1>8. ~(p < k)
  <2> SUFFICES ASSUME p < k PROVE FALSE
    OBVIOUS
  <2>1. k - 1 \in p .. p + d - 1 /\ k # 1
    BY <1>1
  <2> QED BY <2>1, <1>4, <1>7
<1>9. ~(k < p)
  <2> SUFFICES ASSUME k < p PROVE FALSE
    OBVIOUS
  <2>1. p - 1 \in k .. e - 1 /\ p # 1
    BY <1>1
  <2> QED BY <2>1, <1>5
<1>10. p = k
  BY <1>8, <1>9
<1>11. ~(k + d < e)
  <2> SUFFICES ASSUME k + d < e PROVE FALSE
    OBVIOUS
  <2>1. k + d \in k .. e - 1 /\ ~(p + d > Len(s)) /\ p + d = k + d
    BY <1>1, <1>10
  <2> QED BY <2>1, <1>5
<1>12. ~(e < k + d)
  <2> SUFFICES ASSUME e < k + d PROVE FALSE
    OBVIOUS
  <2>1. e \in p .. p + d - 1 /\ e <= Len(s)
    BY <1>1, <1>4, <1>10
  <2> QED BY <2>1, <1>4
<1> QED BY <1>10, <1>11, <1>12

\* So Filled puts the value into the places of the tag, and nowhere else.
LEMMA FillRight ==
  ASSUME NEW s \in Text, NEW options, NEW d, NEW v, OneTag(options, d, v), Exacts(s, d),
         NEW f \in [1 .. Len(s) + 1 -> Seq(Chars)], IsFill(f, s, options)
  PROVE  RightFrom(f[1], s, d, v, 1)
<1> DEFINE n == Len(s)
           Is(k) == Fresh(s, k) => RightFrom(f[k], s, d, v, k)
           Good == {i \in Nat : \A k \in 1 .. n + 1 : n + 1 - k < i => Is(k)}
<1>0. n \in Nat /\ d \in Nat
  BY LenProperties DEF Text, OneTag
<1>f. \A k \in 1 .. n + 1 :
        /\ f[k] \in Seq(Chars)
        /\ k > n => f[k] = <<>>
        /\ ~(k > n) /\ ~IsZ(s[k]) => f[k] = <<s[k]>> \o f[k + 1]
        /\ ~(k > n) /\ IsZ(s[k]) => f[k] = Put(s, options, k) \o f[RunEnd(s, k)]
  <2>1. \A c : c = "Z" <=> IsZ(c)
    BY Zenon DEF IsZ
  <2>2. \A k \in 1 .. n + 1 : f[k] \in Seq(Chars)
    OBVIOUS
  <2>3. \A k \in 1 .. n + 1 :
          f[k] = IF k > n THEN <<>>
                 ELSE IF s[k] # "Z" THEN <<s[k]>> \o f[k + 1]
                 ELSE Put(s, options, k) \o f[RunEnd(s, k)]
    BY Zenon DEF IsFill
  <2> QED BY <2>1, <2>2, <2>3, Zenon
<1>1. 0 \in Good
  <2>1. \A k \in 1 .. n + 1 : ~(n + 1 - k < 0)
    BY <1>0
  <2> QED BY <2>1
<1>2. ASSUME NEW i \in Nat, i \in Good PROVE i + 1 \in Good
  <2> SUFFICES ASSUME NEW k \in 1 .. n + 1, n + 1 - k < i + 1, Fresh(s, k)
               PROVE  RightFrom(f[k], s, d, v, k)
    BY i + 1 \in Nat
  <2>0. \A e \in k + 1 .. n + 1 : Fresh(s, e) => RightFrom(f[e], s, d, v, e)
    <3> SUFFICES ASSUME NEW e \in k + 1 .. n + 1, Fresh(s, e) PROVE RightFrom(f[e], s, d, v, e)
      OBVIOUS
    <3>1. e \in 1 .. n + 1 /\ n + 1 - e < i
      BY <1>0
    <3>2. Is(e)
      BY <3>1, <1>2
    <3> QED BY <3>2
  <2> HIDE DEF Good, Is
  <2>1. CASE k > n
    <3>0. f[k] = <<>>
      BY <1>f, <2>1, Zenon
    <3>1. k = n + 1 /\ f[k] = <<>>
      BY <1>0, <2>1, <3>0
    <3>2. Len(<<>>) = n + 1 - k /\ \A z \in k .. n : FALSE
      BY <1>0, <3>1
    <3>3. Len(f[k]) = n + 1 - k
      BY <3>1, <3>2
    <3> QED BY <3>2, <3>3, Zenon DEF RightFrom
  <2>2. CASE ~(k > n) /\ ~IsZ(s[k])
    <3>1. k \in 1 .. n /\ k + 1 \in k + 1 .. n + 1 /\ k + 1 \in 1 .. n + 1
      BY <1>0, <2>2
    <3>2. f[k] = <<s[k]>> \o f[k + 1] /\ f[k + 1] \in Seq(Chars)
      BY <1>f, <2>2, <3>1
    <3>3. Fresh(s, k + 1)
      <4>1. (k + 1) - 1 = k
        BY <1>0
      <4> QED BY <4>1, <2>2 DEF Fresh
    <3>4. RightFrom(f[k + 1], s, d, v, k + 1)
      BY <2>0, <3>1, <3>3
    <3> DEFINE h == <<s[k]>>
    <3>5. h \in Seq(Chars) /\ Len(h) = (k + 1) - k /\ h[1] = s[k]
      <4>1. s[k] \in Chars
        BY <3>1 DEF Text
      <4> QED BY <4>1, <1>0
    <3>6. Right(s[k], s, d, v, k)
      <4>1. \A p \in 1 .. k : ~Covers(s, d, p, k)
        BY <1>0, <2>2, <3>1, NoneCovers
      <4> QED BY <4>1, RightOut
    <3> HIDE DEF h
    <3>7. \A z \in k .. (k + 1) - 1 : Right(h[z + 1 - k], s, d, v, z)
      <4> SUFFICES ASSUME NEW z \in k .. (k + 1) - 1 PROVE Right(h[z + 1 - k], s, d, v, z)
        OBVIOUS
      <4>1. z = k /\ z + 1 - k = 1
        BY <1>0
      <4> QED BY <4>1, <3>5, <3>6
    <3>8. RightFrom(h \o f[k + 1], s, d, v, k)
      BY <3>1, <3>2, <3>4, <3>5, <3>7, RightJoined
    <3> QED BY <3>2, <3>8 DEF h
  <2>3. CASE ~(k > n) /\ IsZ(s[k])
    <3> DEFINE e == RunEnd(s, k)
               h == Put(s, options, k)
    <3>1. k \in 1 .. n
      BY <1>0, <2>3
    <3>2. /\ e \in k + 1 .. n + 1
          /\ h \in Seq(Chars) /\ Len(h) = e - k
          /\ e - k = d => h = v
          /\ e - k # d => \A j \in 1 .. e - k : h[j] = s[k + (j - 1)]
      BY <2>3, <3>1, PutIs
    <3>3. (\A j \in k .. e - 1 : IsZ(s[j])) /\ (e <= n => ~IsZ(s[e]))
      BY RunEndIs
    <3>4. f[k] = h \o f[e]
      BY <1>f, <2>3
    <3> HIDE DEF e, h
    <3>5. e \in 1 .. n + 1
      BY <3>1, <3>2, <1>0
    <3>6. RightFrom(f[e], s, d, v, e) /\ f[e] \in Seq(Chars)
      <4>1. Fresh(s, e)
        <5>1. e > n \/ e <= n
          BY <3>5, <1>0
        <5> QED BY <5>1, <3>3 DEF Fresh
      <4> QED BY <4>1, <2>0, <3>2, <3>5, <1>f
    <3>7. ASSUME NEW z \in k .. e - 1 PROVE Right(h[z + 1 - k], s, d, v, z)
      <4>0. z + 1 - k \in 1 .. e - k /\ k + ((z + 1 - k) - 1) = z
        BY <3>1, <3>2
      <4>1. CASE e - k = d
        <5>1. k + d <= n + 1 /\ d # 0 /\ e - 1 = k + d - 1 /\ z \in k .. k + d - 1
          BY <4>1, <3>1, <3>2, <1>0
        <5>2. MatchAt(s, d, k)
          BY <5>1, <3>3 DEF MatchAt
        <5>3. Right(v[z + 1 - k], s, d, v, z)
          BY <5>1, <5>2, <3>1, <1>0, RightIn
        <5> QED BY <5>3, <4>1, <3>2
      <4>2. CASE e - k # d
        <5>1. \A p \in 1 .. z : ~Covers(s, d, p, z)
          <6> SUFFICES ASSUME NEW p \in 1 .. z, Covers(s, d, p, z) PROVE FALSE
            OBVIOUS
          <6>1. e - k = d
            BY <3>1, <3>2, <3>3, <1>0, RunCovers
          <6> QED BY <6>1, <4>2
        <5>2. Right(s[z], s, d, v, z)
          BY <5>1, RightOut
        <5>3. h[z + 1 - k] = s[z]
          BY <4>0, <4>2, <3>2
        <5> QED BY <5>2, <5>3
      <4> QED BY <4>1, <4>2
    <3>8. RightFrom(h \o f[e], s, d, v, k)
      BY <3>1, <3>2, <3>6, <3>7, RightJoined
    <3> QED BY <3>4, <3>8
  <2> QED BY <2>1, <2>2, <2>3
<1>3. Nat \subseteq Good
  <2> HIDE DEF Good
  <2> QED BY <1>1, <1>2, NatInd
<1>4. n + 1 \in Good /\ 1 \in 1 .. n + 1 /\ n + 1 - 1 < n + 1
  BY <1>0, <1>3
<1>5. Is(1)
  <2> HIDE DEF Is
  <2> QED BY <1>4
<1>6. Fresh(s, 1)
  BY DEF Fresh
<1> QED BY <1>5, <1>6

\* Where the loop of replace_str_id is: at a place, with a text; and what it finds there.
Places == (Nat \ {0}) \X Text
NoneOn(c, d) == c[1] > Len(c[2]) \/ Strstr(c[2], c[1], Zs(d)) = {}
Found(c, d) == Min(Strstr(c[2], c[1], Zs(d)))
Onward(c, d, v, moved) ==
  <<Found(c, d) + Len(v),
    IF At(c[2], Found(c, d) + Len(v)) # "Z" THEN Spliced(c[2], Found(c, d), d, v, moved) ELSE c[2]>>
IsFrom(f, d, v, moved) ==
  f = [c \in Places |-> IF NoneOn(c, d) THEN c[2] ELSE f[Onward(c, d, v, moved)]]

\* A value as long as the tag takes its place, and moves nothing.
LEMMA SplicedIs ==
  ASSUME NEW s \in Text, NEW d \in Nat \ {0}, NEW p \in 1 .. Len(s), p + d <= Len(s) + 1,
         NEW v \in Text, Len(v) = d, NEW moved
  PROVE  /\ Spliced(s, p, d, v, moved) \in Text /\ Len(Spliced(s, p, d, v, moved)) = Len(s)
         /\ \A z \in 1 .. Len(s) :
              Spliced(s, p, d, v, moved)[z] = IF p <= z /\ z < p + d THEN v[z + 1 - p] ELSE s[z]
<1> DEFINE n == Len(s)
           a == SubSeq(s, 1, p - 1)
           b == a \o v
           t == RestOf(s, p + d - 1)
           r == b \o t
<1>1. s \in Seq(Chars) /\ v \in Seq(Chars) /\ n \in Nat
  BY LenProperties DEF Text
<1>2. 1 \in 1 .. n + 1 /\ p - 1 \in 1 - 1 .. n /\ p + d - 1 \in 0 .. n + 1 /\ p \in 1 .. n /\ p + d <= n + 1
  BY <1>1
<1>3. /\ a \in Seq(Chars) /\ Len(a) = p - 1 + 1 - 1
      /\ \A k \in 1 .. p - 1 + 1 - 1 : a[k] = s[1 + (k - 1)]
  BY <1>1, <1>2, PartIs
<1>4. /\ t \in Seq(Chars) /\ Len(t) = (IF p + d - 1 > n THEN 0 ELSE n - (p + d - 1))
      /\ \A k \in 1 .. n - (p + d - 1) : t[k] = s[(p + d - 1) + k]
  BY <1>1, <1>2, RestIs
<1>5. b \in Seq(Chars) /\ Joins(b, a, v)
  BY <1>1, <1>3, JoinsIs
<1>6. r \in Seq(Chars) /\ Joins(r, b, t)
  <2> HIDE DEF b, t
  <2> QED BY <1>4, <1>5, JoinsIs
<1>7. Spliced(s, p, d, v, moved) = r
  <2>1. Len(v) <= d
    OBVIOUS
  <2>2. Spliced(s, p, d, v, moved) = b \o SubSeq(s, p + d, n)
    BY <2>1, Zenon DEF Spliced
  <2>3. (p + d - 1) + 1 = p + d
    BY <1>2
  <2>4. t = SubSeq(s, p + d, n)
    BY <2>3 DEF RestOf
  <2> QED BY <2>2, <2>4
<1>8. Len(v) = d
  OBVIOUS
<1> HIDE DEF a, b, t, r, n
<1>9. Len(a) = p - 1 /\ \A k \in 1 .. p - 1 : a[k] = s[k]
  <2>1. p - 1 + 1 - 1 = p - 1 /\ \A k \in 1 .. p - 1 : 1 + (k - 1) = k
    BY <1>2
  <2> QED BY <1>3, <2>1
<1>10. Len(t) = n + 1 - (p + d) /\ \A k \in 1 .. n + 1 - (p + d) : t[k] = s[(p + d - 1) + k]
  <2>1. n - (p + d - 1) = n + 1 - (p + d) /\ ~(p + d - 1 > n)
    BY <1>1, <1>2
  <2> QED BY <1>4, <2>1
<1>11. /\ Len(b) = p + d - 1
       /\ \A j \in 1 .. p - 1 : b[j] = s[j]
       /\ \A j \in 1 .. d : b[(p - 1) + j] = v[j]
  <2>1. /\ Len(b) = Len(a) + Len(v)
        /\ \A j \in 1 .. Len(a) : b[j] = a[j]
        /\ \A j \in 1 .. Len(v) : b[Len(a) + j] = v[j]
    BY <1>5, Zenon DEF Joins
  <2>2. Len(b) = p + d - 1
    BY <2>1, <1>2, <1>8, <1>9
  <2> QED BY <2>1, <2>2, <1>8, <1>9
<1>12. /\ Len(r) = Len(b) + Len(t)
       /\ \A j \in 1 .. Len(b) : r[j] = b[j]
       /\ \A j \in 1 .. Len(t) : r[Len(b) + j] = t[j]
  BY <1>6, Zenon DEF Joins
<1>13. Len(r) = n
  BY <1>10, <1>11, <1>12, <1>1, <1>2
<1>14. ASSUME NEW z \in 1 .. n PROVE r[z] = IF p <= z /\ z < p + d THEN v[z + 1 - p] ELSE s[z]
  <2>1. CASE z < p
    <3>1. z \in 1 .. p - 1 /\ z \in 1 .. Len(b) /\ ~(p <= z)
      BY <2>1, <1>2, <1>11
    <3> QED BY <3>1, <1>11, <1>12
  <2>2. CASE p <= z /\ z < p + d
    <3>1. z + 1 - p \in 1 .. d /\ (p - 1) + (z + 1 - p) = z /\ z \in 1 .. Len(b)
      BY <2>2, <1>2, <1>11
    <3>2. b[(p - 1) + (z + 1 - p)] = v[z + 1 - p]
      BY <3>1, <1>11
    <3>3. r[z] = b[z]
      BY <3>1, <1>12
    <3> QED BY <3>1, <3>2, <3>3, <2>2
  <2>3. CASE ~(z < p + d)
    <3> DEFINE k == z + 1 - (p + d)
    <3>1. k \in 1 .. n + 1 - (p + d) /\ (p + d - 1) + k = z
      BY <2>3, <1>1, <1>2
    <3> HIDE DEF k
    <3>2. r[Len(b) + k] = t[k] /\ t[k] = s[(p + d - 1) + k]
      BY <3>1, <1>10, <1>12
    <3>3. r[z] = s[z]
      BY <3>1, <3>2, <1>11
    <3> QED BY <3>3, <2>3
  <2> QED BY <2>1, <2>2, <2>3, <1>2
<1> QED BY <1>6, <1>7, <1>13, <1>14 DEF Text, n

\* What the loop finds is the first of the tag's places from there on.
LEMMA FoundIs ==
  ASSUME NEW n \in Nat \ {0}, NEW s \in Text, NEW d \in Nat \ {0}
  PROVE  /\ NoneOn(<<n, s>>, d) => \A p \in n .. Len(s) : ~MatchAt(s, d, p)
         /\ ~NoneOn(<<n, s>>, d) =>
              /\ Found(<<n, s>>, d) \in n .. Len(s) /\ MatchAt(s, d, Found(<<n, s>>, d))
              /\ \A p \in n .. Found(<<n, s>>, d) - 1 : ~MatchAt(s, d, p)
<1> DEFINE F == Strstr(s, n, Zs(d))
           c == <<n, s>>
<1>1. Len(s) \in Nat
  BY LenProperties DEF Text
<1>2. \A p \in n .. Len(s) : p \in F <=> MatchAt(s, d, p)
  <2>1. \A p \in n .. Len(s) : p \in 1 .. Len(s)
    BY <1>1
  <2>2. \A p \in n .. Len(s) : StartsAt(s, p, Zs(d)) <=> MatchAt(s, d, p)
    BY <2>1, StartsIs
  <2> QED BY <2>2, Zenon DEF Strstr
<1>3. F \subseteq n .. Len(s)
  BY Zenon DEF Strstr
<1>4. NoneOn(c, d) <=> n > Len(s) \/ F = {}
  <2>1. c[1] = n /\ c[2] = s
    OBVIOUS
  <2> HIDE DEF c
  <2> QED BY <2>1, Zenon DEF NoneOn
<1>5. Found(c, d) = Min(F)
  <2>1. c[1] = n /\ c[2] = s
    OBVIOUS
  <2> HIDE DEF c
  <2> QED BY <2>1, Zenon DEF Found
<1> HIDE DEF F, c
<1>6. ASSUME NoneOn(c, d), NEW p \in n .. Len(s) PROVE ~MatchAt(s, d, p)
  <2>1. ~(n > Len(s))
    BY <1>1
  <2> QED BY <2>1, <1>2, <1>4, <1>6
<1>7. ASSUME ~NoneOn(c, d)
      PROVE  /\ Found(c, d) \in n .. Len(s) /\ MatchAt(s, d, Found(c, d))
             /\ \A p \in n .. Found(c, d) - 1 : ~MatchAt(s, d, p)
  <2>1. F # {} /\ F \subseteq Nat
    BY <1>1, <1>3, <1>4, <1>7
  <2>2. \E m \in F : \A j \in F : m <= j
    BY <2>1, LeastNat
  <2>3. Min(F) \in F /\ \A j \in F : Min(F) <= j
    BY <2>2, Zenon DEF Min
  <2> DEFINE m == Min(F)
  <2> HIDE DEF m
  <2>4. m \in F /\ (\A j \in F : m <= j) /\ Found(c, d) = m
    BY <2>3, <1>5 DEF m
  <2>5. m \in n .. Len(s) /\ MatchAt(s, d, m)
    BY <2>4, <1>2, <1>3
  <2>6. \A p \in n .. m - 1 : ~MatchAt(s, d, p)
    <3> SUFFICES ASSUME NEW p \in n .. m - 1 PROVE ~MatchAt(s, d, p)
      OBVIOUS
    <3>1. p \in n .. Len(s) /\ ~(m <= p)
      BY <2>5, <1>1
    <3> QED BY <3>1, <2>4, <1>2
  <2> QED BY <2>4, <2>5, <2>6
<1> QED BY <1>6, <1>7 DEF c

LeftOf(c) == IF c[1] > Len(c[2]) THEN 0 ELSE Len(c[2]) + 1 - c[1]

MovesOn(n, s, d, v, moved) ==
  \E t \in Text :
    /\ Onward(<<n, s>>, d, v, moved) = <<Found(<<n, s>>, d) + d, t>>
    /\ t = IF At(s, Found(<<n, s>>, d) + d) # "Z" THEN Spliced(s, Found(<<n, s>>, d), d, v, moved) ELSE s
    /\ Len(t) = Len(s)
    /\ <<Found(<<n, s>>, d) + d, t>> \in Places
    /\ LeftOf(<<Found(<<n, s>>, d) + d, t>>) < LeftOf(<<n, s>>)

\* A round goes on behind the place found, with a text of the same length.
LEMMA OnwardIs ==
  ASSUME NEW n \in Nat \ {0}, NEW s \in Text, NEW d \in Nat \ {0}, NEW v \in Text, Len(v) = d, NEW moved,
         ~NoneOn(<<n, s>>, d)
  PROVE  MovesOn(n, s, d, v, moved)
<1> DEFINE c == <<n, s>>
           p == Found(c, d)
           t == IF At(s, p + d) # "Z" THEN Spliced(s, p, d, v, moved) ELSE s
<1>1. p \in n .. Len(s) /\ MatchAt(s, d, p)
  BY FoundIs
<1>c. c[1] = n /\ c[2] = s
  OBVIOUS
<1>2. Onward(c, d, v, moved) = <<p + d, t>>
  <2> HIDE DEF c
  <2>1. Onward(c, d, v, moved)
        = <<p + Len(v), IF At(s, p + Len(v)) # "Z" THEN Spliced(s, p, d, v, moved) ELSE s>>
    BY <1>c, Zenon DEF Onward
  <2>2. Len(v) = d
    OBVIOUS
  <2> QED BY <2>1, <2>2
<1> HIDE DEF p, c
<1>3. p + d <= Len(s) + 1
  BY <1>1, Zenon DEF MatchAt
<1>4. p \in 1 .. Len(s) /\ Len(s) \in Nat
  <2>1. Len(s) \in Nat
    BY LenProperties DEF Text
  <2> QED BY <1>1, <2>1
<1>5. t \in Text /\ Len(t) = Len(s)
  <2>1. Spliced(s, p, d, v, moved) \in Text /\ Len(Spliced(s, p, d, v, moved)) = Len(s)
    BY <1>3, <1>4, SplicedIs
  <2> QED BY <2>1
<1>6. t = IF At(s, p + d) # "Z" THEN Spliced(s, p, d, v, moved) ELSE s
  BY Zenon
<1> HIDE DEF t
<1>7. <<p + d, t>> \in Places
  <2>1. p + d \in Nat \ {0}
    BY <1>4
  <2> QED BY <2>1, <1>5 DEF Places
<1>8. LeftOf(<<p + d, t>>) < LeftOf(c)
  <2>1. LeftOf(c) = Len(s) + 1 - n
    <3>1. ~(n > Len(s))
      BY <1>1, <1>4
    <3> QED BY <3>1, <1>c, Zenon DEF LeftOf
  <2>2. LeftOf(<<p + d, t>>) = IF p + d > Len(s) THEN 0 ELSE Len(s) + 1 - (p + d)
    BY <1>5 DEF LeftOf
  <2> QED BY <2>1, <2>2, <1>1, <1>4
<1> QED BY <1>2, <1>5, <1>6, <1>7, <1>8, Zenon DEF p, c, MovesOn

\* The function the loop is does what it is defined to do.
LEMMA FromIs ==
  ASSUME NEW d \in Nat \ {0}, NEW v \in Text, Len(v) = d, NEW moved
  PROVE  \E f : IsFrom(f, d, v, moved)
<1> DEFINE D == Places
           stops == {c \in D : NoneOn(c, d)}
           m == [c \in D |-> LeftOf(c)]
           base == [c \in D |-> c[2]]
           pre == [c \in D |-> <<>>]
           next == [c \in D |-> IF NoneOn(c, d) THEN c ELSE Onward(c, d, v, moved)]
<1>1. ASSUME NEW c \in D
      PROVE  /\ c[2] \in Seq(Chars) /\ LeftOf(c) \in Nat
             /\ ~NoneOn(c, d) => Onward(c, d, v, moved) \in D /\ LeftOf(Onward(c, d, v, moved)) < LeftOf(c)
  <2>1. PICK n \in Nat \ {0}, s \in Text : c = <<n, s>>
    BY DEF Places
  <2>2. c[1] = n /\ c[2] = s /\ s \in Seq(Chars) /\ Len(s) \in Nat
    BY <2>1, LenProperties DEF Text
  <2>3. LeftOf(c) \in Nat
    BY <2>2 DEF LeftOf
  <2>4. ASSUME ~NoneOn(c, d)
        PROVE  Onward(c, d, v, moved) \in D /\ LeftOf(Onward(c, d, v, moved)) < LeftOf(c)
    <3>1. ~NoneOn(<<n, s>>, d)
      BY <2>1, <2>4
    <3>2. PICK t \in Text :
            /\ Onward(<<n, s>>, d, v, moved) = <<Found(<<n, s>>, d) + d, t>>
            /\ t = IF At(s, Found(<<n, s>>, d) + d) # "Z"
                   THEN Spliced(s, Found(<<n, s>>, d), d, v, moved) ELSE s
            /\ Len(t) = Len(s)
            /\ <<Found(<<n, s>>, d) + d, t>> \in Places
            /\ LeftOf(<<Found(<<n, s>>, d) + d, t>>) < LeftOf(<<n, s>>)
      <4>1. MovesOn(n, s, d, v, moved)
        BY <2>1, <3>1, OnwardIs
      <4> QED BY <4>1, Zenon DEF MovesOn
    <3> QED BY <2>1, <3>2, Zenon
  <2> QED BY <2>2, <2>3, <2>4
<1>e. <<>> \in Seq(Chars)
  OBVIOUS
<1> HIDE DEF D
<1>2. base \in [D -> Seq(Chars)] /\ pre \in [D -> Seq(Chars)] /\ m \in [D -> Nat] /\ next \in [D -> D]
  <2> HIDE DEF stops
  <2> QED BY <1>1, <1>e
<1>3. Descends(D, m, stops, next)
  <2>1. ASSUME NEW c \in D, c \notin stops PROVE m[next[c]] < m[c]
    <3>1. ~NoneOn(c, d)
      BY <2>1
    <3>2. next[c] = Onward(c, d, v, moved) /\ Onward(c, d, v, moved) \in D
      BY <1>1, <3>1
    <3>3. m[Onward(c, d, v, moved)] = LeftOf(Onward(c, d, v, moved)) /\ m[c] = LeftOf(c)
      BY <3>2
    <3> HIDE DEF m, next
    <3> QED BY <1>1, <3>1, <3>2, <3>3
  <2> QED BY <2>1, <1>2, Zenon DEF Descends
<1> HIDE DEF m
<1>4. PICK f \in [D -> Seq(Chars)] : TailMade(D, stops, base, pre, next, f)
  BY <1>2, <1>3, TailRecursion
<1>5. \A r \in Seq(Chars) : <<>> \o r = r
  OBVIOUS
<1> DEFINE other(c) == IF c \in stops THEN base[c] ELSE pre[c] \o f[next[c]]
           made(c) == IF NoneOn(c, d) THEN c[2] ELSE f[Onward(c, d, v, moved)]
<1>6. ASSUME NEW c \in D PROVE other(c) = made(c)
  <2>1. CASE NoneOn(c, d)
    <3>1. c \in stops /\ base[c] = c[2]
      BY <2>1
    <3> HIDE DEF stops, base, pre, next
    <3> QED BY <2>1, <3>1, Zenon
  <2>2. CASE ~NoneOn(c, d)
    <3>1. c \notin stops /\ pre[c] = <<>> /\ next[c] = Onward(c, d, v, moved)
      BY <2>2
    <3>2. f[Onward(c, d, v, moved)] \in Seq(Chars)
      BY <1>1, <1>4, <2>2
    <3>3. <<>> \o f[Onward(c, d, v, moved)] = f[Onward(c, d, v, moved)]
      BY <3>2, <1>5
    <3> HIDE DEF stops, base, pre, next
    <3> QED BY <2>2, <3>1, <3>3, Zenon
  <2> QED BY <2>1, <2>2
<1>7. [c \in D |-> other(c)] = [c \in D |-> made(c)]
  <2> HIDE DEF other, made
  <2> QED BY <1>6
<1>8. IsFrom(f, d, v, moved)
  <2> HIDE DEF stops, base, pre, next
  <2> QED BY <1>4, <1>7, Zenon DEF IsFrom, TailMade, D
<1> QED BY <1>8

\* The loop, at place n with the text s, has done what it was to do before n, and
\* nothing from there on; and it stands in no place of the tag.
SoFar(n, s, w, d, v) ==
  /\ n \in Nat \ {0} /\ s \in Text /\ Len(s) = Len(w)
  /\ \A z \in 1 .. Len(w) : IF z < n THEN Right(s[z], w, d, v, z) ELSE s[z] = w[z]
  /\ \A p \in 1 .. Len(w) : MatchAt(w, d, p) => p >= n \/ p + d <= n

\* From there on the tag's places are those of the text it began with.
LEMMA SameMatches ==
  ASSUME NEW w \in Text, NEW d \in Nat, NEW v, NEW n, NEW s, SoFar(n, s, w, d, v), NEW p \in n .. Len(w)
  PROVE  MatchAt(s, d, p) <=> MatchAt(w, d, p)
<1>1. n \in Nat \ {0} /\ Len(s) = Len(w) /\ Len(w) \in Nat
  BY LenProperties DEF SoFar, Text
<1>2. \A z \in n .. Len(w) : s[z] = w[z]
  <2>1. \A z \in n .. Len(w) : z \in 1 .. Len(w) /\ ~(z < n)
    BY <1>1
  <2> QED BY <2>1, Zenon DEF SoFar
<1>3. CASE p + d <= Len(w) + 1
  <2>1. \A j \in p .. p + d - 1 : j \in n .. Len(w)
    BY <1>1, <1>3
  <2>2. \A j \in p .. p + d - 1 : s[j] = w[j]
    BY <2>1, <1>2
  <2>3. (\A j \in p .. p + d - 1 : IsZ(s[j])) <=> (\A j \in p .. p + d - 1 : IsZ(w[j]))
    BY <2>2
  <2> QED BY <1>1, <2>3 DEF MatchAt
<1>4. CASE ~(p + d <= Len(w) + 1)
  BY <1>1, <1>4 DEF MatchAt
<1> QED BY <1>3, <1>4

\* Where none is found up to some place, what lies before it is not covered.
LEMMA NotCovered ==
  ASSUME NEW w \in Text, NEW d \in Nat, NEW v, NEW n, NEW s, SoFar(n, s, w, d, v),
         NEW z \in n .. Len(w), \A p \in n .. z : ~MatchAt(s, d, p)
  PROVE  Right(s[z], w, d, v, z)
<1>1. n \in Nat \ {0} /\ Len(w) \in Nat
  BY LenProperties DEF SoFar, Text
<1>2. z \in 1 .. Len(w) /\ ~(z < n)
  BY <1>1
<1>3. s[z] = w[z]
  BY <1>2, Zenon DEF SoFar
<1>4. ASSUME NEW p \in 1 .. z, Covers(w, d, p, z) PROVE FALSE
  <2>1. MatchAt(w, d, p) /\ z < p + d
    BY <1>4, Zenon DEF Covers
  <2>2. p \in 1 .. Len(w)
    BY <1>1, <1>2
  <2>3. p >= n \/ p + d <= n
    BY <2>1, <2>2, Zenon DEF SoFar
  <2>4. p \in n .. z /\ p \in n .. Len(w)
    BY <1>1, <1>2, <2>1, <2>2, <2>3
  <2>5. MatchAt(s, d, p)
    BY <2>1, <2>4, SameMatches
  <2> QED BY <2>4, <2>5
<1>5. Right(w[z], w, d, v, z)
  BY <1>4, RightOut, Zenon
<1> QED BY <1>3, <1>5

\* One round of it.
Advances(n, s, w, d, v, moved) ==
  \E m, t : /\ Onward(<<n, s>>, d, v, moved) = <<m, t>> /\ SoFar(m, t, w, d, v)
            /\ LeftOf(<<m, t>>) < LeftOf(<<n, s>>)

\* A round finds the next place of the tag, and puts the value there.
LEMMA OnwardRight ==
  ASSUME NEW w \in Text, NEW d \in Nat \ {0}, NEW v \in Text, Len(v) = d, NEW moved, Exacts(w, d),
         NEW n, NEW s, SoFar(n, s, w, d, v), ~NoneOn(<<n, s>>, d)
  PROVE  Advances(n, s, w, d, v, moved)
<1>1. n \in Nat \ {0} /\ s \in Text /\ Len(s) = Len(w) /\ Len(w) \in Nat
  BY LenProperties DEF SoFar, Text
<1> DEFINE p == Found(<<n, s>>, d)
<1>2. PICK t \in Text :
        /\ Onward(<<n, s>>, d, v, moved) = <<p + d, t>>
        /\ t = IF At(s, p + d) # "Z" THEN Spliced(s, p, d, v, moved) ELSE s
        /\ Len(t) = Len(s)
        /\ <<p + d, t>> \in Places
        /\ LeftOf(<<p + d, t>>) < LeftOf(<<n, s>>)
  <2>1. MovesOn(n, s, d, v, moved)
    BY <1>1, OnwardIs
  <2> QED BY <2>1, Zenon DEF MovesOn
<1>3. /\ p \in n .. Len(s) /\ MatchAt(s, d, p)
      /\ \A q \in n .. p - 1 : ~MatchAt(s, d, q)
  BY <1>1, FoundIs
<1> HIDE DEF p
<1>4. p \in 1 .. Len(w) /\ p \in n .. Len(w) /\ MatchAt(w, d, p)
  <2>1. p \in 1 .. Len(w) /\ p \in n .. Len(w)
    BY <1>1, <1>3
  <2> QED BY <2>1, <1>3, SameMatches
<1>5. p + d <= Len(w) + 1 /\ Exactly(w, d, p)
  <2>1. Exactly(w, d, p)
    BY <1>4, Zenon DEF Exacts
  <2> QED BY <1>4, <2>1, Zenon DEF MatchAt
<1>6. \A z \in n .. Len(w) : s[z] = w[z]
  <2>1. \A z \in n .. Len(w) : z \in 1 .. Len(w) /\ ~(z < n)
    BY <1>1
  <2> QED BY <2>1, Zenon DEF SoFar
<1>7. At(s, p + d) # "Z"
  <2>1. DOMAIN s = 1 .. Len(w)
    BY <1>1 DEF Text
  <2>2. CASE p + d > Len(w)
    <3>1. p + d \notin 1 .. Len(w)
      BY <1>1, <1>4, <2>2
    <3>2. At(s, p + d) = "end"
      BY <2>1, <3>1, Zenon DEF At
    <3> QED BY <3>2
  <2>3. CASE ~(p + d > Len(w))
    <3>1. p + d \in 1 .. Len(w) /\ p + d \in n .. Len(w)
      BY <1>1, <1>4, <2>3
    <3>2. At(s, p + d) = s[p + d]
      BY <2>1, <3>1, Zenon DEF At
    <3>3. ~IsZ(s[p + d])
      <4>1. ~IsZ(w[p + d])
        BY <1>5, <2>3, Zenon DEF Exactly
      <4>2. s[p + d] = w[p + d]
        BY <1>6, <3>1
      <4> QED BY <4>1, <4>2
    <3> QED BY <3>2, <3>3, Zenon DEF IsZ
  <2> QED BY <2>2, <2>3
<1>8. t = Spliced(s, p, d, v, moved)
  BY <1>2, <1>7, Zenon
<1>9. \A z \in 1 .. Len(w) : t[z] = IF p <= z /\ z < p + d THEN v[z + 1 - p] ELSE s[z]
  <2>1. p \in 1 .. Len(s) /\ p + d <= Len(s) + 1
    BY <1>1, <1>4, <1>5
  <2>2. \A z \in 1 .. Len(s) :
          Spliced(s, p, d, v, moved)[z] = IF p <= z /\ z < p + d THEN v[z + 1 - p] ELSE s[z]
    BY <1>1, <2>1, SplicedIs
  <2> QED BY <1>1, <1>8, <2>2
<1>10. ASSUME NEW z \in 1 .. Len(w)
       PROVE  IF z < p + d THEN Right(t[z], w, d, v, z) ELSE t[z] = w[z]
  <2>1. CASE z < n
    <3>1. ~(p <= z) /\ z < p + d
      BY <1>1, <1>4, <2>1
    <3>2. Right(s[z], w, d, v, z)
      BY <2>1, Zenon DEF SoFar
    <3> QED BY <3>1, <3>2, <1>9
  <2>2. CASE n <= z /\ z < p
    <3>1. z \in n .. Len(w) /\ ~(p <= z) /\ z < p + d /\ \A q \in n .. z : q \in n .. p - 1
      BY <1>1, <1>4, <2>2
    <3>2. Right(s[z], w, d, v, z)
      BY <3>1, <1>3, NotCovered
    <3> QED BY <3>1, <3>2, <1>9
  <2>3. CASE p <= z /\ z < p + d
    <3>1. z \in p .. p + d - 1
      BY <1>4, <2>3
    <3>2. Right(v[z + 1 - p], w, d, v, z)
      BY <3>1, <1>1, <1>4, RightIn
    <3> QED BY <3>2, <2>3, <1>9
  <2>4. CASE ~(z < p + d)
    <3>1. z \in n .. Len(w)
      BY <1>1, <1>4, <2>4
    <3> QED BY <3>1, <2>4, <1>6, <1>9
  <2> QED BY <2>1, <2>2, <2>3, <2>4, <1>1, <1>4
<1>11. ASSUME NEW q \in 1 .. Len(w), MatchAt(w, d, q) PROVE q >= p + d \/ q + d <= p + d
  <2>1. p < q => p + d < q
    BY <1>1, <1>4, <1>11, MatchesApart
  <2> QED BY <2>1, <1>1, <1>4
<1>12. SoFar(p + d, t, w, d, v)
  <2>1. p + d \in Nat \ {0}
    BY <1>4
  <2>2. t \in Text /\ Len(t) = Len(w)
    BY <1>1, <1>2
  <2> QED BY <2>1, <2>2, <1>10, <1>11, Zenon DEF SoFar
<1> QED BY <1>2, <1>12, Zenon DEF Advances

\* All of it.
LEMMA LoopRight ==
  ASSUME NEW w \in Text, NEW d \in Nat \ {0}, NEW v \in Text, Len(v) = d, NEW moved, Exacts(w, d),
         NEW f, IsFrom(f, d, v, moved)
  PROVE  f[<<1, w>>] \in Text /\ RightFrom(f[<<1, w>>], w, d, v, 1)
<1> DEFINE Finished(r) == r \in Text /\ RightFrom(r, w, d, v, 1)
           Good == {i \in Nat : \A n, s : SoFar(n, s, w, d, v) /\ LeftOf(<<n, s>>) < i => Finished(f[<<n, s>>])}
<1>0. Len(w) \in Nat
  BY LenProperties DEF Text
<1>1. ASSUME NEW n, NEW s, SoFar(n, s, w, d, v)
      PROVE  /\ <<n, s>> \in Places /\ LeftOf(<<n, s>>) \in Nat
             /\ f[<<n, s>>] = IF NoneOn(<<n, s>>, d) THEN s ELSE f[Onward(<<n, s>>, d, v, moved)]
  <2>1. n \in Nat \ {0} /\ s \in Text /\ Len(s) = Len(w)
    BY <1>1 DEF SoFar
  <2>2. <<n, s>> \in Places
    BY <2>1 DEF Places
  <2> DEFINE c == <<n, s>>
  <2>3. c[1] = n /\ c[2] = s
    OBVIOUS
  <2>4. LeftOf(c) \in Nat
    <3>1. LeftOf(c) = IF n > Len(s) THEN 0 ELSE Len(s) + 1 - n
      BY <2>3, Zenon DEF LeftOf
    <3> QED BY <3>1, <2>1, <1>0
  <2> HIDE DEF c
  <2>5. c \in Places
    BY <2>2 DEF c
  <2>6. f[c] = IF NoneOn(c, d) THEN c[2] ELSE f[Onward(c, d, v, moved)]
    BY <2>5, Zenon DEF IsFrom
  <2> QED BY <2>3, <2>4, <2>5, <2>6, Zenon DEF c
<1>2. 0 \in Good
  <2>1. \A n, s : SoFar(n, s, w, d, v) => ~(LeftOf(<<n, s>>) < 0)
    BY <1>1
  <2> QED BY <2>1
<1>3. ASSUME NEW i \in Nat, i \in Good PROVE i + 1 \in Good
  <2> SUFFICES ASSUME NEW n, NEW s, SoFar(n, s, w, d, v), LeftOf(<<n, s>>) < i + 1
               PROVE  Finished(f[<<n, s>>])
    BY i + 1 \in Nat
  <2>1. CASE NoneOn(<<n, s>>, d)
    <3>1. f[<<n, s>>] = s
      BY <1>1, <2>1
    <3>2. n \in Nat \ {0} /\ s \in Text /\ Len(s) = Len(w)
      BY DEF SoFar
    <3>3. \A p \in n .. Len(s) : ~MatchAt(s, d, p)
      BY <2>1, <3>2, FoundIs
    <3>4. ASSUME NEW z \in 1 .. Len(w) PROVE Right(s[z], w, d, v, z)
      <4>1. CASE z < n
        BY <4>1, Zenon DEF SoFar
      <4>2. CASE ~(z < n)
        <5>1. z \in n .. Len(w) /\ \A p \in n .. z : p \in n .. Len(s)
          BY <1>0, <3>2, <4>2
        <5> QED BY <5>1, <3>3, NotCovered
      <4> QED BY <4>1, <4>2
    <3>5. Len(s) = Len(w) + 1 - 1 /\ \A z \in 1 .. Len(w) : z + 1 - 1 = z
      BY <1>0, <3>2
    <3>6. \A z \in 1 .. Len(w) : Right(s[z + 1 - 1], w, d, v, z)
      BY <3>4, <3>5
    <3>7. RightFrom(s, w, d, v, 1)
      BY <3>5, <3>6, Zenon DEF RightFrom
    <3> QED BY <3>1, <3>2, <3>7
  <2>2. CASE ~NoneOn(<<n, s>>, d)
    <3>1. PICK m, t : /\ Onward(<<n, s>>, d, v, moved) = <<m, t>> /\ SoFar(m, t, w, d, v)
                      /\ LeftOf(<<m, t>>) < LeftOf(<<n, s>>)
      <4>1. Advances(n, s, w, d, v, moved)
        BY <2>2, OnwardRight
      <4> QED BY <4>1, Zenon DEF Advances
    <3>2. f[<<n, s>>] = f[<<m, t>>]
      BY <1>1, <2>2, <3>1
    <3>3. LeftOf(<<m, t>>) < i
      <4>1. LeftOf(<<m, t>>) \in Nat /\ LeftOf(<<n, s>>) \in Nat
        BY <1>1, <3>1
      <4> QED BY <4>1, <3>1
    <3>4. \A a, b : SoFar(a, b, w, d, v) /\ LeftOf(<<a, b>>) < i => Finished(f[<<a, b>>])
      BY <1>3
    <3> HIDE DEF Ends
    <3>5. Finished(f[<<m, t>>])
      BY <3>1, <3>3, <3>4, Zenon
    <3> QED BY <3>2, <3>5
  <2> QED BY <2>1, <2>2
<1>4. SoFar(1, w, w, d, v)
  <2>1. 1 \in Nat \ {0} /\ \A z \in 1 .. Len(w) : ~(z < 1)
    OBVIOUS
  <2>2. \A p \in 1 .. Len(w) : p >= 1
    OBVIOUS
  <2> QED BY <2>1, <2>2, Zenon DEF SoFar
<1>5. Nat \subseteq Good
  <2> HIDE DEF Good
  <2> QED BY <1>2, <1>3, NatInd
<1>6. LeftOf(<<1, w>>) + 1 \in Good /\ LeftOf(<<1, w>>) < LeftOf(<<1, w>>) + 1
  <2>1. LeftOf(<<1, w>>) \in Nat
    BY <1>1, <1>4
  <2> DEFINE l == LeftOf(<<1, w>>)
  <2> HIDE DEF Good, l
  <2>2. l + 1 \in Nat /\ l < l + 1
    BY <2>1 DEF l
  <2> QED BY <2>2, <1>5 DEF l
<1>7. \A a, b : SoFar(a, b, w, d, v) /\ LeftOf(<<a, b>>) < LeftOf(<<1, w>>) + 1 => Finished(f[<<a, b>>])
  BY <1>6
<1> HIDE DEF Ends
<1>8. Finished(f[<<1, w>>])
  BY <1>4, <1>6, <1>7, Zenon
<1> QED BY <1>8 DEF Ends

\* Two texts that are right everywhere are the same.
LEMMA SameRight ==
  ASSUME NEW w \in Text, NEW d, NEW v, NEW a \in Text, NEW b \in Text,
         RightFrom(a, w, d, v, 1), RightFrom(b, w, d, v, 1)
  PROVE  a = b
<1>1. Len(w) \in Nat /\ a \in Seq(Chars) /\ b \in Seq(Chars)
  BY LenProperties DEF Text
<1>2. /\ Len(a) = Len(w) + 1 - 1 /\ Len(b) = Len(w) + 1 - 1
      /\ \A z \in 1 .. Len(w) : Right(a[z + 1 - 1], w, d, v, z) /\ Right(b[z + 1 - 1], w, d, v, z)
  BY Zenon DEF RightFrom
<1>3. ASSUME NEW z \in 1 .. Len(w) PROVE a[z] = b[z]
  <2>1. Right(a[z + 1 - 1], w, d, v, z) /\ Right(b[z + 1 - 1], w, d, v, z)
    BY <1>2
  <2>2. z + 1 - 1 = z
    BY <1>1
  <2>3. Right(a[z], w, d, v, z) /\ Right(b[z], w, d, v, z)
    BY <2>1, <2>2
  <2> QED BY <2>3, RightOne
<1>4. Len(a) = Len(w) /\ Len(b) = Len(w)
  BY <1>1, <1>2
<1> QED BY <1>1, <1>3, <1>4, SameChars

\* It makes a text.
LEMMA FilledRight ==
  ASSUME NEW s \in Text, NEW options, NEW d, NEW v, OneTag(options, d, v), Exacts(s, d)
  PROVE  Filled(s, options) \in Text /\ RightFrom(Filled(s, options), s, d, v, 1)
<1>1. PICK f \in [1 .. Len(s) + 1 -> Seq(Chars)] : IsFill(f, s, options) /\ Filled(s, options) = f[1]
  BY FillIs, Zenon
<1>2. RightFrom(f[1], s, d, v, 1)
  BY <1>1, FillRight, Zenon
<1>3. f[1] \in Seq(Chars)
  <2>1. Len(s) \in Nat
    BY LenProperties DEF Text
  <2>2. 1 \in 1 .. Len(s) + 1
    BY <2>1
  <2> QED BY <1>1, <2>2
<1> QED BY <1>1, <1>2, <1>3 DEF Text

\* Where nothing is counted there is no place of the tag.
LEMMA CountedNone ==
  ASSUME NEW w \in Text, NEW d \in Nat \ {0}, Exacts(w, d), replace_str_count(w, d) = 0,
         NEW p \in 1 .. Len(w)
  PROVE  ~MatchAt(w, d, p)
<1> DEFINE T == {i \in 1 .. Len(w) : At(w, i - 1) # "Z" /\ StartsAt(w, i, Zs(d)) /\ At(w, i + d) # "Z"}
<1>1. Len(w) \in Nat /\ DOMAIN w = 1 .. Len(w)
  BY LenProperties DEF Text
<1>2. T = {}
  <2>1. IsFiniteSet(1 .. Len(w))
    BY <1>1, FS_Interval
  <2>2. IsFiniteSet(T)
    <3>1. T \subseteq 1 .. Len(w)
      BY Zenon
    <3> HIDE DEF T
    <3> QED BY <2>1, <3>1, FS_Subset
  <2>3. Cardinality(T) = 0
    BY Zenon DEF replace_str_count
  <2> HIDE DEF T
  <2> QED BY <2>2, <2>3, FS_EmptySet
<1> SUFFICES ASSUME MatchAt(w, d, p) PROVE FALSE
  OBVIOUS
<1>3. Exactly(w, d, p)
  BY Zenon DEF Exacts
<1>4. At(w, p - 1) # "Z"
  <2>1. CASE p = 1
    <3>1. p - 1 \notin DOMAIN w
      BY <1>1, <2>1
    <3>2. At(w, p - 1) = "end"
      BY <3>1, Zenon DEF At
    <3> QED BY <3>2
  <2>2. CASE p # 1
    <3>1. p - 1 \in DOMAIN w
      BY <1>1, <2>2
    <3>2. At(w, p - 1) = w[p - 1]
      BY <3>1, Zenon DEF At
    <3>3. ~IsZ(w[p - 1])
      BY <1>3, <2>2, Zenon DEF Exactly
    <3> QED BY <3>2, <3>3, Zenon DEF IsZ
  <2> QED BY <2>1, <2>2
<1>5. At(w, p + d) # "Z"
  <2>1. CASE p + d > Len(w)
    <3>1. p + d \notin DOMAIN w
      BY <1>1, <2>1
    <3>2. At(w, p + d) = "end"
      BY <3>1, Zenon DEF At
    <3> QED BY <3>2
  <2>2. CASE ~(p + d > Len(w))
    <3>1. p + d \in DOMAIN w
      BY <1>1, <2>2
    <3>2. At(w, p + d) = w[p + d]
      BY <3>1, Zenon DEF At
    <3>3. ~IsZ(w[p + d])
      BY <1>3, <2>2, Zenon DEF Exactly
    <3> QED BY <3>2, <3>3, Zenon DEF IsZ
  <2> QED BY <2>1, <2>2
<1>6. StartsAt(w, p, Zs(d))
  BY StartsIs
<1>7. p \in T
  BY <1>4, <1>5, <1>6, Zenon
<1> HIDE DEF T
<1> QED BY <1>2, <1>7

\* So replace_str_id puts the value into the places of the tag.
LEMMA ReplaceRight ==
  ASSUME NEW w \in Text, NEW d \in Nat \ {0}, NEW v \in Text, Len(v) = d, NEW moved, Exacts(w, d)
  PROVE  /\ replace_str_id(w, d, v, moved) \in Text
         /\ RightFrom(replace_str_id(w, d, v, moved), w, d, v, 1)
<1> DEFINE f == CHOOSE f : IsFrom(f, d, v, moved)
           r == replace_str_id(w, d, v, moved)
<1>1. IsFrom(f, d, v, moved)
  <2>1. \E g : IsFrom(g, d, v, moved)
    BY FromIs
  <2> QED BY <2>1, Zenon
<1>2. r = IF replace_str_count(w, d) = 0 THEN w ELSE f[<<1, w>>]
  BY Zenon DEF replace_str_id, IsFrom, NoneOn, Found, Onward, Places
<1> HIDE DEF f, r
<1>3. CASE replace_str_count(w, d) = 0
  <2>1. r = w /\ Len(w) \in Nat
    BY <1>2, <1>3, LenProperties DEF Text
  <2>2. \A p \in 1 .. Len(w) : ~MatchAt(w, d, p)
    BY <1>3, CountedNone
  <2>3. ASSUME NEW z \in 1 .. Len(w) PROVE Right(w[z + 1 - 1], w, d, v, z)
    <3>1. \A p \in 1 .. z : p \in 1 .. Len(w)
      BY <2>1
    <3>2. \A p \in 1 .. z : ~Covers(w, d, p, z)
      BY <2>2, <3>1, Zenon DEF Covers
    <3>3. Right(w[z], w, d, v, z)
      BY <3>2, RightOut, Zenon
    <3>4. z + 1 - 1 = z
      BY <2>1
    <3> QED BY <3>3, <3>4
  <2>4. Len(w) = Len(w) + 1 - 1
    BY <2>1
  <2>5. RightFrom(w, w, d, v, 1)
    BY <2>3, <2>4, Zenon DEF RightFrom
  <2> QED BY <2>1, <2>5 DEF r
<1>4. CASE replace_str_count(w, d) # 0
  <2>1. r = f[<<1, w>>]
    BY <1>2, <1>4
  <2>2. f[<<1, w>>] \in Text /\ RightFrom(f[<<1, w>>], w, d, v, 1)
    BY <1>1, LoopRight
  <2> QED BY <2>1, <2>2 DEF r
<1> QED BY <1>3, <1>4

\* The options of a code with one tag at most, the value as long as the tag, in a text where
\* no letters Z are more.
OptionsFit(options, w) ==
  /\ options \in Seq([id : Nat \ {0}, value : Text]) /\ Len(options) <= 1
  /\ \A o \in ToSet(options) :
       Len(o.value) = o.id /\ \A z \in DOMAIN w : ~StartsAt(w, z, Zs(o.id + 1))

\* No text is NULL.
LEMMA NullIs == \A v \in Text : v # Null
<1> SUFFICES ASSUME NEW v \in Text, v = Null PROVE FALSE
  OBVIOUS
<1>1. Null[1] \in Chars
  <2>1. Len(Null) = 1
    BY DEF Null
  <2>2. v \in Seq(Chars)
    BY DEF Text
  <2> HIDE DEF Null
  <2>3. 1 \in 1 .. Len(v)
    BY <2>1
  <2> QED BY <2>2, <2>3, ElementOfSeq
<1> QED BY <1>1 DEF Null, Chars, Hex

\* One option or none is filled in at once.
LEMMA ParsedIs ==
  ASSUME NEW w \in Text, NEW options, OptionsFit(options, w), NEW moved
  PROVE  ParseOptionsCode(options, w, moved)
           = IF options = <<>> THEN w ELSE replace_str_id(w, options[1].id, options[1].value, moved)
<1> DEFINE R(s, k) == IF options[k].value = Null THEN s
                      ELSE replace_str_id(s, options[k].id, options[k].value, moved)
           IsText(t) == t = [k \in 0 .. Len(options) |-> IF k = 0 THEN w ELSE R(t[k - 1], k)]
           text == CHOOSE t : IsText(t)
           g == [k \in 0 .. Len(options) |-> IF k = 0 THEN w ELSE R(w, 1)]
<1>1. ParseOptionsCode(options, w, moved) = text[Len(options)]
  BY Zenon DEF ParseOptionsCode
<1>2. Len(options) \in {0, 1} /\ (Len(options) = 0 <=> options = <<>>)
  <2>1. options \in Seq([id : Nat \ {0}, value : Text]) /\ Len(options) <= 1
    BY Zenon DEF OptionsFit
  <2> HIDE DEF Text
  <2>2. Len(options) \in Nat /\ (options = <<>> <=> Len(options) = 0)
    BY <2>1, EmptySeq, LenProperties
  <2>3. Len(options) <= 1
    BY <2>1
  <2> DEFINE l == Len(options)
  <2> HIDE DEF l
  <2>4. l \in Nat /\ l <= 1
    BY <2>2, <2>3 DEF l
  <2>5. l \in {0, 1}
    BY <2>4
  <2> QED BY <2>2, <2>5 DEF l
<1> HIDE DEF R
<1> DEFINE n == Len(options)
<1> HIDE DEF n
<1>3. ASSUME NEW t PROVE IsText(t) <=> t = [k \in 0 .. n |-> IF k = 0 THEN w ELSE R(t[k - 1], k)]
  BY DEF n
<1>4. n \in {0, 1}
  BY <1>2 DEF n
<1>5. IsText(g)
  <2>1. g = [k \in 0 .. n |-> IF k = 0 THEN w ELSE R(w, 1)]
    BY DEF n
  <2> HIDE DEF g, IsText
  <2>2. \A k \in 0 .. n : g[k] = IF k = 0 THEN w ELSE R(w, 1)
    BY <2>1
  <2>3. ASSUME NEW k \in 0 .. n
        PROVE  (IF k = 0 THEN w ELSE R(w, 1)) = (IF k = 0 THEN w ELSE R(g[k - 1], k))
    <3>1. CASE k = 0
      BY <3>1
    <3>2. CASE k # 0
      <4>1. k = 1 /\ k - 1 = 0 /\ 0 \in 0 .. n
        BY <1>4, <3>2
      <4>2. g[0] = w
        BY <4>1, <2>2
      <4>3. g[k - 1] = w
        BY <4>1, <4>2
      <4>4. R(g[k - 1], k) = R(w, 1)
        BY <4>1, <4>3
      <4> QED BY <3>2, <4>4
    <3> QED BY <3>1, <3>2
  <2>4. g = [k \in 0 .. n |-> IF k = 0 THEN w ELSE R(g[k - 1], k)]
    BY <2>1, <2>3
  <2> QED BY <1>3, <2>4
<1>6. IsText(text)
  <2> HIDE DEF IsText, g
  <2> QED BY <1>5, Zenon
<1> HIDE DEF text, g
<1>7. text = [k \in 0 .. n |-> IF k = 0 THEN w ELSE R(text[k - 1], k)]
  BY <1>3, <1>6
<1> HIDE DEF IsText
<1>8. text[0] = w
  <2>1. 0 \in 0 .. n
    BY <1>4
  <2> QED BY <2>1, <1>7
<1>9. CASE n = 0
  <2>1. options = <<>>
    BY <1>2, <1>9 DEF n
  <2>2. ParseOptionsCode(options, w, moved) = text[0]
    BY <1>1, <1>9 DEF n
  <2> QED BY <2>1, <2>2, <1>8
<1>10. CASE n = 1
  <2>1. options # <<>>
    BY <1>2, <1>10 DEF n
  <2>2. 1 \in 0 .. n /\ 1 # 0 /\ 1 - 1 = 0
    BY <1>10
  <2>3. text[1] = R(text[1 - 1], 1)
    BY <1>7, <2>2
  <2>4. text[1] = R(w, 1)
    BY <1>8, <2>2, <2>3
  <2>5. ParseOptionsCode(options, w, moved) = text[1]
    BY <1>1, <1>10 DEF n
  <2>6. options[1].value # Null
    <3>1. options \in Seq([id : Nat \ {0}, value : Text])
      BY Zenon DEF OptionsFit
    <3> DEFINE S == [id : Nat \ {0}, value : Text]
    <3> HIDE DEF S
    <3>2. options \in Seq(S) /\ 1 \in 1 .. Len(options)
      BY <3>1, <1>10 DEF S, n
    <3>3. options[1].value \in Text
      <4>1. options[1] \in S
        BY <3>2, ElementOfSeq
      <4> QED BY <4>1 DEF S
    <3> QED BY <3>3, NullIs
  <2>7. text[1] = replace_str_id(w, options[1].id, options[1].value, moved)
    BY <2>4, <2>6, Zenon DEF R
  <2> QED BY <2>1, <2>5, <2>7
<1> QED BY <1>4, <1>9, <1>10

\* An option whose value is as long as its tag is one such.
LEMMA OneTagIs ==
  ASSUME NEW options, NEW o, ToSet(options) = {o}, NEW d \in Nat, NEW v \in Text, Len(v) = d,
         o.id = d, o.value = v
  PROVE  OneTag(options, d, v)
<1>1. \A n : Mine(options, n) = {q \in {o} : q.id = n}
  BY Zenon DEF Mine
<1>2. Mine(options, d) = {o} /\ \A n : n # d => Mine(options, n) = {}
  BY <1>1, Zenon
<1>3. {o} # {} /\ \A q \in {o} : q.value = v
  OBVIOUS
<1>4. Mine(options, d) # {} /\ \A q \in Mine(options, d) : q.value = v
  BY <1>2, <1>3
<1> QED BY <1>2, <1>4, Zenon DEF OneTag

\* The text with the options filled in is what ParseOptionsCode makes.
LEMMA FilledIs ==
  ASSUME NEW w \in Text, NEW options, OptionsFit(options, w), NEW moved
  PROVE  Filled(w, options) \in Text /\ ParseOptionsCode(options, w, moved) = Filled(w, options)
<1>o. /\ options \in Seq([id : Nat \ {0}, value : Text]) /\ Len(options) <= 1
      /\ \A o \in ToSet(options) :
           Len(o.value) = o.id /\ \A z \in DOMAIN w : ~StartsAt(w, z, Zs(o.id + 1))
  BY Zenon DEF OptionsFit
<1>1. CASE options = <<>>
  <2>1. OneTag(options, 0, <<>>)
    <3>1. ToSet(options) = {}
      BY <1>1 DEF ToSet
    <3>2. \A n : Mine(options, n) = {}
      BY <3>1, Zenon DEF Mine
    <3>3. <<>> \in Text /\ Len(<<>>) = 0
      BY DEF Text
    <3>4. \A n \in Nat \ {0} : n # 0
      OBVIOUS
    <3> QED BY <3>2, <3>3, <3>4, Zenon DEF OneTag
  <2>2. \A p : ~MatchAt(w, 0, p)
    BY Zenon DEF MatchAt
  <2>3. Exacts(w, 0)
    BY <2>2, Zenon DEF Exacts
  <2>4. Filled(w, options) \in Text /\ RightFrom(Filled(w, options), w, 0, <<>>, 1)
    BY <2>1, <2>3, FilledRight
  <2>5. RightFrom(w, w, 0, <<>>, 1)
    <3>1. Len(w) \in Nat
      BY LenProperties DEF Text
    <3>2. ASSUME NEW z \in 1 .. Len(w) PROVE Right(w[z + 1 - 1], w, 0, <<>>, z)
      <4>1. \A p \in 1 .. z : ~Covers(w, 0, p, z)
        BY <2>2, Zenon DEF Covers
      <4>2. Right(w[z], w, 0, <<>>, z)
        BY <4>1, RightOut, Zenon
      <4>3. z + 1 - 1 = z
        BY <3>1
      <4> QED BY <4>2, <4>3
    <3>3. Len(w) = Len(w) + 1 - 1
      BY <3>1
    <3> QED BY <3>2, <3>3, Zenon DEF RightFrom
  <2>6. Filled(w, options) = w
    BY <2>4, <2>5, SameRight
  <2>7. ParseOptionsCode(options, w, moved) = w
    BY <1>1, ParsedIs
  <2> QED BY <2>4, <2>6, <2>7
<1>2. CASE options # <<>>
  <2> DEFINE o == options[1]
  <2>1. 1 \in DOMAIN options /\ o \in [id : Nat \ {0}, value : Text] /\ ToSet(options) = {o}
    <3> HIDE DEF o
    <3> DEFINE S == [id : Nat \ {0}, value : Text]
    <3> HIDE DEF S
    <3>1. options \in Seq(S)
      BY <1>o DEF S
    <3>2. Len(options) = 1 /\ DOMAIN options = 1 .. Len(options)
      <4>1. Len(options) \in Nat /\ DOMAIN options = 1 .. Len(options) /\ Len(options) # 0
        BY <3>1, <1>2, EmptySeq, LenProperties
      <4>2. Len(options) <= 1
        BY <1>o
      <4> QED BY <4>1, <4>2
    <3>3. \A i \in DOMAIN options : i = 1
      BY <3>2
    <3>4. 1 \in DOMAIN options
      BY <3>2
    <3>5. options[1] \in S
      BY <3>1, <3>4
    <3>6. ToSet(options) = {options[i] : i \in DOMAIN options}
      BY Zenon DEF ToSet
    <3>7. ToSet(options) = {options[1]}
      BY <3>3, <3>4, <3>6
    <3> QED BY <3>4, <3>5, <3>7 DEF o, S
  <2>2. o.id \in Nat \ {0} /\ o.value \in Text
    BY <2>1
  <2> HIDE DEF o
  <2> DEFINE d == o.id
             v == o.value
  <2>3. Len(v) = d /\ \A z \in DOMAIN w : ~StartsAt(w, z, Zs(d + 1))
    BY <1>o, <2>1
  <2>4. Exacts(w, d)
    <3> HIDE DEF d
    <3>1. d \in Nat \ {0}
      BY <2>2 DEF d
    <3> QED BY <2>3, <3>1, NoLonger
  <2>5. OneTag(options, d, v)
    <3>1. o.id = d /\ o.value = v /\ d \in Nat /\ v \in Text
      BY <2>2 DEF d, v
    <3> HIDE DEF d, v
    <3> QED BY <2>1, <2>3, <3>1, OneTagIs
  <2> DEFINE r == replace_str_id(w, d, v, moved)
  <2> HIDE DEF d, v
  <2>6. d \in Nat \ {0} /\ v \in Text
    BY <2>2 DEF d, v
  <2>7. Filled(w, options) \in Text /\ RightFrom(Filled(w, options), w, d, v, 1)
    BY <2>4, <2>5, FilledRight
  <2>8. r \in Text /\ RightFrom(r, w, d, v, 1)
    BY <2>3, <2>4, <2>6, ReplaceRight
  <2>9. ParseOptionsCode(options, w, moved) = r
    BY <1>2, ParsedIs, Zenon DEF o, d, v
  <2> HIDE DEF r
  <2>10. r = Filled(w, options)
    BY <2>7, <2>8, SameRight
  <2> QED BY <2>7, <2>9, <2>10
<1> QED BY <1>1, <1>2

-----------------------------------------------------------------------------
(* What is exported                                                        *)

\* The end of a code: the line before it is ended, if it was not.
Terminated(t) == t \o (IF Last(t) = "\n" THEN <<"#", "\n">> ELSE <<"\n", "#", "\n">>)

\* The end of a code ends its last line first.
LEMMA TerminatedIs ==
  ASSUME NEW t \in Text, t # <<>>
  PROVE  Terminated(t) = Closed(t) \o <<"#", "\n">>
<1>1. CASE Last(t) = "\n"
  <2>1. Closed(t) = t
    BY <1>1, Zenon DEF Closed
  <2>2. Terminated(t) = t \o <<"#", "\n">>
    BY <1>1, Zenon DEF Terminated
  <2> QED BY <2>1, <2>2
<1>2. CASE Last(t) # "\n"
  <2>1. Closed(t) = Append(t, "\n")
    BY <1>2, Zenon DEF Closed
  <2>2. Terminated(t) = t \o <<"\n", "#", "\n">>
    BY <1>2, Zenon DEF Terminated
  <2>3. PICK n, m : n = "\n" /\ m = "#" /\ n \in Chars /\ m \in Chars
    BY DEF Chars, Hex
  <2>4. t \in Seq(Chars) /\ <<n>> \in Seq(Chars) /\ <<m, n>> \in Seq(Chars)
    BY <2>3 DEF Text
  <2>5. Append(t, n) = t \o <<n>>
    BY <2>3, <2>4, AppendIsConcat
  <2>6. (t \o <<n>>) \o <<m, n>> = t \o (<<n>> \o <<m, n>>)
    BY <2>4, ConcatAssociative
  <2>7. <<n>> \o <<m, n>> = <<n, m, n>>
    <3> DEFINE a == <<n>>
               r == <<m, n>>
               u == a \o r
               w == <<n, m, n>>
    <3>1. /\ Len(a) = 1 /\ a[1] = n /\ Len(r) = 2 /\ r[1] = m /\ r[2] = n
          /\ w \in Seq(Chars) /\ Len(w) = 3 /\ w[1] = n /\ w[2] = m /\ w[3] = n
      BY <2>3
    <3>2. u \in Seq(Chars) /\ Joins(u, a, r)
      BY <2>4, JoinsIs
    <3> HIDE DEF a, r, u, w
    <3>3. /\ Len(u) = Len(a) + Len(r) /\ \A j \in 1 .. Len(a) : u[j] = a[j]
          /\ \A j \in 1 .. Len(r) : u[Len(a) + j] = r[j]
      BY <3>2, Zenon DEF Joins
    <3>4. Len(u) = 3 /\ u[1] = n /\ u[2] = m /\ u[3] = n
      BY <3>1, <3>3
    <3>5. \A k \in 1 .. Len(u) : u[k] = w[k]
      <4>1. \A k \in 1 .. 3 : k = 1 \/ k = 2 \/ k = 3
        OBVIOUS
      <4> QED BY <4>1, <3>1, <3>4
    <3>6. u = w
      BY <3>1, <3>2, <3>4, <3>5, SameChars
    <3> QED BY <3>6 DEF u, w, a, r
  <2>8. Append(t, n) \o <<m, n>> = t \o <<n, m, n>>
    BY <2>5, <2>6, <2>7
  <2>9. Append(t, "\n") \o <<"#", "\n">> = t \o <<"\n", "#", "\n">>
    BY <2>3, <2>8, Zenon
  <2> QED BY <2>1, <2>2, <2>9
<1> QED BY <1>1, <1>2

\* Before its lines there are the name and the mark.
Headed(b, c) == b \o <<"\n", c, "\n">>

\* The head of a code is a text, and ends a line.
LEMMA HeadedIs ==
  ASSUME NEW b \in Text, NEW c \in Chars
  PROVE  Headed(b, c) \in Text /\ Headed(b, c) # <<>> /\ Last(Headed(b, c)) = "\n"
<1>1. PICK n : n = "\n" /\ n \in Chars
  BY NLIsChar
<1> DEFINE m == <<n, c, n>>
<1>2. m \in Seq(Chars) /\ m # <<>> /\ Last(m) = n
  BY <1>1 DEF Last
<1>3. b \in Seq(Chars)
  BY DEF Text
<1> HIDE DEF m
<1>4. b \o m # <<>> /\ Last(b \o m) = Last(m) /\ b \o m \in Seq(Chars)
  BY <1>2, <1>3, LastBehind, ConcatProperties
<1>5. Headed(b, c) = b \o m
  BY <1>1, Zenon DEF Headed, m
<1> QED BY <1>1, <1>2, <1>4, <1>5 DEF Text

\* What AppendCode makes of a code whose options are filled in.
LEMMA AppendedIs ==
  ASSUME NEW code \in Entries, code.name \in Text, NEW options, NEW moved,
         OptionsFit(options, code.codes), WellWritten(Filled(code.codes, options))
  PROVE  AppendCode(code, options, moved)
           = Headed(code.name, IF code.cwrite THEN "1" ELSE "0")
             \o KeptText(Uncommented[Filled(code.codes, options)]) \o <<"#", "\n">>
<1> DEFINE F == Filled(code.codes, options)
           U == Uncommented[F]
           c == IF code.cwrite THEN "1" ELSE "0"
           h == Headed(code.name, c)
           q == ShrinkCode(ParseOptionsCode(options, code.codes, moved))
           t == h \o q
<1>1. code.codes \in Text
  BY DEF Entries
<1>2. F \in Text /\ ParseOptionsCode(options, code.codes, moved) = F
  BY <1>1, FilledIs
<1>3. WellCommented(F) /\ WellEnded(U)
  BY Zenon DEF WellWritten, WellEnded
<1>4. AppendCode(code, options, moved) = Terminated(t)
  BY Zenon DEF AppendCode, Terminated, Headed
<1>5. c \in Chars
  BY DEF Chars, Hex
<1>6. q = ShrinkLines[StripMultilineComments[F]]
  BY <1>2, Zenon DEF ShrinkCode
<1> HIDE DEF F, U, c, q
<1>7. StripMultilineComments[F] = U
  BY <1>2, <1>3, StripsAll DEF U
<1>8. U \in Text
  BY <1>2, UncommentedIs DEF U
<1>9. q \in Text /\ Closed(q) = KeptText(U)
  <2>1. ShrinkLines \in [Text -> Text]
    BY ShrunkIs
  <2>2. q = ShrinkLines[U]
    BY <1>6, <1>7
  <2>3. q \in Text
    BY <2>1, <2>2, <1>8
  <2>4. Closed(ShrinkLines[U]) = KeptText(U)
    BY <1>3, <1>8, ShrunkClosed
  <2> QED BY <2>2, <2>3, <2>4
<1>10. h \in Text /\ h # <<>> /\ Last(h) = "\n"
  BY <1>5, HeadedIs
<1> HIDE DEF h
<1>11. t \in Text /\ t # <<>>
  <2>1. h \in Seq(Chars) /\ q \in Seq(Chars)
    BY <1>9, <1>10 DEF Text
  <2>2. t \in Seq(Chars)
    BY <2>1, ConcatProperties
  <2>3. CASE q = <<>>
    <3>1. t = h
      BY <2>1, <2>3
    <3> QED BY <2>2, <3>1, <1>10 DEF Text
  <2>4. CASE q # <<>>
    BY <2>1, <2>2, <2>4, LastBehind DEF Text
  <2> QED BY <2>3, <2>4
<1>12. Closed(t) = h \o KeptText(U)
  <2>1. Closed(h \o q) = h \o Closed(q)
    BY <1>9, <1>10, ClosedBehind
  <2> QED BY <2>1, <1>9
<1> HIDE DEF t
<1>13. Terminated(t) = Closed(t) \o <<"#", "\n">>
  BY <1>11, TerminatedIs
<1>14. AppendCode(code, options, moved) = h \o KeptText(U) \o <<"#", "\n">>
  BY <1>4, <1>12, <1>13
<1> QED BY <1>14 DEF h, c, U, F

-----------------------------------------------------------------------------
(* The option of a code with one tag                                       *)

IsEq(c) == c = "="
IsSemi(c) == c = ";"
IsSlash(c) == c = "[/"
IsBracket(c) == c = "]"

LEMMA Apart ==
  \A c : /\ ~(IsEq(c) /\ IsSemi(c)) /\ ~(IsEq(c) /\ IsSlash(c)) /\ ~(IsEq(c) /\ IsBracket(c))
         /\ ~(IsSemi(c) /\ IsSlash(c)) /\ ~(IsSemi(c) /\ IsBracket(c)) /\ ~(IsSlash(c) /\ IsBracket(c))
         /\ ~(IsZ(c) /\ IsBracket(c)) /\ ~(IsZ(c) /\ IsSlash(c))
PROOF BY DEF IsEq, IsSemi, IsSlash, IsBracket, IsZ

\* A character a text has at a place.
LEMMA AtIs ==
  ASSUME NEW s, NEW i, At(s, i) # "end"
  PROVE  i \in DOMAIN s /\ s[i] = At(s, i)
PROOF BY Zenon DEF At

\* A tag at t, its ID of d letters up to b, and its end at y.
TagShape(s, t, b, d, y) ==
  /\ t \in Nat \ {0} /\ d \in Nat \ {0} /\ b = t + 1 + d /\ y \in Nat /\ b < y /\ y < Len(s)
  /\ IsBracket(s[b]) /\ IsSlash(s[y]) /\ (\A j \in t + 1 .. y - 1 : ~IsSlash(s[j]))
  /\ y \in EndTags(s)

\* Where a tag of the documents is.
LEMMA TagPlaced ==
  ASSUME NEW s \in Text, NEW t \in Tags(s), Documented(s, t)
  PROVE  TagShape(s, t, IDEnd(s, t), ID(s, t), EndTag(s, t))
<1> DEFINE b == IDEnd(s, t)
           d == ID(s, t)
           y == EndTag(s, t)
<1>1. Len(s) \in Nat /\ DOMAIN s = 1 .. Len(s)
  BY LenProperties DEF Text
<1>2. t \in DOMAIN s /\ At(s, t + 1) = "Z"
  BY Zenon DEF Tags
<1>3. t + 1 \in DOMAIN s /\ IsZ(s[t + 1])
  <2>1. "Z" # "end"
    OBVIOUS
  <2>2. t + 1 \in DOMAIN s /\ s[t + 1] = "Z"
    BY <1>2, <2>1, AtIs
  <2> QED BY <2>2, Zenon DEF IsZ
<1>4. t \in Nat \ {0} /\ t + 1 \in 1 .. Len(s) + 1 /\ t + 1 \in Nat /\ t + 1 <= Len(s) + 1
  BY <1>1, <1>2, <1>3
<1>5. b = RunEnd(s, t + 1)
  BY Zenon DEF IDEnd, RunEnd
<1>6. b \in t + 1 .. Len(s) + 1 /\ (\A j \in t + 1 .. b - 1 : IsZ(s[j]))
  BY <1>4, <1>5, RunEndIs
<1>7. /\ At(s, b) = "]" /\ At(s, y) = "[/" /\ At(s, y + d + 1) = "]"
      /\ \A z \in 1 .. d : s[y + z] = "Z"
  BY Zenon DEF Documented
<1>8. b \in DOMAIN s /\ IsBracket(s[b]) /\ y \in DOMAIN s /\ IsSlash(s[y]) /\ y + d + 1 \in DOMAIN s
  <2>1. "]" # "end" /\ "[/" # "end"
    OBVIOUS
  <2>2. b \in DOMAIN s /\ s[b] = "]" /\ y \in DOMAIN s /\ s[y] = "[/" /\ y + d + 1 \in DOMAIN s
    BY <1>7, <2>1, AtIs
  <2> QED BY <2>2, Zenon DEF IsBracket, IsSlash
<1>9. d = b - (t + 1)
  BY Zenon DEF ID
<1>10. y \in t + 1 .. Len(s) + 1 /\ \A j \in t + 1 .. y - 1 : s[j] \notin {"[/"}
  <2>1. y = findNext(s, t + 1, {"[/"})
    BY Zenon DEF EndTag
  <2> QED BY <1>1, <1>4, <2>1, NextIs
<1>11. \A j \in t + 1 .. y - 1 : ~IsSlash(s[j])
  BY <1>10, Zenon DEF IsSlash
<1> HIDE DEF b, d, y
<1>12. d \in Nat \ {0} /\ b = t + 1 + d
  <2>1. b # t + 1
    BY <1>3, <1>8, Apart
  <2>2. b \in t + 1 .. Len(s) + 1
    BY <1>6
  <2>3. b \in Nat /\ t + 1 <= b /\ t \in Nat
    BY <1>1, <1>4, <2>2
  <2> QED BY <1>9, <2>1, <2>3
<1>13. b < y
  <2>1. b # y
    BY <1>8, Apart
  <2>2. ~(y < b)
    <3>1. y < b => y \in t + 1 .. b - 1
      BY <1>1, <1>4, <1>6, <1>10
    <3>2. y < b => IsZ(s[y])
      BY <1>6, <3>1
    <3> QED BY <3>2, <1>8, Apart
  <2> QED BY <1>4, <1>6, <1>10, <2>1, <2>2
<1>14. y \in Nat /\ y < Len(s) /\ y + 1 \in DOMAIN s
  BY <1>1, <1>8, <1>12
<1>15. y \in EndTags(s)
  <2>1. 1 \in 1 .. d
    BY <1>12
  <2>2. s[y + 1] = "Z"
    BY <1>7, <2>1
  <2>3. At(s, y + 1) = "Z"
    BY <1>14, <2>2, Zenon DEF At
  <2>4. s[y] = "[/"
    BY <1>8, Zenon DEF IsSlash
  <2> QED BY <1>8, <2>3, <2>4, Zenon DEF EndTags
<1> QED BY <1>4, <1>8, <1>11, <1>12, <1>13, <1>14, <1>15 DEF TagShape, b, d, y

\* The end of a tag is the next from any place in it.
LEMMA EndFound ==
  ASSUME NEW s \in Text, NEW k \in Nat, NEW y \in EndTags(s), y \in Nat, k <= y,
         \A j \in k .. y - 1 : ~IsSlash(s[j])
  PROVE  findNextEndTag(s, k) = y
<1> DEFINE at == {e \in EndTags(s) : e >= k}
<1>1. y \in at
  OBVIOUS
<1>2. \A e \in at : e \in Nat /\ IsSlash(s[e])
  <2>1. DOMAIN s = 1 .. Len(s) /\ Len(s) \in Nat
    BY LenProperties DEF Text
  <2>2. \A e \in EndTags(s) : e \in DOMAIN s /\ IsSlash(s[e])
    BY Zenon DEF EndTags, IsSlash
  <2> QED BY <2>1, <2>2
<1>3. \A e \in at : e >= k
  OBVIOUS
<1> HIDE DEF at
<1>4. \A e \in at : y <= e
  <2> SUFFICES ASSUME NEW e \in at, e < y PROVE FALSE
    BY <1>2
  <2>1. e \in k .. y - 1
    BY <1>2, <1>3
  <2> QED BY <2>1, <1>2
<1>5. Min(at) = y
  <2>1. \A e \in at : (\A q \in at : e <= q) => e = y
    BY <1>1, <1>2, <1>4
  <2> QED BY <1>1, <1>4, <2>1, Zenon DEF Min
<1>6. at # {}
  BY <1>1
<1>7. findNextEndTag(s, k) = IF at = {} THEN Len(s) + 1 ELSE Min(at)
  BY Zenon DEF findNextEndTag, at
<1> QED BY <1>5, <1>6, <1>7

\* The only place is the first.
LEMMA OnlyIsFirst ==
  ASSUME NEW p \in Nat
  PROVE  Nth({p}, 1) = p /\ Cardinality({p}) = 1
<1>1. {q \in {p} : q <= p} = {p}
  OBVIOUS
<1>2. Cardinality({p}) = 1
  BY FS_Singleton
<1> QED BY <1>1, <1>2, Zenon DEF Nth

\* Text without tags has no options, for the code and for its author.
LEMMA NoOptions ==
  ASSUME NEW s \in Text, Tags(s) = {} \/ EndTags(s) = {}, NEW choice
  PROVE  Chosen(s, choice) = <<>> /\ Said(s, choice) = <<>>
<1>1. Cardinality({}) = 0
  BY FS_EmptySet
<1>2. countTags(s) = 0
  <2>1. {findNextEndTag(s, t) : t \in Tags(s)} \ {Len(s) + 1} = {}
    <3>1. CASE Tags(s) = {}
      BY <3>1
    <3>2. CASE EndTags(s) = {}
      <4>1. \A t : {e \in EndTags(s) : e >= t} = {}
        BY <3>2
      <4>2. \A t : findNextEndTag(s, t) = Len(s) + 1
        BY <4>1, Zenon DEF findNextEndTag
      <4> QED BY <4>2
    <3> QED BY <3>1, <3>2
  <2> QED BY <1>1, <2>1, Zenon DEF countTags
<1>3. {t \in Tags(s) : Documented(s, t)} = {}
  <2> SUFFICES ASSUME NEW t \in Tags(s), Documented(s, t) PROVE FALSE
    OBVIOUS
  <2>1. TagShape(s, t, IDEnd(s, t), ID(s, t), EndTag(s, t))
    BY TagPlaced
  <2>2. EndTag(s, t) \in EndTags(s)
    BY <2>1, Zenon DEF TagShape
  <2> QED BY <2>2
<1>4. 1 .. 0 = {}
  OBVIOUS
<1>5. DOMAIN ReadOptions(s) = {}
  <2> DEFINE r(o) == ReadOption(s, Nth(Tags(s), o))
  <2>1. ReadOptions(s) = [o \in 1 .. countTags(s) |-> r(o)]
    BY Zenon DEF ReadOptions
  <2> HIDE DEF r
  <2> QED BY <2>1, <1>2, <1>4
<1>6. Chosen(s, choice) = <<>>
  <2> DEFINE D == DOMAIN ReadOptions(s)
             r(o) == [id |-> ReadOptions(s)[o].id, value |-> Value(s, ReadOptions(s)[o], choice[o])]
  <2>1. Chosen(s, choice) = [o \in D |-> r(o)]
    BY Zenon DEF Chosen
  <2>2. D = {}
    BY <1>5
  <2> HIDE DEF r, D
  <2>3. [o \in {} |-> r(o)] = <<>>
    OBVIOUS
  <2> QED BY <2>1, <2>2, <2>3
<1>7. Said(s, choice) = <<>>
  <2> DEFINE tags == {t \in Tags(s) : Documented(s, t)}
             r(o) == [id |-> ID(s, Nth(tags, o)), value |-> SaidValue(s, Nth(tags, o), choice[o])]
  <2>1. Said(s, choice) = [o \in 1 .. Cardinality(tags) |-> r(o)]
    BY Zenon DEF Said
  <2>2. tags = {}
    BY <1>3
  <2> HIDE DEF r, tags
  <2>3. 1 .. Cardinality(tags) = {}
    BY <1>1, <1>4, <2>2
  <2>4. [o \in {} |-> r(o)] = <<>>
    OBVIOUS
  <2> QED BY <2>1, <2>3, <2>4
<1> QED BY <1>6, <1>7

\* As many places lie before one as up to another if they are the same.
LEMMA SamePlaces ==
  ASSUME NEW S, S \subseteq Nat, IsFiniteSet(S), NEW p \in S, NEW q \in Nat
  PROVE  Cardinality({u \in S : u < q}) = Cardinality({u \in S : u <= p})
           <=> p < q /\ \A u \in S : u < q => u <= p
<1> DEFINE A == {u \in S : u < q}
           B == {u \in S : u <= p}
<1>1. A \subseteq S /\ B \subseteq S
  OBVIOUS
<1>2. IsFiniteSet(A) /\ IsFiniteSet(B)
  BY <1>1, FS_Subset
<1>3. A = B <=> p < q /\ \A u \in S : u < q => u <= p
  <2>1. ASSUME A = B PROVE p < q /\ \A u \in S : u < q => u <= p
    <3>1. p \in B
      OBVIOUS
    <3>2. p \in A /\ \A u \in A : u \in B
      BY <2>1, <3>1
    <3> QED BY <3>2
  <2>2. ASSUME p < q, \A u \in S : u < q => u <= p PROVE A = B
    <3>1. \A u \in S : u < q <=> u <= p
      BY <2>2
    <3> QED BY <3>1
  <2> QED BY <2>1, <2>2
<1>4. A \subseteq B \/ B \subseteq A
  <2>1. CASE p < q
    <3>1. \A u \in S : u <= p => u < q
      BY <2>1
    <3> QED BY <3>1
  <2>2. CASE ~(p < q)
    <3>1. \A u \in S : u < q => u <= p
      BY <2>2
    <3> QED BY <3>1
  <2> QED BY <2>1, <2>2
<1>5. Cardinality(A) = Cardinality(B) <=> A = B
  <2> HIDE DEF A, B
  <2>1. A \subseteq B => (Cardinality(A) = Cardinality(B) => A = B)
    BY <1>2, FS_Subset
  <2>2. B \subseteq A => (Cardinality(A) = Cardinality(B) => A = B)
    BY <1>2, FS_Subset
  <2> QED BY <1>4, <2>1, <2>2
<1> QED BY <1>3, <1>5

\* The element a place is in, in a text whose elements start at S: behind the last of them.
LEMMA ElementIs ==
  ASSUME NEW S, S \subseteq Nat, IsFiniteSet(S), NEW z \in S, \A u \in S : z <= u, NEW p \in S,
         NEW q \in Nat, z < q
  PROVE  Cardinality({u \in S \ {z} : u < q}) + 1 = Cardinality({u \in S : u <= p})
           <=> p < q /\ \A u \in S : u < q => u <= p
<1> DEFINE M == {u \in S \ {z} : u < q}
           A == {u \in S : u < q}
<1>1. A = M \cup {z} /\ z \notin M /\ M \subseteq S
  OBVIOUS
<1>2. IsFiniteSet(M)
  BY <1>1, FS_Subset
<1> HIDE DEF M
<1>3. Cardinality(M \cup {z}) = Cardinality(M) + 1
  BY <1>1, <1>2, FS_AddElement
<1>4. Cardinality(A) = Cardinality(M) + 1
  BY <1>1, <1>3
<1>5. Cardinality(A) = Cardinality({u \in S : u <= p})
        <=> p < q /\ \A u \in S : u < q => u <= p
  BY SamePlaces
<1> QED BY <1>4, <1>5 DEF M

\* A tag ends its text at y, and its elements start at S.
StartsIn(s, S, o, y) ==
  /\ S \subseteq Nat /\ IsFiniteSet(S) /\ o \in S
  /\ \A u \in S : o <= u /\ u < y /\ (u # o => IsSemi(s[u]))
  /\ \A u \in o + 1 .. y - 1 : IsSemi(s[u]) => u \in S

LEMMA StartsAre ==
  ASSUME NEW s, NEW t, NEW d, TagShape(s, t, IDEnd(s, t), d, EndTag(s, t))
  PROVE  StartsIn(s, Starts(s, t), IDEnd(s, t), EndTag(s, t))
<1> DEFINE X == IDEnd(s, t)
           Y == EndTag(s, t)
           S == Starts(s, t)
<1>1. S = {X} \cup {p \in X .. Y : IsSemi(s[p])}
  BY Zenon DEF Starts, IsSemi
<1>2. X \in Nat /\ Y \in Nat /\ X < Y /\ IsSlash(s[Y])
  BY DEF TagShape
<1> HIDE DEF X, Y, S
<1>3. S \subseteq X .. Y /\ X \in S
  BY <1>1, <1>2
<1>4. IsFiniteSet(S)
  <2>1. IsFiniteSet(X .. Y)
    BY <1>2, FS_Interval
  <2> QED BY <1>3, <2>1, FS_Subset
<1>5. \A u \in S : X <= u /\ u < Y /\ (u # X => IsSemi(s[u]))
  <2>1. \A u \in S : u # X => IsSemi(s[u])
    BY <1>1
  <2>2. Y \notin S
    BY <1>2, <2>1, Apart
  <2> QED BY <1>2, <1>3, <2>1, <2>2
<1>6. \A u \in X + 1 .. Y - 1 : IsSemi(s[u]) => u \in S
  <2>1. \A u \in X + 1 .. Y - 1 : u \in X .. Y
    BY <1>2
  <2> QED BY <1>1, <2>1
<1>7. S \subseteq Nat
  BY <1>2, <1>3
<1> QED BY <1>3, <1>4, <1>5, <1>6, <1>7 DEF StartsIn, X, Y, S

\* The one sign at e of the element that starts at p.
SignAt(s, S, p, e, Y) ==
  /\ e \in Nat /\ p < e /\ e < Y /\ IsEq(s[e])
  /\ \A u \in S : u <= p \/ e < u
  /\ \A q \in Nat : (p < q /\ q < Y /\ IsEq(s[q]) /\ \A u \in S : u < q => u <= p) => q = e

LEMMA SignIs ==
  ASSUME NEW s \in Text, NEW t \in Tags(s), Documented(s, t), NEW p \in Starts(s, t)
  PROVE  \E e : SignAt(s, Starts(s, t), p, e, EndTag(s, t))
<1> DEFINE X == IDEnd(s, t)
           Y == EndTag(s, t)
           S == Starts(s, t)
           w == ElementEnd(s, p)
<1>1. TagShape(s, t, X, ID(s, t), Y) /\ StartsIn(s, S, X, Y)
  BY TagPlaced, StartsAre
<1>2. PICK e \in p + 1 .. w - 1 : {q \in p + 1 .. w - 1 : s[q] = "="} = {e}
  BY Zenon DEF Documented
<1>3. IsEq(s[e]) /\ \A q \in p + 1 .. w - 1 : IsEq(s[q]) => q = e
  BY <1>2, Zenon DEF IsEq
<1>4. Len(s) \in Nat
  BY LenProperties DEF Text
<1> HIDE DEF X, Y, S
<1>5. X \in Nat /\ Y \in Nat /\ X < Y /\ Y < Len(s) /\ IsSlash(s[Y])
  BY <1>1 DEF TagShape
<1>6. /\ S \subseteq Nat /\ p \in S /\ X <= p /\ p < Y
      /\ \A u \in S : X <= u /\ u < Y /\ (u # X => IsSemi(s[u]))
      /\ \A u \in X + 1 .. Y - 1 : IsSemi(s[u]) => u \in S
  BY <1>1 DEF StartsIn, S
<1>7. p \in Nat /\ p + 1 \in Nat /\ p + 1 <= Len(s) + 1
  BY <1>4, <1>5, <1>6
<1>8. /\ w \in p + 1 .. Len(s) + 1
      /\ \A j \in p + 1 .. w - 1 : ~IsSemi(s[j]) /\ ~IsSlash(s[j])
      /\ w <= Len(s) => IsSemi(s[w]) \/ IsSlash(s[w])
  <2>1. /\ w \in p + 1 .. Len(s) + 1
        /\ \A j \in p + 1 .. w - 1 : s[j] \notin {";", "[/"}
        /\ w <= Len(s) => s[w] \in {";", "[/"}
    <3> DEFINE st == {";", "[/"}
    <3>1. w = findNext(s, p + 1, st)
      BY Zenon DEF ElementEnd
    <3> HIDE DEF st, w
    <3>2. /\ w \in p + 1 .. Len(s) + 1
          /\ \A j \in p + 1 .. w - 1 : s[j] \notin st
          /\ w <= Len(s) => s[w] \in st
      BY <1>4, <1>7, <3>1, NextIs
    <3> QED BY <3>2 DEF st
  <2>2. \A c : c \in {";", "[/"} <=> IsSemi(c) \/ IsSlash(c)
    BY Zenon DEF IsSemi, IsSlash
  <2> HIDE DEF w
  <2> QED BY <2>1, <2>2, Zenon
<1> HIDE DEF w
<1>9. w <= Y
  <2>1. Y < w => Y \in p + 1 .. w - 1
    BY <1>5, <1>6, <1>7, <1>8
  <2> QED BY <2>1, <1>4, <1>5, <1>8
<1>10. e \in Nat /\ p < e /\ e < w /\ e < Y
  BY <1>4, <1>5, <1>7, <1>8, <1>9
<1>11. \A u \in S : u <= p \/ w <= u
  <2> SUFFICES ASSUME NEW u \in S, ~(u <= p), ~(w <= u) PROVE FALSE
    OBVIOUS
  <2>1. u \in p + 1 .. w - 1 /\ u # X
    BY <1>4, <1>6, <1>7, <1>8
  <2> QED BY <2>1, <1>6, <1>8
<1>12. \A u \in S : u <= p \/ e < u
  <2>1. S \subseteq Nat /\ w \in Nat
    BY <1>4, <1>6, <1>7, <1>8
  <2> QED BY <1>10, <1>11, <2>1
<1>13. ASSUME NEW q \in Nat, p < q, q < Y, IsEq(s[q]), \A u \in S : u < q => u <= p PROVE q = e
  <2>1. ~(w < q)
    <3>1. SUFFICES ASSUME w < q PROVE FALSE
      OBVIOUS
    <3>2. w \in Nat /\ w < Y /\ w <= Len(s) /\ p < w /\ w \in X + 1 .. Y - 1
      BY <1>4, <1>5, <1>6, <1>7, <1>8, <1>9, <1>13, <3>1
    <3>3. IsSemi(s[w]) \/ IsSlash(s[w])
      BY <1>8, <3>2
    <3>4. ~IsSlash(s[w])
      <4>1. t \in Nat /\ t + 1 <= X /\ \A j \in t + 1 .. Y - 1 : ~IsSlash(s[j])
        BY <1>1 DEF TagShape
      <4>2. w \in t + 1 .. Y - 1
        BY <1>5, <3>2, <4>1
      <4> QED BY <4>1, <4>2
    <3>5. w \in S
      BY <1>6, <3>2, <3>3, <3>4
    <3> QED BY <1>13, <3>1, <3>2, <3>5, <1>7
  <2>2. q # w
    <3>1. q = w => w <= Len(s)
      BY <1>4, <1>5, <1>13
    <3> QED BY <3>1, <1>8, <1>13, Apart
  <2>3. w \in Nat
    BY <1>4, <1>7, <1>8
  <2>4. q \in p + 1 .. w - 1
    BY <1>7, <1>13, <2>1, <2>2, <2>3
  <2> QED BY <1>3, <1>13, <2>4
<1> QED BY <1>3, <1>10, <1>12, <1>13 DEF SignAt, S, Y

\* The text of a tag as the code reads it.
LEMMA OptionIs ==
  ASSUME NEW s \in Text, NEW t \in Tags(s), Documented(s, t)
  PROVE  ReadOption(s, t) = [id |-> ID(s, t), from |-> IDEnd(s, t) + ID(s, t) - 1, to |-> EndTag(s, t) - 1]
<1> DEFINE X == IDEnd(s, t)
           Y == EndTag(s, t)
<1>1. TagShape(s, t, X, ID(s, t), Y)
  BY TagPlaced
<1>2. findNextEndTag(s, X) = Y
  <2> HIDE DEF X, Y
  <2>1. X \in Nat /\ Y \in Nat /\ X <= Y /\ Y \in EndTags(s) /\ \A j \in X .. Y - 1 : ~IsSlash(s[j])
    <3>1. /\ t \in Nat /\ X \in Nat /\ t + 1 <= X /\ X < Y /\ Y \in Nat /\ Y \in EndTags(s)
          /\ \A j \in t + 1 .. Y - 1 : ~IsSlash(s[j])
      BY <1>1 DEF TagShape
    <3>2. \A j \in X .. Y - 1 : j \in t + 1 .. Y - 1
      BY <3>1
    <3> QED BY <3>1, <3>2
  <2> QED BY <2>1, EndFound
<1>3. ReadOption(s, t) = [id |-> X - (t + 1), from |-> X + (X - (t + 1)) - 1, to |-> findNextEndTag(s, X) - 1]
  BY Zenon DEF ReadOption, IDEnd, X
<1>4. ID(s, t) = X - (t + 1)
  BY Zenon DEF ID, X
<1> QED BY <1>2, <1>3, <1>4

\* Whether nothing is passed over that the choice of an element depends on.
Unharmed(s, t, k) ==
  ID(s, t) = 2 \/ (k > 1 /\ \A p \in IDEnd(s, t) + 1 .. IDEnd(s, t) + ID(s, t) - 2 : s[p] # ";")

\* The marks the code finds in it end the elements its author began.
LEMMA MarksAre ==
  ASSUME NEW s \in Text, NEW t \in Tags(s), Documented(s, t), NEW k, Unharmed(s, t, k)
  PROVE  /\ MarksIn(s, ReadOption(s, t), ";") = Starts(s, t) \ {IDEnd(s, t)}
         /\ \A u \in Starts(s, t) \ {IDEnd(s, t)} : IDEnd(s, t) + ID(s, t) - 1 <= u
<1> DEFINE X == IDEnd(s, t)
           Y == EndTag(s, t)
           S == Starts(s, t)
           d == ID(s, t)
           M == {u \in X + d - 1 .. Y - 1 : IsSemi(s[u])}
<1>1. TagShape(s, t, X, d, Y) /\ StartsIn(s, S, X, Y)
  BY TagPlaced, StartsAre
<1>2. MarksIn(s, ReadOption(s, t), ";") = M
  <2> DEFINE o == ReadOption(s, t)
  <2>1. o.from = X + d - 1 /\ o.to = Y - 1
    BY OptionIs
  <2>2. MarksIn(s, o, ";") = {u \in o.from .. o.to : IsSemi(s[u])}
    BY Zenon DEF MarksIn, IsSemi
  <2>3. MarksIn(s, o, ";") = M
    <3> HIDE DEF o, X, Y, d
    <3> QED BY <2>1, <2>2
  <2> QED BY <2>3
<1>3. d = 2 \/ \A u \in X + 1 .. X + d - 2 : ~IsSemi(s[u])
  BY Zenon DEF Unharmed, IsSemi
<1> HIDE DEF X, Y, S, d
<1>4. X \in Nat /\ Y \in Nat /\ d \in Nat \ {0} /\ IsBracket(s[X])
  BY <1>1 DEF TagShape
<1>5. /\ S \subseteq Nat /\ X \in S
      /\ \A u \in S : X <= u /\ u < Y /\ (u # X => IsSemi(s[u]))
      /\ \A u \in X + 1 .. Y - 1 : IsSemi(s[u]) => u \in S
  BY <1>1 DEF StartsIn
<1>6. ASSUME NEW u \in S \ {X} PROVE X + d - 1 <= u /\ u \in M
  <2>1. u \in Nat /\ X < u /\ u < Y /\ IsSemi(s[u])
    BY <1>4, <1>5
  <2>2. X + d - 1 <= u
    <3>1. CASE d = 2
      BY <3>1, <2>1, <1>4
    <3>2. CASE \A j \in X + 1 .. X + d - 2 : ~IsSemi(s[j])
      <4>1. u \notin X + 1 .. X + d - 2
        BY <3>2, <2>1
      <4> QED BY <4>1, <2>1, <1>4
    <3> QED BY <3>1, <3>2, <1>3
  <2>3. u \in X + d - 1 .. Y - 1
    BY <2>1, <2>2, <1>4
  <2> QED BY <2>1, <2>2, <2>3
<1>7. ASSUME NEW u \in M PROVE u \in S \ {X}
  <2>1. u \in X + d - 1 .. Y - 1 /\ IsSemi(s[u])
    OBVIOUS
  <2>2. u # X
    BY <1>4, <2>1, Apart
  <2>3. u \in X + 1 .. Y - 1
    BY <1>4, <2>1, <2>2
  <2> QED BY <1>5, <2>1, <2>2, <2>3
<1> HIDE DEF M
<1>8. M = S \ {X}
  BY <1>6, <1>7
<1> QED BY <1>2, <1>6, <1>8 DEF X, d, S

\* The value the code reads for an element.
LEMMA ValueIs ==
  ASSUME NEW s \in Text, NEW t \in Tags(s), Documented(s, t), NEW k, Unharmed(s, t, k),
         NEW p, IsStart(s, t, k, p)
  PROVE  /\ Value(s, ReadOption(s, t), k) = SubSeq(s, p + 1, findNext(s, p + 1, {"="}) - 1)
         /\ SubSeq(s, p + 1, findNext(s, p + 1, {"="}) - 1) \in Text
<1> DEFINE X == IDEnd(s, t)
           Y == EndTag(s, t)
           S == Starts(s, t)
           d == ID(s, t)
           o == ReadOption(s, t)
           M == MarksIn(s, o, ";")
           Q == MarksIn(s, o, "=")
<1>1. TagShape(s, t, X, d, Y) /\ StartsIn(s, S, X, Y)
  BY TagPlaced, StartsAre
<1>2. p \in S /\ Cardinality({u \in S : u <= p}) = k
  BY Zenon DEF IsStart
<1>3. PICK e : SignAt(s, S, p, e, Y)
  BY <1>2, SignIs
<1>4. o.from = X + d - 1 /\ o.to = Y - 1
  BY OptionIs
<1>5. M = S \ {X} /\ \A u \in S \ {X} : X + d - 1 <= u
  BY MarksAre
<1>6. Q = {q \in o.from .. o.to : IsEq(s[q])}
  BY Zenon DEF MarksIn, IsEq
<1>7. Element(s, o, 0) = Element(s, o, 0) /\ \A q : Element(s, o, q) = Cardinality({u \in M : u < q}) + 1
  BY Zenon DEF Element
<1>8. d = 2 \/ k > 1
  BY Zenon DEF Unharmed
<1> DEFINE ends == {q \in Q : Element(s, o, q) = k}
           before(n) == {q \in Q \cup M : q < n}
<1>9. Value(s, o, k) = IF ends = {} THEN Null
                       ELSE SubSeq(s, Max(before(Max(ends)) \cup {o.from - 1}) + 1, Max(ends) - 1)
  BY Zenon DEF Value
<1>l. Len(s) \in Nat /\ s \in Seq(Chars)
  BY LenProperties DEF Text
<1> HIDE DEF X, Y, S, d, o, M, Q
<1>10. X \in Nat /\ Y \in Nat /\ d \in Nat \ {0} /\ X < Y /\ Y < Len(s) /\ IsBracket(s[X])
  BY <1>1 DEF TagShape
<1>11. /\ S \subseteq Nat /\ X \in S /\ IsFiniteSet(S)
       /\ \A u \in S : X <= u /\ u < Y /\ (u # X => IsSemi(s[u]))
  BY <1>1 DEF StartsIn
<1>12. /\ e \in Nat /\ p < e /\ e < Y /\ IsEq(s[e])
       /\ \A u \in S : u <= p \/ e < u
       /\ \A q \in Nat : (p < q /\ q < Y /\ IsEq(s[q]) /\ \A u \in S : u < q => u <= p) => q = e
  BY <1>3 DEF SignAt
<1>13. p = X => d = 2
  <2> SUFFICES ASSUME p = X PROVE k = 1
    BY <1>8
  <2>1. {u \in S : u <= p} = {X}
    <3>1. \A u \in S : u <= X <=> u = X
      BY <1>10, <1>11
    <3> QED BY <3>1, <1>11
  <2> QED BY <1>2, <2>1, FS_Singleton
<1>14. p \in Nat /\ X <= p /\ o.from - 1 <= p /\ (p = X => o.from - 1 = p) /\ (p # X => p \in M)
  <2>1. p \in Nat /\ X <= p
    BY <1>2, <1>11
  <2>2. p # X => p \in M /\ X + d - 1 <= p
    BY <1>2, <1>5
  <2> QED BY <1>4, <1>10, <1>13, <2>1, <2>2
<1>15. \A q \in Q : q \in Nat /\ X < q /\ q < Y /\ IsEq(s[q])
  <2> SUFFICES ASSUME NEW q \in Q PROVE q \in Nat /\ X < q /\ q < Y /\ IsEq(s[q])
    OBVIOUS
  <2>1. q \in X + d - 1 .. Y - 1 /\ IsEq(s[q])
    BY <1>4, <1>6
  <2>2. q # X
    BY <1>10, <2>1, Apart
  <2> QED BY <1>10, <2>1, <2>2
<1>16. e \in Q
  <2>1. e \in o.from .. o.to
    BY <1>4, <1>10, <1>12, <1>14
  <2> QED BY <1>6, <1>12, <2>1
<1>17. ends = {e}
  <2>1. ASSUME NEW q \in Q PROVE Element(s, o, q) = k <=> q = e
    <3>1. Cardinality({u \in S \ {X} : u < q}) + 1 = Cardinality({u \in S : u <= p})
            <=> p < q /\ \A u \in S : u < q => u <= p
      BY <1>2, <1>11, <1>15, ElementIs
    <3>2. Element(s, o, q) = k <=> p < q /\ \A u \in S : u < q => u <= p
      BY <1>2, <1>5, <1>7, <3>1
    <3>3. \A u \in S : u < e => u <= p
      BY <1>11, <1>12
    <3> QED BY <1>12, <1>15, <3>2, <3>3
  <2> QED BY <1>16, <2>1
<1> HIDE DEF ends
<1>18. Max(ends) = e
  <2>1. e \in ends /\ e >= e /\ \A n \in ends : n = e
    BY <1>12, <1>17
  <2>2. Max(ends) = CHOOSE n \in ends : \A r \in ends : n >= r
    BY Zenon DEF Max
  <2>3. \A r \in ends : e >= r
    BY <2>1, Zenon
  <2>4. \A n \in ends : (\A r \in ends : n >= r) => n = e
    BY <2>1, Zenon
  <2> QED BY <2>1, <2>2, <2>3, <2>4, Zenon
<1>19. Max(before(e) \cup {o.from - 1}) = p
  <2> DEFINE B == before(e) \cup {o.from - 1}
  <2>1. p \in B
    BY <1>12, <1>14
  <2>2. ASSUME NEW q \in B PROVE q \in Int /\ q <= p
    <3>1. CASE q \in Q /\ q < e
      <4>1. \A u \in S : u < q => u <= p
        BY <3>1, <1>11, <1>12, <1>15
      <4> QED BY <3>1, <4>1, <1>12, <1>14, <1>15
    <3>2. CASE q \in M /\ q < e
      BY <3>2, <1>5, <1>11, <1>12
    <3>3. CASE q = o.from - 1
      BY <3>3, <1>4, <1>10, <1>14
    <3> QED BY <3>1, <3>2, <3>3
  <2> HIDE DEF B
  <2>3. \A q \in B : (\A r \in B : q >= r) => q = p
    BY <2>1, <2>2, <1>14
  <2>4. \A r \in B : p >= r
    BY <2>2, <1>14
  <2>5. Max(B) = CHOOSE q \in B : \A r \in B : q >= r
    BY Zenon DEF Max
  <2>6. Max(B) = p
    BY <2>1, <2>3, <2>4, <2>5, Zenon
  <2> QED BY <2>6 DEF B
<1>20. Value(s, o, k) = SubSeq(s, p + 1, e - 1)
  <2>1. ends # {}
    BY <1>17
  <2> HIDE DEF before
  <2> QED BY <1>9, <1>18, <1>19, <2>1
<1>21. findNext(s, p + 1, {"="}) = e
  <2> DEFINE f == findNext(s, p + 1, {"="})
  <2>1. /\ f \in p + 1 .. Len(s) + 1 /\ \A j \in p + 1 .. f - 1 : s[j] \notin {"="}
        /\ f <= Len(s) => s[f] \in {"="}
    <3>1. p + 1 \in Nat /\ p + 1 <= Len(s) + 1
      BY <1>l, <1>10, <1>12, <1>14
    <3> QED BY <1>l, <3>1, NextIs
  <2> HIDE DEF f
  <2>2. /\ \A j \in p + 1 .. f - 1 : ~IsEq(s[j])
        /\ f <= Len(s) => IsEq(s[f])
    BY <2>1, Zenon DEF IsEq
  <2>3. f <= e
    <3>1. e < f => e \in p + 1 .. f - 1
      BY <1>l, <1>12, <1>14, <2>1
    <3>2. f \in Nat
      BY <1>l, <1>14, <2>1
    <3> QED BY <1>12, <2>2, <3>1, <3>2
  <2>4. f \in Nat /\ p < f /\ f < Y /\ IsEq(s[f])
    BY <1>l, <1>10, <1>12, <1>14, <2>1, <2>2, <2>3
  <2>5. \A u \in S : u < f => u <= p
    BY <1>11, <1>12, <2>3, <2>4
  <2>6. f = e
    BY <1>12, <2>4, <2>5
  <2> QED BY <2>6 DEF f
<1>22. SubSeq(s, p + 1, e - 1) \in Text
  <2>1. p + 1 \in Nat \ {0} /\ e - 1 \in 0 .. Len(s)
    BY <1>l, <1>10, <1>12, <1>14
  <2>2. SubSeq(s, p + 1, e - 1) \in Seq(Chars)
    BY <1>l, <2>1, SubText
  <2> QED BY <2>2 DEF Text
<1> QED BY <1>20, <1>21, <1>22 DEF o

\* A list of one.
LEMMA OneOf ==
  ASSUME NEW S, NEW r \in S
  PROVE  LET f == [o \in 1 .. 1 |-> r] IN f \in Seq(S) /\ Len(f) = 1 /\ ToSet(f) = {r}
<1> DEFINE f == [o \in 1 .. 1 |-> r]
<1>1. f \in Seq(S) /\ DOMAIN f = 1 .. 1 /\ \A o \in DOMAIN f : f[o] = r
  OBVIOUS
<1>2. Len(f) = 1
  BY <1>1
<1>3. ToSet(f) = {f[o] : o \in DOMAIN f}
  BY Zenon DEF ToSet
<1>4. 1 \in DOMAIN f
  BY <1>1
<1> HIDE DEF f
<1>5. ToSet(f) = {r}
  BY <1>1, <1>3, <1>4
<1> QED BY <1>1, <1>2, <1>5 DEF f

\* A tag that fits is read as its author meant it, and fills in as one option does.
LEMMA TagRead ==
  ASSUME NEW s \in Text, NEW t, NEW choice, TagFits(s, t, choice[1])
  PROVE  Chosen(s, choice) = Said(s, choice) /\ OptionsFit(Said(s, choice), s)
<1> DEFINE k == choice[1]
           d == ID(s, t)
           y == EndTag(s, t)
           v == SaidValue(s, t, k)
           r == [id |-> d, value |-> v]
           f == [o \in 1 .. 1 |-> r]
<1>1. /\ Tags(s) = {t} /\ Documented(s, t) /\ (\E p \in Starts(s, t) : IsStart(s, t, k, p))
      /\ Unharmed(s, t, k) /\ Len(v) = d /\ \A z \in DOMAIN s : ~StartsAt(s, z, Zs(d + 1))
  BY Zenon DEF TagFits, Unharmed
<1>2. t \in Tags(s)
  BY <1>1
<1>3. TagShape(s, t, IDEnd(s, t), d, y)
  BY <1>1, <1>2, TagPlaced
<1>4. v = Value(s, ReadOption(s, t), k) /\ v \in Text
  <2> DEFINE p == CHOOSE p \in Starts(s, t) : IsStart(s, t, k, p)
  <2>1. IsStart(s, t, k, p)
    BY <1>1, Zenon
  <2>2. v = SubSeq(s, p + 1, findNext(s, p + 1, {"="}) - 1)
    BY Zenon DEF SaidValue
  <2> HIDE DEF p, v, k
  <2> QED BY <1>1, <1>2, <2>1, <2>2, ValueIs
<1>5. t \in Nat /\ d \in Nat \ {0} /\ y \in Nat /\ t < y /\ y < Len(s) /\ Len(s) \in Nat
  <2>1. Len(s) \in Nat
    BY LenProperties DEF Text
  <2> HIDE DEF d, y
  <2> QED BY <1>3, <2>1 DEF TagShape
<1>6. findNextEndTag(s, t) = y
  <2>1. ~IsSlash(s[t])
    <3>1. s[t] = "["
      BY <1>2, Zenon DEF Tags
    <3>2. "[" # "[/"
      OBVIOUS
    <3> QED BY <3>1, <3>2, Zenon DEF IsSlash
  <2> HIDE DEF d, y
  <2>2. y \in EndTags(s) /\ \A j \in t + 1 .. y - 1 : ~IsSlash(s[j])
    BY <1>3 DEF TagShape
  <2>3. \A j \in t .. y - 1 : j = t \/ j \in t + 1 .. y - 1
    BY <1>5
  <2>4. \A j \in t .. y - 1 : ~IsSlash(s[j])
    BY <2>1, <2>2, <2>3
  <2> QED BY <1>5, <2>2, <2>4, EndFound
<1> HIDE DEF k, d, y, v
<1>7. countTags(s) = 1
  <2>1. {findNextEndTag(s, u) : u \in Tags(s)} = {y}
    BY <1>1, <1>6
  <2>2. {y} \ {Len(s) + 1} = {y}
    BY <1>5
  <2>3. countTags(s) = Cardinality({findNextEndTag(s, u) : u \in Tags(s)} \ {Len(s) + 1})
    BY Zenon DEF countTags
  <2>4. Cardinality({y}) = 1
    BY <1>5, OnlyIsFirst
  <2> QED BY <2>1, <2>2, <2>3, <2>4
<1>8. Nth({t}, 1) = t /\ Cardinality({t}) = 1
  BY <1>5, OnlyIsFirst
<1>9. \A o \in 1 .. 1 : o = 1
  OBVIOUS
<1>10. ReadOptions(s) = [o \in 1 .. 1 |-> ReadOption(s, t)]
  <2> DEFINE q(o) == ReadOption(s, Nth({t}, o))
  <2>1. ReadOptions(s) = [o \in 1 .. 1 |-> q(o)]
    BY <1>1, <1>7, Zenon DEF ReadOptions
  <2>2. \A o \in 1 .. 1 : q(o) = ReadOption(s, t)
    BY <1>8, <1>9, Zenon
  <2> HIDE DEF q
  <2> QED BY <2>1, <2>2
<1>11. Chosen(s, choice) = f
  <2> DEFINE os == ReadOptions(s)
             q(o) == [id |-> os[o].id, value |-> Value(s, os[o], choice[o])]
  <2>1. Chosen(s, choice) = [o \in DOMAIN os |-> q(o)]
    BY Zenon DEF Chosen
  <2>2. DOMAIN os = 1 .. 1 /\ os[1] = ReadOption(s, t)
    BY <1>10
  <2>3. ReadOption(s, t).id = d
    BY <1>1, <1>2, OptionIs DEF d
  <2>4. q(1) = r
    BY <1>4, <2>2, <2>3, Zenon DEF k
  <2>5. \A o \in 1 .. 1 : q(o) = r
    BY <1>9, <2>4, Zenon
  <2> HIDE DEF q, os, r
  <2> QED BY <2>1, <2>2, <2>5
<1>12. Said(s, choice) = f
  <2> DEFINE tags == {u \in Tags(s) : Documented(s, u)}
             q(o) == [id |-> ID(s, Nth(tags, o)), value |-> SaidValue(s, Nth(tags, o), choice[o])]
  <2>1. Said(s, choice) = [o \in 1 .. Cardinality(tags) |-> q(o)]
    BY Zenon DEF Said
  <2>2. tags = {t}
    BY <1>1
  <2>3. q(1) = r
    BY <1>8, <2>2, Zenon DEF k, d, v
  <2>4. \A o \in 1 .. 1 : q(o) = r
    BY <1>9, <2>3, Zenon
  <2>5. Cardinality(tags) = 1
    BY <1>8, <2>2
  <2> HIDE DEF q, tags, r
  <2> QED BY <2>1, <2>4, <2>5
<1>13. OptionsFit(f, s)
  <2> DEFINE S == [id : Nat \ {0}, value : Text]
  <2>1. r \in S /\ r.id = d /\ r.value = v
    BY <1>4, <1>5
  <2> HIDE DEF r, S
  <2>2. f \in Seq(S) /\ Len(f) = 1 /\ ToSet(f) = {r}
    BY <2>1, OneOf
  <2> HIDE DEF f
  <2>3. Len(f) <= 1
    BY <2>2
  <2>4. \A o \in ToSet(f) : Len(o.value) = o.id /\ \A z \in DOMAIN s : ~StartsAt(s, z, Zs(o.id + 1))
    BY <1>1, <2>1, <2>2, Zenon
  <2> QED BY <2>2, <2>3, <2>4, Zenon DEF OptionsFit, S
<1> QED BY <1>11, <1>12, <1>13

\* And so is a text that is plain.
LEMMA PlainRead ==
  ASSUME NEW s \in Text, NEW choice, Plain(s, choice)
  PROVE  Chosen(s, choice) = Said(s, choice) /\ OptionsFit(Said(s, choice), s)
<1>1. Tags(s) = {} \/ EndTags(s) = {} \/ \E t \in Tags(s) : TagFits(s, t, choice[1])
  BY Zenon DEF Plain
<1>2. CASE \E t \in Tags(s) : TagFits(s, t, choice[1])
  BY <1>2, TagRead
<1>3. CASE Tags(s) = {} \/ EndTags(s) = {}
  <2>1. Chosen(s, choice) = <<>> /\ Said(s, choice) = <<>>
    BY <1>3, NoOptions
  <2>2. OptionsFit(<<>>, s)
    <3>1. ToSet(<<>>) = {}
      BY DEF ToSet
    <3>2. <<>> \in Seq([id : Nat \ {0}, value : Text]) /\ Len(<<>>) <= 1
      OBVIOUS
    <3>3. \A o \in ToSet(<<>>) : Len(o.value) = o.id /\ \A z \in DOMAIN s : ~StartsAt(s, z, Zs(o.id + 1))
      BY <3>1
    <3> QED BY <3>2, <3>3, Zenon DEF OptionsFit
  <2> QED BY <2>1, <2>2
<1> QED BY <1>1, <1>2, <1>3

-----------------------------------------------------------------------------
(* What has been exported                                                  *)

\* It is what AppendCode makes of the codes, in order, with the options as they are set.
Out == pc \in {"export", "exported", "lost"}
Exports(i) == \E moved \in BOOLEAN : art[i] = AppendCode(ret[i], Chosen(ret[i].codes, sel[i]), moved)
ExportInv ==
  IF Out THEN \A i \in 1 .. Len(art) : i \in DOMAIN ret /\ Exports(i)
  ELSE art = <<>>

\* Nothing is exported at first.
LEMMA ExportInit == Init => ExportInv
<1> SUFFICES ASSUME Init PROVE ExportInv
  OBVIOUS
<1>1. pc = "list" /\ art = <<>>
  BY DEF Init
<1> QED BY <1>1 DEF ExportInv, Out

\* The options are set before.
LEMMA ExportChoose == ASSUME TypeInv, ExportInv, ChooseOptions PROVE ExportInv'
<1>1. /\ UNCHANGED <<file, entry, readVars, x, art>> /\ pc = "loaded" /\ Len(sel) < Len(ret)
      /\ \E c : sel' \in {sel, Append(sel, c)} /\ pc' \in {"export", "loaded", "lost"}
  BY ChooseIs
<1>2. art' = <<>>
  BY <1>1 DEF ExportInv, Out
<1>3. \A i \in 1 .. Len(art') : FALSE
  BY <1>2
<1> QED BY <1>2, <1>3, Zenon DEF ExportInv

\* Each step of the export adds one code, or ends it.
LEMMA ExportStep == ASSUME TypeInv, ExportInv, Export PROVE ExportInv'
<1>1. pc = "export" /\ Len(art) < Len(ret) /\ ret' = ret /\ sel' = sel
  BY Zenon DEF Export, readVars
<1> DEFINE i == Len(art) + 1
           made(moved) == AppendCode(ret[i], Chosen(ret[i].codes, sel[i]), moved)
<1>2. PICK moved \in BOOLEAN :
        IF ret[i].name = Null
           \/ NeverStripped[ParseOptionsCode(Chosen(ret[i].codes, sel[i]), ret[i].codes, moved)]
        THEN pc' = "lost" /\ art' = art
        ELSE pc' = pc /\ art' = Append(art, made(moved))
  BY Zenon DEF Export
<1>3. \/ pc' = "lost" /\ art' = art
      \/ pc' = "export" /\ art' = Append(art, made(moved))
  BY <1>1, <1>2, Zenon
<1>4. Out /\ Out'
  BY <1>1, <1>3 DEF Out
<1>5. \A k \in 1 .. Len(art) : k \in DOMAIN ret /\ Exports(k)
  BY <1>4, Zenon DEF ExportInv
<1>6. CASE art' = art
  BY <1>1, <1>4, <1>5, <1>6, Zenon DEF ExportInv, Exports
<1>7. CASE art' = Append(art, made(moved))
  <2> DEFINE a == made(moved)
  <2>1. art' = Append(art, a)
    BY <1>7
  <2>2. a = AppendCode(ret[i], Chosen(ret[i].codes, sel[i]), moved)
    OBVIOUS
  <2> HIDE DEF a, made
  <2>3. /\ Len(art) \in Nat /\ Len(art') = i /\ art'[i] = a
        /\ \A k \in 1 .. Len(art) : art'[k] = art[k]
    <3>1. PICK S : art \in Seq(S)
      BY DEF TypeInv
    <3>2. art \in Seq(S \cup {a})
      BY <3>1, SeqMonotonic
    <3> QED BY <2>1, <3>2
  <2>4. DOMAIN ret = 1 .. Len(ret) /\ Len(ret) \in Nat
    BY DEF TypeInv
  <2>5. ASSUME NEW k \in 1 .. Len(art') PROVE k \in DOMAIN ret /\ Exports(k)'
    <3>1. CASE k = i
      <4>1. k \in DOMAIN ret
        BY <1>1, <2>3, <2>4, <3>1
      <4>2. art'[k] = AppendCode(ret'[k], Chosen(ret'[k].codes, sel'[k]), moved)
        BY <1>1, <2>2, <2>3, <3>1
      <4> QED BY <4>1, <4>2, Zenon DEF Exports
    <3>2. CASE k # i
      <4>1. k \in 1 .. Len(art)
        BY <2>3, <3>2
      <4>2. k \in DOMAIN ret /\ Exports(k) /\ art'[k] = art[k]
        BY <4>1, <1>5, <2>3
      <4> QED BY <4>2, <1>1, Zenon DEF Exports
    <3> QED BY <3>1, <3>2
  <2> QED BY <1>1, <1>4, <1>5, <2>5, Zenon DEF ExportInv
<1> QED BY <1>3, <1>6, <1>7, Zenon

\* No other step touches it.
LEMMA ExportNext == TypeInv /\ ExportInv /\ [Next]_vars => ExportInv'
<1> SUFFICES ASSUME TypeInv, ExportInv, [Next]_vars PROVE ExportInv'
  OBVIOUS
<1>1. ASSUME art' = art, ~Out, ~Out' PROVE ExportInv'
  BY <1>1, Zenon DEF ExportInv
<1>2. ASSUME ret' = ret, sel' = sel, art' = art, Out' <=> Out PROVE ExportInv'
  BY <1>2, Zenon DEF ExportInv, Exports
<1>3. CASE UNCHANGED vars
  <2>1. ret' = ret /\ sel' = sel /\ art' = art /\ pc' = pc
    BY <1>3 DEF vars, readVars
  <2>2. Out' <=> Out
    BY <2>1 DEF Out
  <2> QED BY <2>1, <2>2, <1>2
<1>4. CASE ListFile
  <2>1. art' = art /\ pc = "list" /\ pc' = "open"
    BY <1>4, Zenon DEF ListFile
  <2> QED BY <2>1, <1>1 DEF Out
<1>5. CASE Open
  <2>1. art' = art /\ pc = "open" /\ pc' \in {"null", "read"}
    BY <1>5 DEF Open
  <2> QED BY <2>1, <1>1 DEF Out
<1>6. CASE EndCode \/ OpenCode \/ NextLine \/ ReadName \/ ReadMark \/ PassOver \/ ReadCodes
  <2>1. \E chars : Reading(chars)
    BY <1>6, Zenon DEF EndCode, OpenCode, NextLine, ReadName, ReadMark, PassOver, ReadCodes, InCode
  <2>2. art' = art /\ pc = "read" /\ pc' = pc
    BY <2>1, Zenon DEF Reading
  <2> QED BY <2>2, <1>1 DEF Out
<1>7. CASE EndOfFile
  <2>1. art' = art /\ pc = "read" /\ pc' = "loaded"
    BY <1>7 DEF EndOfFile
  <2> QED BY <2>1, <1>1 DEF Out
<1>8. CASE Exported
  <2>1. ret' = ret /\ sel' = sel /\ art' = art /\ pc = "export" /\ pc' = "exported"
    BY <1>8 DEF Exported, readVars
  <2> QED BY <2>1, <1>2 DEF Out
<1> QED BY <1>3, <1>4, <1>5, <1>6, <1>7, <1>8, ExportChoose, ExportStep DEF Next

\* What has been appended is what the file means.
LEMMA ExportHolds == TypeInv /\ ReadAsWritten /\ ExportInv => ExportedAsMeant
<1> SUFFICES ASSUME TypeInv, ReadAsWritten, ExportInv, NEW i \in DOMAIN art,
                    Clean, InForm(i), Plain(ret[i].codes, sel[i])
             PROVE  art[i] = Meant(blocks[i], Said(ret[i].codes, sel[i]))
  BY Zenon DEF ExportedAsMeant
<1>1. i \in 1 .. Len(art) /\ DOMAIN ret = 1 .. code_count /\ code_count \in Nat /\ ret \in Seq(Entries)
  BY DEF TypeInv
<1>2. Out
  <2>1. art = <<>> => FALSE
    BY <1>1
  <2> QED BY <2>1, Zenon DEF ExportInv
<1>3. i \in DOMAIN ret /\ Exports(i)
  BY <1>1, <1>2, Zenon DEF ExportInv
<1>5. Loaded /\ Readable
  <2>1. Loaded
    BY <1>2 DEF Loaded, Out
  <2> QED BY <2>1, Zenon DEF Clean
<1>6. /\ code_count = Len(blocks)
      /\ IF i > Len(blocks) THEN ret[i] = Unread
         ELSE InForm(i) => ret[i] = [name |-> blocks[i].name, cwrite |-> blocks[i].mark = "1",
                                     codes |-> Lined(blocks[i].body, <<"\n">>)]
  BY <1>3, <1>5, Zenon DEF ReadAsWritten
<1>7. ~(i > Len(blocks)) /\ i \in 1 .. Len(blocks)
  BY <1>1, <1>3, <1>6
<1> DEFINE b == blocks[i]
           w == Lined(b.body, <<"\n">>)
           os == Said(ret[i].codes, sel[i])
           F == Filled(w, os)
           c == IF b.mark = "1" THEN "1" ELSE "0"
<1>8. ret[i] = [name |-> b.name, cwrite |-> b.mark = "1", codes |-> w]
  BY <1>6, <1>7, Zenon
<1>9. ret[i].name = b.name /\ ret[i].cwrite = (b.mark = "1") /\ ret[i].codes = w
  BY <1>8
<1>10. ret[i] \in Entries
  <2> HIDE DEF Entries
  <2> QED BY <1>1, <1>3
<1>11. b.name \in Text
  <2>1. file \in Files
    BY DEF TypeInv
  <2>2. blocks \in Seq(Blocks)
    <3> HIDE DEF Blocks
    <3> QED BY <2>1, FileIs
  <2>3. b \in Blocks
    <3> HIDE DEF Blocks
    <3> QED BY <2>2, <1>7
  <2> QED BY <2>3, LineIsText DEF Blocks
<1>12. Chosen(ret[i].codes, sel[i]) = os /\ OptionsFit(os, w) /\ WellWritten(F)
  <2>1. ret[i].codes \in Text
    BY <1>10 DEF Entries
  <2>2. Chosen(ret[i].codes, sel[i]) = os /\ OptionsFit(os, ret[i].codes)
    BY <2>1, PlainRead
  <2>3. WellWritten(Filled(ret[i].codes, os))
    BY Zenon DEF Plain
  <2> QED BY <2>2, <2>3, <1>9
<1> HIDE DEF b, w, os, F
<1>13. PICK moved \in BOOLEAN : art[i] = AppendCode(ret[i], os, moved)
  BY <1>3, <1>12, Zenon DEF Exports
<1> DEFINE code == ret[i]
           h == IF code.cwrite THEN "1" ELSE "0"
<1> HIDE DEF code
<1>14. code \in Entries /\ code.name = b.name /\ code.codes = w /\ art[i] = AppendCode(code, os, moved)
  BY <1>9, <1>10, <1>13 DEF code
<1>15. h = c
  BY <1>9, Zenon DEF code
<1> HIDE DEF h, c
<1>16. F = Filled(code.codes, os)
  BY <1>14 DEF F
<1>17. AppendCode(code, os, moved) = Headed(code.name, h) \o KeptText(Uncommented[F]) \o <<"#", "\n">>
  <2>1. code.name \in Text /\ OptionsFit(os, code.codes) /\ WellWritten(Filled(code.codes, os))
    BY <1>11, <1>12, <1>14, <1>16
  <2> QED BY <2>1, <1>14, <1>16, AppendedIs, Zenon DEF h
<1>18. Meant(b, os) = Headed(b.name, c) \o KeptText(Uncommented[F]) \o <<"#", "\n">>
  BY Zenon DEF Meant, Headed, KeptText, KeptOf, F, c, w
<1>19. art[i] = Meant(b, os)
  BY <1>14, <1>15, <1>17, <1>18
<1> QED BY <1>19 DEF b, os

\* A code that is plain reaches art.txt as the file means it, with the values its own tag
\* holds, for any files in the forms of docs/codes and whatever elements are chosen.
THEOREM AlwaysExportedAsMeant == Spec => []ExportedAsMeant
<1>1. Init => TypeInv /\ ReadInv /\ ExportInv
  BY TypeInit, ReadInit, ExportInit
<1>2. TypeInv /\ ReadInv /\ ExportInv /\ [Next]_vars => (TypeInv /\ ReadInv /\ ExportInv)'
  BY TypeNext, ReadNext, ExportNext
<1>3. TypeInv /\ ReadInv /\ ExportInv => ExportedAsMeant
  BY ReadHolds, ExportHolds
<1> QED BY <1>1, <1>2, <1>3, PTL DEF Spec
=============================================================================
