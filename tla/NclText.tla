------------------------------- MODULE NclText -------------------------------
(***************************************************************************)
(* The text helpers of the GUI's code lists (ArtemisPS3-GUI/src/codes.c).  *)
(* A text is a sequence of characters; of those the code tells apart, the  *)
(* pairs that open and close a comment count as one ("/*" and "*/"), and so *)
(* does what opens an end tag ("[/"): texts where two such pairs share a   *)
(* character are left out.  "\n" and "\r" are the line ends.  "0", "1", "2" *)
(* stand for the hex digits, "." for what only a float may hold, "g" for   *)
(* any other letter.                                                       *)
(***************************************************************************)
EXTENDS Integers, SequencesExt

Hex == {"0", "1", "2", " ", "\r", "\n"}
Chars == Hex \cup {".", "g", "#", "}", "{", "Z", "[", "]", "[/", "=", ";", "/*", "*/"}
Text == Seq(Chars)

\* A pointer that memset has left NULL.
Null == <<"NULL">>

\* Index of the first of the given characters from x on, else behind the end.
findNext(s, x, stop) ==
  LET at == {i \in x .. Len(s) : s[i] \in stop}
  IN  IF at = {} THEN Len(s) + 1 ELSE Min(at)
findNextLine(s, x) == findNext(s, x, {"\n"})
findNextBreak(s, x) == findNext(s, x, {"#", "}"})

CountOf(s, chars) == Cardinality({i \in DOMAIN s : s[i] \in chars})
At(s, i) == IF i \in DOMAIN s THEN s[i] ELSE "end"

\* readFileBuffered drops "\r" and repeated "\n".  The byte behind the buffer,
\* which nobody has set, is looked at too: a "\n" there costs the last one here.
readFileBuffered(file, behind) ==
  LET all == file \o behind
      keeps(i) == file[i] # "\r" /\ (file[i] = "\n" =>
                                      At(all, findNext(all, i + 1, Chars \ {"\r"})) # "\n")
  IN  FlattenSeq([i \in DOMAIN file |-> IF keeps(i) THEN <<file[i]>> ELSE <<>>])

-----------------------------------------------------------------------------
(* Options                                                                 *)

Zs(id) == [i \in 1 .. id |-> "Z"]
StartsAt(s, i, sub) == i + Len(sub) - 1 <= Len(s) /\ SubSeq(s, i, i + Len(sub) - 1) = sub
Strstr(s, x, sub) == {i \in x .. Len(s) : StartsAt(s, i, sub)}

\* replace_str_count counts the runs of exactly id letters Z.
replace_str_count(s, id) ==
  Cardinality({i \in 1 .. Len(s) :
    At(s, i - 1) # "Z" /\ StartsAt(s, i, Zs(id)) /\ At(s, i + id) # "Z"})

\* The sprintf that puts rep in place of the id letters at p reads the rest of the
\* very buffer it writes.  If rep is the longer one, what the C library makes of
\* that is its own affair: the rest is moved first, or read when rep lies over it.
Spliced(s, p, id, rep, moved) ==
  LET head == SubSeq(s, 1, p - 1) \o rep
      left == Len(s) - (p + id) + 1
      over == head \o SubSeq(s, p + Len(rep), Len(s))
  IN  head \o (IF moved \/ Len(rep) <= id THEN SubSeq(s, p + id, Len(s))
               ELSE SubSeq(over, p + id, p + id + left - 1))

\* replace_str_id: the letter looked at behind a match is as far away as the
\* replacement is long, and so is the place the search goes on from.
replace_str_id(str, id, rep, moved) ==
  LET from[at \in (Nat \ {0}) \X Text] ==
        LET n == at[1]
            s == at[2]
            found == Strstr(s, n, Zs(id)) IN
        IF n > Len(s) \/ found = {} THEN s
        ELSE LET p == Min(found)
             IN  from[<<p + Len(rep),
                        IF At(s, p + Len(rep)) # "Z" THEN Spliced(s, p, id, rep, moved) ELSE s>>]
  IN  IF replace_str_count(str, id) = 0 THEN str ELSE from[<<1, str>>]

\* ParseOptionsCode: options, a sequence of [id, value], one after another; one without
\* a value is left alone.
ParseOptionsCode(options, str, moved) ==
  LET text[k \in 0 .. Len(options)] ==
        IF k = 0 THEN str
        ELSE IF options[k].value = Null THEN text[k - 1]
        ELSE replace_str_id(text[k - 1], options[k].id, options[k].value, moved)
  IN  text[Len(options)]

\* The places of the tags, "[Z", and of the end tags, "[/Z".
Tags(s) == {t \in DOMAIN s : s[t] = "[" /\ At(s, t + 1) = "Z"}
EndTags(s) == {e \in DOMAIN s : s[e] = "[/" /\ At(s, e + 1) = "Z"}
findNextEndTag(s, x) ==
  LET at == {e \in EndTags(s) : e >= x} IN IF at = {} THEN Len(s) + 1 ELSE Min(at)
Nth(places, n) == CHOOSE p \in places : Cardinality({q \in places : q <= p}) = n

\* countTags counts the end tags that are the next behind a tag.
countTags(s) == Cardinality({findNextEndTag(s, t) : t \in Tags(s)} \ {Len(s) + 1})

\* Mutated: the text of a tag is read from its "]" on.
ReadOption_FromBracket(s, t) ==
  LET x == findNext(s, t + 1, Chars \ {"Z"})
  IN  [id |-> x - (t + 1), from |-> x, to |-> findNextEndTag(s, x) - 1]

\* ReadOptions takes as many tags, from the first on.  The text of one begins, not
\* behind its "]", but as far on from the last Z of its ID as the ID is long.
ReadOption(s, t) ==
  LET x == findNext(s, t + 1, Chars \ {"Z"})
      id == x - (t + 1)
  IN  [id |-> id, from |-> x + id - 1, to |-> findNextEndTag(s, x) - 1]
ReadOptions(s) == [o \in 1 .. countTags(s) |-> ReadOption(s, Nth(Tags(s), o))]

\* ReadOptionFromLine: the text in elements that end in ";", each with a value and a name
\* behind its last "=".  There is room for as many elements as there are marks "=".
MarksIn(s, option, mark) == {p \in option.from .. option.to : s[p] = mark}
Element(s, option, p) == Cardinality({q \in MarksIn(s, option, ";") : q < p}) + 1
size(s, option) == Cardinality(MarksIn(s, option, "="))
Value(s, option, k) ==
  LET ends == {p \in MarksIn(s, option, "=") : Element(s, option, p) = k}
      before(e) == {p \in MarksIn(s, option, "=") \cup MarksIn(s, option, ";") : p < e}
  IN  IF ends = {} THEN Null
      ELSE SubSeq(s, Max(before(Max(ends)) \cup {option.from - 1}) + 1, Max(ends) - 1)

\* A text that ends before it begins has no memory; and names and values are written
\* behind what there is room for, or read there if there is none.
NoLine(option) == option.to < option.from - 1
Overruns(s, option) ==
  \/ size(s, option) = 0
  \/ \E p \in option.from .. option.to :
       /\ s[p] \in {"=", ";"} \/ p = option.to
       /\ Element(s, option, p) > size(s, option)

-----------------------------------------------------------------------------
(* Comments and lines                                                      *)

\* StripMultilineComments takes the first "*/" of the buffer for the end of the
\* first "/*".  If it lies before it, the text grows with every round of the loop.
RunsOn(s) == "/*" \in ToSet(s) /\ findNext(s, 1, {"*/"}) < findNext(s, 1, {"/*"})

StripMultilineComments[s \in Text] ==
  IF "/*" \notin ToSet(s) \/ RunsOn(s) THEN s
  ELSE StripMultilineComments[SubSeq(s, 1, findNext(s, 1, {"/*"}) - 1)
                              \o SubSeq(s, findNext(s, 1, {"*/"}) + 1, Len(s))]

\* Whether one of its rounds meets such a pair.
NeverStripped[s \in Text] ==
  /\ "/*" \in ToSet(s)
  /\ \/ RunsOn(s)
     \/ NeverStripped[SubSeq(s, 1, findNext(s, 1, {"/*"}) - 1)
                      \o SubSeq(s, findNext(s, 1, {"*/"}) + 1, Len(s))]

\* The kind of a line is its first character, if a blank follows.
LineKind(line) == IF At(line, 2) = " " THEN At(line, 1) ELSE "0"

\* Mutated: a line of text is a line like another.
isCodeLineValid_NoText(line) ==
  CountOf(line, {" "}) = 2 /\ ToSet(line) \subseteq Hex \cup {"."}

\* isCodeLineValid of the GUI: 1 or 0, as it never gets to return 2.
isCodeLineValid(line) ==
  CASE LineKind(line) = "1" ->
         /\ CountOf(line, {" "}) >= 2
         /\ \A z \in DOMAIN line : CountOf(SubSeq(line, 1, z), {" "}) >= 2 \/ line[z] \in Hex
    [] LineKind(line) = "2" ->
         CountOf(line, {" "}) = 2 /\ ToSet(line) \subseteq Hex \cup {"."}
    [] OTHER -> CountOf(line, {" "}) = 2 /\ ToSet(line) \subseteq Hex

\* ShrinkCode, behind the comments: ended lines of more than two characters are
\* dropped if they are no codes; the last line, if nothing ends it, is not looked at.
ShrinkLines[s \in Text] ==
  LET e == findNextLine(s, 1) IN
  IF e > Len(s) THEN s
  ELSE (IF e - 1 > 2 /\ ~isCodeLineValid(SubSeq(s, 1, e - 1)) THEN <<>> ELSE SubSeq(s, 1, e))
       \o ShrinkLines[SubSeq(s, e + 1, Len(s))]

ShrinkCode(s) == ShrinkLines[StripMultilineComments[s]]

\* AppendCode: the text of one code in art.txt.
AppendCode(code, options, moved) ==
  LET text == code.name \o <<"\n", IF code.cwrite THEN "1" ELSE "0", "\n">>
              \o ShrinkCode(ParseOptionsCode(options, code.codes, moved))
  IN  text \o (IF Last(text) = "\n" THEN <<"#", "\n">> ELSE <<"\n", "#", "\n">>)
=============================================================================
