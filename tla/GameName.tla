------------------------------ MODULE GameName ------------------------------
(***************************************************************************)
(* The name of a list of codes, taken apart: ReadUserList makes of a file  *)
(* name the name, the version and the title id of a game (codes.c).  "g"   *)
(* stands for any letter but "v", "0" for any digit.                       *)
(***************************************************************************)
EXTENDS Integers, SequencesExt

Letters == {"g", "v"}
Digits == {"0"}
None == <<>>
Extension == <<".", "g", "g", "g">>

\* The last "." ends the name, unless it is the first character.
stripExt(filename) ==
  LET dots == {i \in 2 .. Len(filename) : filename[i] = "."}
  IN  IF dots = {} THEN filename ELSE SubSeq(filename, 1, Max(dots) - 1)

\* Whether the characters of s from i on are of the given kinds, one by one.
Fits(s, i, kinds) ==
  i + Len(kinds) - 1 <= Len(s) /\ \A k \in DOMAIN kinds : s[i + k - 1] \in kinds[k]
Cut(s, off, n) == SubSeq(s, 1, off - 1) \o SubSeq(s, off + n, Len(s))

\* Where a version begins: "v" and a digit at the front or behind a blank, or
\* two digits, a dot and two digits wherever they are; the first such place.
\* At no such place the loop ends short of the end, with too short a version.
Lettered == <<{"v"}, Digits>>
BlankLettered == <<{" "}, {"v"}, Digits>>
Dotted == <<Digits, Digits, {"."}, Digits, Digits>>
VersionFrom(text, i) ==
  CASE i = 1 /\ Fits(text, i, Lettered) -> i
    [] Fits(text, i, BlankLettered) -> i + 1
    [] Fits(text, i, Dotted) -> i
    [] OTHER -> 0

parseVTID_ParseVersion(text) ==
  LET hits == {i \in 1 .. Len(text) - 2 : VersionFrom(text, i) > 0}
      off == IF hits = {} THEN Len(text) - 1 ELSE VersionFrom(text, Min(hits))
      blanks == {i \in off + 1 .. Len(text) : text[i] = " "}
  IN  [off |-> off, length |-> (IF blanks = {} THEN Len(text) + 1 ELSE Min(blanks)) - (off + 1)]

TitleIDKinds == [k \in 1 .. 9 |-> IF k <= 4 THEN Letters ELSE Digits]

\* The offset of four letters and five digits, or 0.
parseVTID_ParseTitleID(text) ==
  LET hits == {i \in 1 .. Len(text) - 8 : Fits(text, i, TitleIDKinds)}
  IN  IF hits = {} THEN 0 ELSE Min(hits)

\* A version of four or five characters behind its first goes, with the blank
\* behind it, and then the title id goes in the same way.
Entry(name) ==
  LET v == parseVTID_ParseVersion(name)
      taken == v.length \in {4, 5}
      left == IF taken THEN Cut(name, v.off, v.length + 2) ELSE name
      t == parseVTID_ParseTitleID(left)
  IN  [name |-> IF t = 0 THEN left ELSE Cut(left, t, 10),
       version |-> IF taken THEN SubSeq(name, v.off, v.off + v.length) ELSE None,
       title_id |-> IF t = 0 THEN None ELSE SubSeq(left, t, t + 8)]

\* Mutated: the version's last character stays in the name.
parseVTID_CutsShort(filename) ==
  LET name == stripExt(filename)
      v == parseVTID_ParseVersion(name)
  IN  IF v.length \in {4, 5}
      THEN [Entry(Cut(name, v.off, v.length)) EXCEPT !.version = Entry(name).version]
      ELSE Entry(name)

parseVTID(filename) == Entry(stripExt(filename))

-----------------------------------------------------------------------------

\* Names are made of words and blanks.
Spaced(words) ==
  FlattenSeq([i \in DOMAIN words |-> IF i = 1 THEN words[i] ELSE <<" ">> \o words[i]])
WordEnd(s, i) == LET blanks == {j \in i .. Len(s) : s[j] = " "}
                 IN  IF blanks = {} THEN Len(s) + 1 ELSE Min(blanks)
WordsOf(s) ==
  LET word[i \in Nat] == IF i > Len(s) THEN <<>>
                         ELSE IF s[i] = " " THEN word[i + 1]
                         ELSE <<SubSeq(s, i, WordEnd(s, i) - 1)>> \o word[WordEnd(s, i)]
  IN  word[1]
=============================================================================
