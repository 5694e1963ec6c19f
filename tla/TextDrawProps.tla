---------------------------- MODULE TextDrawProps ----------------------------
(* What is claimed of the strings on the screen.                           *)
EXTENDS TextDraw

\* The characters of a string: each begins with a byte that does not continue one.
\* Spelled says it of the first j bytes.
Spelled(s) ==
  LET upTo[j \in 0 .. Len(s)] ==
        IF j = 0 THEN <<>>
        ELSE IF s[j] \in Continues THEN upTo[j - 1]
        ELSE Append(upTo[j - 1], SubSeq(s, j, j + Taken(s[j]) - 1))
  IN  upTo
CharsOf(s) == Spelled(s)[Len(s)]

\* Slots and buffer are what they should be, no character has two slots, and none has
\* one of the slots of the ASCII characters.
TypeOK ==
  /\ way \in Ways /\ text \in Screens[screen].texts[way] \cup {<<>>} /\ pass \in {1, 2}
  /\ mem \in Seq(Bytes) /\ Last(mem) = NUL
  /\ p \in 1 .. Len(mem) + 4 /\ r_use \in 0 .. flips
  /\ \A s \in DOMAIN data : data[s].drawn => data[s].picture = data[s].ttf /\ data[s].ttf # None
  /\ data[0].ttf \in {None} \cup {<<c>> : c \in ASCII}
  /\ \A i, j \in Pool : data[i].ttf = data[j].ttf /\ i # j => data[i].ttf = None

\* A picture of the cache that the RSX has yet to read stays in its slot until the frame
\* is flipped, whatever is drawn after it and whatever fails to be, if a frame does not
\* ask for more characters than there are slots (display_ttf_string, reset_ttf_frame).
KeptInFrame ==
  LET asked == {f[2] : f \in {g \in frame : g[2] # <<"a">>}}
  IN  Cardinality(asked) <= Slots =>
        \A f \in frame : f[1] # -1 => data[f[1]].picture = f[2]

\* A string that is well formed is never read behind its buffer, although the header
\* cuts characters in the middle and utf8_decode steps over the NUL it puts there.
InBuffer == pc = "undefined" => ~utf8_is_valid(text)

\* Whether a character has a picture to draw: one of the fonts has it, and it is no blank;
\* DrawUTF8String makes none of ASCII.
HasPicture(char) ==
  /\ char # <<Blank>> /\ \E i \in Fonts : char \in TTFLoadFont(i)
  /\ way = "list" => char \notin {<<c>> : c \in ASCII}

\* What is asked to be drawn of a well-formed string are its characters, whole and in
\* order: as many as there is room for, and one more than none in the list.  The decoders
\* that cut it, byte by byte or not, and the ones that draw it come to the same.  Of these
\* the RSX gets a picture of each that has one, whether it is made or in the cache.
CutAsFits ==
  LET chars == CharsOf(text)
      fits == {n \in 0 .. Len(chars) : Width(SubSeq(chars, 1, n)) <= Room}
      least == IF way = "list" /\ chars # <<>> THEN {1} ELSE {}
  IN  pc = "draw" /\ pass = 2 /\ AtEnd /\ utf8_is_valid(text) =>
        /\ sent = IF way = "plain" THEN chars ELSE SubSeq(chars, 1, Max(fits \cup least))
        /\ drawn = {n \in DOMAIN sent : HasPicture(sent[n])}

\* Every string asked for is drawn in the end: no loop that cuts one goes on for ever,
\* well formed or not, as long as it is read within its buffer.
EveryTextDrawn == (pc # "idle") ~> (pc \in {"idle", "undefined"})
=============================================================================
