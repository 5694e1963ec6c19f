---------------------------- MODULE NclPathProps ----------------------------
(* What the way of a code list through the GUI keeps of it.                *)
EXTENDS NclPath

\* The lines of a text, without their ends.
LinesOf[s \in Text] ==
  LET e == findNextLine(s, 1)
  IN  IF s = <<>> THEN <<>>
      ELSE <<SubSeq(s, 1, e - 1)>> \o LinesOf[SubSeq(s, e + 1, Len(s))]

\* A text without its comments; one that is not closed goes to the end.
Uncommented[s \in Text] ==
  LET open == findNext(s, 1, {"/*"})
  IN  IF open > Len(s) THEN s
      ELSE SubSeq(s, 1, open - 1)
           \o Uncommented[SubSeq(s, findNext(s, open, {"*/"}) + 1, Len(s))]

\* No comment closes before it opens.
WellCommented(s) ==
  \A j \in DOMAIN s :
    s[j] = "*/" => \E i \in 1 .. j - 1 : s[i] = "/*" /\ \A k \in i .. j - 1 : s[k] # "*/"

\* A text whose runs of Z as long as a tag have given way to the tag's value.
Filled(s, options) ==
  LET ends(i) == findNext(s, i, Chars \ {"Z"})
      at[i \in 1 .. Len(s) + 1] ==
        IF i > Len(s) THEN <<>>
        ELSE IF s[i] # "Z" THEN <<s[i]>> \o at[i + 1]
        ELSE LET mine == {o \in ToSet(options) : o.id = ends(i) - i} IN
             (IF mine = {} THEN SubSeq(s, i, ends(i) - 1) ELSE (CHOOSE o \in mine : TRUE).value)
             \o at[ends(i)]
  IN  at[1]

\* isCodeLineValid of the plugin (ArtemisPS3-PRX/main.c), which looks at each
\* line again before it runs it: three words, of which a line of text may have more.
PluginTakes(line) ==
  LET blanks == CountOf(line, {" "})
      checked == {z \in DOMAIN line :
                    LineKind(line) = "1" => CountOf(SubSeq(line, 1, z), {" "}) < 2}
      float == IF LineKind(line) = "2" THEN {"."} ELSE {}
  IN  /\ IF LineKind(line) = "1" THEN blanks >= 2 ELSE blanks = 2
      /\ \A z \in checked : line[z] \in Hex \cup float

\* The lines that go to the plugin: those it takes, and those that mark something.
Goes(line) == Len(line) <= 2 \/ PluginTakes(line)

\* What the plugin is to be given for a code of the file.
Meant(b, options) ==
  LET lines == LinesOf[Uncommented[Filled(Lined(b.body, <<"\n">>), options)]]
  IN  b.name \o <<"\n", IF b.mark = "1" THEN "1" ELSE "0", "\n">>
      \o FlattenSeq([k \in DOMAIN lines |-> IF Goes(lines[k]) THEN Append(lines[k], "\n") ELSE <<>>])
      \o <<"#", "\n">>

\* A file keeps the reader's marks out of its bodies, and does not begin a name with
\* one; or out of its names, too.
Unmarked(lines) == \A l \in ToSet(lines) : ToSet(l) \cap Marks = {}
Readable == \A i \in DOMAIN blocks : blocks[i].name[1] \notin Marks /\ Unmarked(blocks[i].body)
Clean == Readable /\ Unmarked([i \in DOMAIN blocks |-> blocks[i].name])

\* The i-th code of the file is not of the newer form behind one of the older.
InForm(i) == blocks[i].old \/ i = 1 \/ ~blocks[i - 1].old

Loaded == pc \in {"loaded", "export", "exported", "lost"}

-----------------------------------------------------------------------------
(* Tags as docs/INSTALLATION.md:49-56 has them                             *)

\* "A tag begin with brackets that surround an ID ([Z])", a "collection of capital
\* Z's"; then "the elements", "separated by semicolons", and the ID again, with a slash.
IDEnd(s, t) == findNext(s, t + 1, Chars \ {"Z"})
ID(s, t) == IDEnd(s, t) - (t + 1)
EndTag(s, t) == findNext(s, t + 1, {"[/"})

\* What the elements of a tag begin behind, and where the element behind p ends.
Starts(s, t) == {IDEnd(s, t)} \cup {p \in IDEnd(s, t) .. EndTag(s, t) : s[p] = ";"}
ElementEnd(s, p) == findNext(s, p + 1, {";", "[/"})

\* "Each element begins with the value that the option represents, an equal sign (=), and
\* the name of the option"; there is no other such sign, and no tag within a tag.
Documented(s, t) ==
  /\ At(s, IDEnd(s, t)) = "]" /\ At(s, EndTag(s, t)) = "[/"
  /\ Tags(s) \cap (IDEnd(s, t) .. EndTag(s, t)) = {}
  /\ At(s, EndTag(s, t) + ID(s, t) + 1) = "]"
  /\ \A z \in 1 .. ID(s, t) : s[EndTag(s, t) + z] = "Z"
  /\ \A p \in Starts(s, t) :
       \E e \in p + 1 .. ElementEnd(s, p) - 1 : {q \in p + 1 .. ElementEnd(s, p) - 1 : s[q] = "="} = {e}

\* The start of the k-th element, and its value.
IsStart(s, t, k, p) == p \in Starts(s, t) /\ Cardinality({q \in Starts(s, t) : q <= p}) = k
SaidValue(s, t, k) ==
  LET p == CHOOSE p \in Starts(s, t) : IsStart(s, t, k, p)
  IN  SubSeq(s, p + 1, findNext(s, p + 1, {"="}) - 1)

\* The options a text means its tags to be, set to the elements chosen.
Said(s, choice) ==
  LET tags == {t \in Tags(s) : Documented(s, t)}
  IN  [o \in 1 .. Cardinality(tags) |->
         [id |-> ID(s, Nth(tags, o)), value |-> SaidValue(s, Nth(tags, o), choice[o])]]
WellTagged(s) == \A t \in Tags(s) : Documented(s, t)

-----------------------------------------------------------------------------

\* The words the loop of parseVTID_ParseVersion stops in, and those that are a version as a
\* whole.  The words with a title id in them, and those that are one.
VersionAt(w, k) == Fits(w, k, Dotted) \/ (k = 1 /\ Fits(w, 1, Lettered))
HasVersion(w) == \E k \in DOMAIN w : VersionAt(w, k)
IsVersion(w) == Len(w) \in {5, 6} /\ VersionAt(w, 1)
HasTitleID(w) == \E k \in DOMAIN w : Fits(w, k, TitleIDKinds)
IsTitleID(w) == Len(w) = 9 /\ Fits(w, 1, TitleIDKinds)

\* The state of the reader stays within the file and the table.
TypeOK ==
  /\ pc \in {"list", "open", "null", "read", "loaded", "export", "exported", "lost"}
  /\ Len(ret) = code_count /\ cur_count \in 0 .. code_count /\ cur_line \in -1 .. Len(buffer)
  /\ load_old_format \in BOOLEAN /\ x \in 1 .. Len(buffer) + 2
  /\ \A i \in DOMAIN ret : ret[i] \in [name : Text \cup {Null}, cwrite : BOOLEAN, codes : Text]
  /\ Len(art) <= code_count /\ Len(sel) <= code_count

\* ReadNCL finds in a file what was written there, in whatever way its lines end
\* and in either form: each code with its name, its mark and its lines, at its
\* place, but for a code of the newer form behind one of the older, whose name
\* and mark it takes for each other.  A "#" within a name makes the table longer
\* than the file has codes, but moves none of them: behind them nothing is read.
ReadAsWritten ==
  Loaded /\ Readable =>
    /\ Len(blocks) <= code_count /\ (Clean => code_count = Len(blocks))
    /\ \A i \in DOMAIN ret :
         IF i > Len(blocks) THEN ret[i] = Unread
         ELSE InForm(i) => ret[i] = [name |-> blocks[i].name, cwrite |-> blocks[i].mark = "1",
                                     codes |-> Lined(blocks[i].body, <<"\n">>)]

\* The words of a file name are dealt out, and none is lost or cut: the first
\* version and the first title id go to the fields of the game, in whatever order
\* they stand, and the other words stay the name.  Only where the first word with a
\* version in it is more than the version, or so with a title id, is a word taken apart.
SplitAsNamed ==
  LET w == file.words
      versions == {i \in DOMAIN w : HasVersion(w[i])}
      ids == {i \in DOMAIN w : HasTitleID(w[i])}
      First(is) == IF is = {} THEN {} ELSE {Min(is)}
      taken == First(versions) \cup First(ids)
  IN  /\ entry # None
      /\ \A i \in First(versions) : IsVersion(w[i])
      /\ \A i \in First(ids) : IsTitleID(w[i])
      =>
      /\ entry.version = (IF versions = {} THEN None ELSE w[Min(versions)])
      /\ entry.title_id = (IF ids = {} THEN None ELSE w[Min(ids)])
      /\ WordsOf(entry.name)
           = FlattenSeq([i \in DOMAIN w |-> IF i \in taken THEN <<>> ELSE <<w[i]>>])

\* The comments of a text are in order, and what one that is not closed leaves of its line
\* is a line that goes.
WellWritten(s) ==
  LET text == Uncommented[s]
  IN  WellCommented(s) /\ (text # <<>> => Last(text) = "\n" \/ Goes(Last(LinesOf[text])))

\* A code of a text without tags, or with one that ends and is read right: its ID is two
\* letters Z, or another element than the first is chosen and starts behind what is
\* passed over.  No letters Z are more, the value is as long as the ID, and the text
\* with the value filled in is well written.
TagFits(s, t, k) ==
  /\ Tags(s) = {t} /\ Documented(s, t)
  /\ \E p \in Starts(s, t) : IsStart(s, t, k, p)
  /\ ID(s, t) = 2 \/ (k > 1 /\ \A p \in IDEnd(s, t) + 1 .. IDEnd(s, t) + ID(s, t) - 2 : s[p] # ";")
  /\ Len(SaidValue(s, t, k)) = ID(s, t)
  /\ \A z \in DOMAIN s : ~StartsAt(s, z, Zs(ID(s, t) + 1))
Plain(s, choice) ==
  /\ Tags(s) = {} \/ EndTags(s) = {} \/ \E t \in Tags(s) : TagFits(s, t, choice[1])
  /\ WellWritten(Filled(s, Said(s, choice)))

\* What reaches art.txt of such a code is what the file means: the name, the mark, and
\* exactly the lines the plugin will run, with the value the tag gives to the element
\* the player chose filled in, and the comments gone.
ExportedAsMeant ==
  \A i \in DOMAIN art :
    Clean /\ InForm(i) /\ Plain(ret[i].codes, sel[i])
    => art[i] = Meant(blocks[i], Said(ret[i].codes, sel[i]))

\* docs/INSTALLATION.md:51: "For instance, a tag such as [ZZZZ] has an ID of ZZZZ": a
\* value is the text behind the brackets, whatever the ID.
ValuesAsWritten ==
  \A i \in DOMAIN sel :
    LET s == ret[i].codes IN WellTagged(s) => Chosen(s, sel[i]) = Said(s, sel[i])

\* docs/INSTALLATION.md:57: "simply put the ID of the tag anywhere in the code
\* you'd like": whatever the values are read as, if none is longer than its tag.
TagsAsMeant ==
  \A i \in DOMAIN art :
    LET options == Chosen(ret[i].codes, sel[i])
    IN  /\ Clean /\ InForm(i) /\ WellTagged(ret[i].codes)
        /\ options = Said(ret[i].codes, sel[i])
        /\ \A o \in ToSet(options) : Len(o.value) <= o.id
        /\ WellWritten(Filled(ret[i].codes, options))
        => art[i] = Meant(blocks[i], options)
=============================================================================
