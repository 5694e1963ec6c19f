------------------------------- MODULE NclPath -------------------------------
(***************************************************************************)
(* The way of a code list through the GUI: the file that ReadNCL takes     *)
(* apart character by character (codes.c), the options of its codes, and   *)
(* the text AppendCode makes of each for the plugin.                       *)
(*                                                                         *)
(* The file is the one its author meant to write: its blocks say what it   *)
(* holds, in one or both of the two forms the reader knows.                *)
(***************************************************************************)
EXTENDS NclText, GameName

CONSTANTS
  Files,     \* the files: the words of their names, the codes they hold, and how
             \* their lines end, "\n", "\r" "\n", or with a blank line
  Behind     \* what may lie behind the buffer of the file: <<>> or a character

\* A line, the marks of the two forms, and what ends a line.
Ends == {<<"\n">>, <<"\r", "\n">>, <<"\n", "\r", "\n">>}
Lines == Seq(Chars \ {"\n", "\r"}) \ {<<>>}
Marks == {"#", "}", "{"}

NameChars == Letters \cup Digits \cup {"."}
Word == Seq(NameChars) \ {<<>>}

ASSUME NamesAssumption == \A f \in Files : f.words \in Seq(Word) \ {<<>>}
ASSUME FilesAssumption ==
  \A f \in Files :
    /\ f.eol \in Ends
    /\ f.blocks \in Seq([old : BOOLEAN, name : Lines, mark : Chars \ (Marks \cup {"\n", "\r"}),
                          body : Seq(Lines)])
ASSUME TextsAssumption == \A b \in Behind : b \in Text /\ Len(b) <= 1

VARIABLES
  file,              \* the file: its name, what it holds, how its lines end
  entry,             \* the game ReadUserList lists for it
  buffer, x,         \* the text read, and the character ReadNCL is at
  code_count, cur_count, cur_line, load_old_format,
  ret,               \* the code table: ret[i] as in C, from 1 on
  sel,               \* the elements the options of each code are set to, from 1 on
  art,               \* what AppendCode has made of each code
  pc

readVars == <<buffer, code_count, cur_count, cur_line, load_old_format, ret>>
vars == <<file, entry, readVars, x, sel, art, pc>>

blocks == file.blocks
eol == file.eol

\* The lines of a code in the forms of docs/codes, the older one between braces, and
\* the text of a list.
Written(b) ==
  IF b.old THEN <<<<"{">>, <<b.mark>>, b.name>> \o b.body \o <<<<"}">>>>
  ELSE <<b.name, <<b.mark>>>> \o b.body \o <<<<"#">>>>
Lined(l, e) == FlattenSeq([i \in DOMAIN l |-> l[i] \o e])
FileText == Lined(FlattenSeq([i \in DOMAIN blocks |-> Written(blocks[i])]), eol)

\* An entry as memset leaves it: the name is NULL, and so is the text.
Unread == [name |-> Null, cwrite |-> FALSE, codes |-> <<>>]

Init ==
  /\ file \in Files /\ entry = None
  /\ buffer = <<>> /\ x = 1
  /\ code_count = 0 /\ cur_count = 0 /\ cur_line = 0 /\ load_old_format = FALSE
  /\ ret = <<>> /\ sel = <<>> /\ art = <<>> /\ pc = "list"

-----------------------------------------------------------------------------
(* ReadUserList, and ReadNCL once the game is opened                       *)

ListFile ==
  /\ pc = "list"
  /\ entry' = parseVTID(Spaced(file.words) \o Extension)
  /\ pc' = "open"
  /\ UNCHANGED <<file, readVars, x, sel, art>>

\* An empty file, or one without an end of a code, makes NULL.
Open ==
  /\ pc = "open"
  /\ \E behind \in Behind : buffer' = readFileBuffered(FileText, behind)
  /\ code_count' = CountOf(buffer', {"#", "}"})
  /\ ret' = [i \in 1 .. code_count' |-> Unread]
  /\ pc' = IF code_count' = 0 THEN "null" ELSE "read"
  /\ UNCHANGED <<file, entry, x, cur_count, cur_line, load_old_format, sel, art>>

Reading(chars) ==
  /\ pc = "read" /\ cur_count < code_count /\ x <= Len(buffer)
  /\ buffer[x] \in chars
  /\ UNCHANGED <<file, entry, buffer, code_count, sel, art, pc>>

\* Mutated: the rest of the line is read as the next code.
EndCode_StaysInLine ==
  /\ Reading({"#", "}"})
  /\ cur_count' = cur_count + 1 /\ cur_line' = 0
  /\ load_old_format' = (buffer[x] = "}")
  /\ x' = x + 1
  /\ UNCHANGED ret

\* Mutated: one character of the next line is passed over.
EndCode_GoesTooFar ==
  /\ Reading({"#", "}"})
  /\ cur_count' = cur_count + 1 /\ cur_line' = 0
  /\ load_old_format' = (buffer[x] = "}")
  /\ x' = findNextLine(buffer, x) + 2
  /\ UNCHANGED ret

\* The rest of the line is passed over, its end too.
EndCode ==
  /\ Reading({"#", "}"})
  /\ cur_count' = cur_count + 1 /\ cur_line' = 0
  /\ load_old_format' = (buffer[x] = "}")
  /\ x' = findNextLine(buffer, x) + 1
  /\ UNCHANGED ret

OpenCode ==
  /\ Reading({"{"})
  /\ cur_line' = -1 /\ load_old_format' = TRUE
  /\ x' = x + 1
  /\ UNCHANGED <<cur_count, ret>>

NextLine ==
  /\ Reading({"\n"})
  /\ cur_line' = cur_line + 1
  /\ x' = x + 1
  /\ UNCHANGED <<cur_count, load_old_format, ret>>

\* A character of the code's own lines, in the line the form puts there.
InCode(line) ==
  /\ Reading(Chars \ {"#", "}", "{", "\n"})
  /\ UNCHANGED <<cur_count, cur_line, load_old_format>>
  /\ cur_line = line

NameLine == IF load_old_format THEN 1 ELSE 0
MarkLine == IF load_old_format THEN 0 ELSE 1

ReadName ==
  /\ InCode(NameLine)
  /\ ret' = [ret EXCEPT ![cur_count + 1].name = SubSeq(buffer, x, findNextLine(buffer, x) - 1)]
  /\ x' = findNextLine(buffer, x)

\* "1" or "T", or "t", mean a constant write.
ReadMark ==
  /\ InCode(MarkLine)
  /\ ret' = [ret EXCEPT ![cur_count + 1].cwrite = (buffer[x] = "1")]
  /\ x' = findNextLine(buffer, x)

\* The line of the opening brace.
PassOver ==
  /\ InCode(-1)
  /\ x' = x + 1
  /\ UNCHANGED ret

ReadCodes ==
  /\ \E line \in 2 .. Len(buffer) : InCode(line)
  /\ ret' = [ret EXCEPT ![cur_count + 1].codes = SubSeq(buffer, x, findNextBreak(buffer, x) - 1)]
  /\ x' = findNextBreak(buffer, x)

EndOfFile ==
  /\ pc = "read" /\ (cur_count = code_count \/ x > Len(buffer))
  /\ pc' = "loaded"
  /\ UNCHANGED <<file, entry, readVars, x, sel, art>>

-----------------------------------------------------------------------------
(* The codes are given their options, and are exported                     *)

\* The player turns on every code, one after another: its options are read, and set.
\* What is written behind the memory of a text may do harm at once, or none.  A code
\* without a name is given no options.
ChooseOptions ==
  /\ pc = "loaded" /\ Len(sel) < Len(ret)
  /\ LET code == ret[Len(sel) + 1]
         s == code.codes
         options == IF code.name = Null THEN <<>> ELSE ReadOptions(s)
     IN  \/ /\ \A o \in DOMAIN options : ~NoLine(options[o])
            /\ \E choice \in [DOMAIN options -> 1 .. Len(s)] :
                 /\ \A o \in DOMAIN options : choice[o] = 1 \/ choice[o] <= size(s, options[o])
                 /\ sel' = Append(sel, choice)
            /\ pc' = IF Len(sel) + 1 = Len(ret) THEN "export" ELSE pc
         \/ /\ \E o \in DOMAIN options : NoLine(options[o]) \/ Overruns(s, options[o])
            /\ sel' = sel
            /\ pc' = "lost"
  /\ UNCHANGED <<file, entry, readVars, x, art>>

\* The options of a code as they are set.
Chosen(s, choice) ==
  LET options == ReadOptions(s)
  IN  [o \in DOMAIN options |-> [id |-> options[o].id, value |-> Value(s, options[o], choice[o])]]

\* A code without a name is read through NULL; a comment that closes before it
\* opens keeps the export busy until the memory is full.
Export ==
  /\ pc = "export" /\ Len(art) < Len(ret)
  /\ LET i == Len(art) + 1
         code == ret[i]
         options == Chosen(code.codes, sel[i])
     IN  \E moved \in BOOLEAN :
           IF code.name = Null \/ NeverStripped[ParseOptionsCode(options, code.codes, moved)]
           THEN pc' = "lost" /\ art' = art
           ELSE pc' = pc /\ art' = Append(art, AppendCode(code, options, moved))
  /\ UNCHANGED <<file, entry, readVars, x, sel>>

Exported ==
  /\ pc = "export" /\ Len(art) = Len(ret)
  /\ pc' = "exported"
  /\ UNCHANGED <<file, entry, readVars, x, sel, art>>

Next ==
  \/ ListFile \/ Open \/ EndCode \/ OpenCode \/ NextLine \/ ReadName \/ ReadMark \/ PassOver \/ ReadCodes
  \/ EndOfFile \/ ChooseOptions \/ Export \/ Exported

Spec == Init /\ [][Next]_vars
=============================================================================
