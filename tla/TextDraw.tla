------------------------------ MODULE TextDraw ------------------------------
(***************************************************************************)
(* How a string gets to the screen: it is cut to the place there is for it *)
(* (DrawHeader in draw.c, DrawGameList in menu_cheats.c), and drawn with   *)
(* the glyphs of the cache (DrawString in libfont.c, display_ttf_string in *)
(* ttf_render.c) or without it (DrawUTF8String).  The RSX reads the        *)
(* pictures of the glyphs when the frame is flipped, not when they are     *)
(* drawn.  A picture is handed to it or not; where on the screen, and what *)
(* a window cuts off, is left out.                                         *)
(***************************************************************************)
EXTENDS Utf8

CONSTANTS
  Screens,     \* what is drawn: the texts of each way, "header", "list" and "plain",
               \* with which fonts, and the bound of the model on the frames
  Room,        \* the width there is for a header or an entry of the list
  Slots,       \* the slots of the cache for other than ASCII, 1 to Slots
  Calls        \* what the program calls: "init_ttf_table", "reset_ttf_frame"

Ways == {"header", "list", "plain"}

\* The Latin, Chinese, Japanese and Korean font; files[i] has the characters of font i
\* where the console has its file, and Missing where it has not.
Fonts == 0 .. 3
Missing == <<>>
ASSUME ScreensAssumption ==
  \A s \in DOMAIN Screens :
    /\ Screens[s].frames \in Nat
    /\ \A w \in Ways : Screens[s].texts[w] \subseteq Seq(Bytes \ {NUL})
    /\ Fonts = DOMAIN Screens[s].files
ASSUME NumbersAssumption ==
  Room \in Nat /\ Slots \in Nat \ {0}
ASSUME CallsAssumption == Calls \subseteq {"init_ttf_table", "reset_ttf_frame"}

VARIABLES
  screen,            \* the one of Screens that is drawn
  text, way,         \* what is drawn, and how
  mem, p,            \* its buffer, and the byte the loop over it is at
  pass,              \* DrawString draws its text twice, the first time as a shadow
  data,              \* ttf_font_datas; slot 0 stands for those of the ASCII characters
  r_use,             \* the frames that were reset
  sent,              \* the characters the last pass has asked to be drawn
  drawn,             \* which of them, by their places in sent, the RSX has a picture of
  frame,             \* the characters asked of the cache since the last flip, and the slot
                     \* each was drawn from, or -1
  freed,             \* those drawn since then from memory that has been freed
  flips,
  pc

sentVars == <<sent, drawn>>
cacheVars == <<data, r_use, frame, freed, flips>>
vars == <<screen, text, way, mem, p, pass, sentVars, cacheVars, pc>>

Pool == 1 .. Slots
None == <<>>
Empty == [ttf |-> None, drawn |-> FALSE, used |-> FALSE, r_use |-> 0, picture |-> None]

Init ==
  /\ screen \in DOMAIN Screens
  /\ text = <<>> /\ way = "plain" /\ mem = <<NUL>> /\ p = 1 /\ pass = 1
  /\ data = [s \in 0 .. Slots |-> Empty] /\ r_use = 0
  /\ sent = <<>> /\ drawn = {} /\ frame = {} /\ freed = {} /\ flips = 0 /\ pc = "idle"

-----------------------------------------------------------------------------
(* Cutting                                                                 *)

Ask ==
  /\ pc = "idle"
  /\ \E w \in Ways : way' = w /\ text' \in Screens[screen].texts[w]
  /\ mem' = Append(text', NUL)
  /\ p' = 1 /\ sent' = <<>> /\ drawn' = {}
  /\ pass' = IF way' = "list" THEN 2 ELSE 1
  /\ pc' = CASE way' = "header" -> "cut header" [] way' = "list" -> "cut list" [] OTHER -> "draw"
  /\ UNCHANGED <<screen, cacheVars>>

Cutting(loop) ==
  /\ pc = loop
  /\ UNCHANGED <<screen, text, way, p, pass, sentVars, cacheVars>>

\* What WidthFromUTF8 reads behind the buffer is anything.
ReadsBehind ==
  /\ pc \in {"cut header", "cut list"} /\ Cutting(pc)
  /\ Decoded(mem).left
  /\ pc' = "undefined" /\ UNCHANGED mem

Fits == WidthFromUTF8(mem) <= Room

\* Mutated: the header is cut in a copy that is as long as what is left.
DrawHeader_InCopy ==
  /\ Cutting("cut header") /\ ~Decoded(mem).left
  /\ IF Fits
     THEN pc' = "draw" /\ UNCHANGED mem
     ELSE mem' = Append(SubSeq(mem, 1, strlen(mem) - 1), NUL) /\ UNCHANGED pc

\* DrawHeader and DrawHeader_Ani take the last byte off.
DrawHeader ==
  /\ Cutting("cut header") /\ ~Decoded(mem).left
  /\ IF Fits
     THEN pc' = "draw" /\ UNCHANGED mem
     ELSE mem' = [mem EXCEPT ![strlen(mem)] = NUL] /\ UNCHANGED pc

\* The byte the last character begins with, were the string well formed.
LastStart(s) == Max({i \in 1 .. strlen(s) : i = 1 \/ s[i] \notin Continues})

\* Mutated: the list does not give up on a character of several bytes.
DrawGameList_GoesOn ==
  /\ Cutting("cut list") /\ ~Decoded(mem).left
  /\ IF ~Fits /\ strlen(mem) > 1
     THEN mem' = [mem EXCEPT ![LastStart(mem)] = IF LastStart(mem) > 1 THEN NUL ELSE @] /\ UNCHANGED pc
     ELSE pc' = "draw" /\ UNCHANGED mem

\* DrawGameList takes the last character off, but leaves one byte, and gives up on a
\* first byte that leads nothing.
DrawGameList ==
  /\ Cutting("cut list") /\ ~Decoded(mem).left
  /\ LET i == LastStart(mem)
     IN  IF ~Fits /\ strlen(mem) > 1 /\ (i > 1 \/ mem[1] \in ASCII)
         THEN mem' = [mem EXCEPT ![i] = NUL] /\ UNCHANGED pc
         ELSE pc' = "draw" /\ UNCHANGED mem

-----------------------------------------------------------------------------
(* Drawing                                                                 *)

Drawing == pc = "draw" /\ UNCHANGED <<screen, r_use, flips>>

\* The text and its buffer are gone when it is drawn.
Done ==
  /\ text' = <<>> /\ way' = "plain" /\ mem' = <<NUL>> /\ p' = 1 /\ pass' = 1
  /\ sent' = <<>> /\ drawn' = {}
  /\ pc' = "idle"

\* A character is asked for, with a picture of it or without one.
Send(char, picture) ==
  /\ sent' = Append(sent, char)
  /\ drawn' = IF picture THEN drawn \cup {Len(sent) + 1} ELSE drawn

\* The characters of face[i], once InitPS3SystemFonts has been called.  The errors of
\* FT_New_Face are positive, and TTFLoadFont looks for negative ones: a font that is
\* not there counts as loaded, is NULL to FreeType, and has no character.
TTFLoadFont(i) ==
  IF Screens[screen].files[i] = Missing THEN {} ELSE Screens[screen].files[i][1]

\* Mutated: only the font the characters are looked for in first.
TTF_to_Bitmap_First(char) == char \in TTFLoadFont(1)

\* Whether TTF_to_Bitmap makes a picture: whichever of the fonts has the character.
TTF_to_Bitmap(char) == \E i \in Fonts : char \in TTFLoadFont(i)

\* DrawUTF8String: its own decoder.  ASCII goes to DrawChar, which returns before it draws:
\* the program has no bitmap font since ResetFont (main.c).  Any other character that a
\* font has gets a picture of its own, which is freed as soon as it is handed over.
DrawUTF8String ==
  /\ Drawing /\ way = "list"
  /\ UNCHANGED <<data, frame>>
  /\ IF LeavesBuffer(mem, p)
     THEN pc' = "undefined" /\ UNCHANGED <<text, way, mem, p, pass, sentVars, freed>>
     ELSE IF mem[p] = NUL THEN Done /\ UNCHANGED freed
     ELSE LET char == utf8_decode(mem, p)
              picture == char \notin {<<c>> : c \in ASCII} /\ TTF_to_Bitmap(char)
          IN  /\ Send(char, picture)
              /\ freed' = IF picture THEN freed \cup {char} ELSE freed
              /\ p' = p + Taken(mem[p])
              /\ UNCHANGED <<text, way, mem, pass, pc>>

\* The end of a pass of DrawString over its text.
EndPass ==
  IF pass = 1
  THEN pass' = 2 /\ p' = 1 /\ sent' = <<>> /\ drawn' = {} /\ UNCHANGED <<text, way, mem, pc>>
  ELSE Done

\* Blanks, and bytes that only continue, draw nothing.
PassOver ==
  /\ Drawing /\ way # "list" /\ mem[p] \in Continues \cup {Blank}
  /\ p' = p + 1 /\ sent' = IF mem[p] = Blank THEN Append(sent, <<Blank>>) ELSE sent
  /\ UNCHANGED <<text, way, mem, pass, drawn, data, frame, freed, pc>>

\* Where display_ttf_string stops: at a NUL, or before one in a character.
AtEnd == mem[p] = NUL \/ (mem[p] \notin ASCII \cup Continues /\ ~Displayed(mem, p).more)

EndOfText ==
  /\ Drawing /\ way # "list"
  /\ AtEnd /\ EndPass
  /\ UNCHANGED <<data, frame, freed>>

\* Mutated: a slot that is in use is as good as another.
Better_AnyValid(s, k) ==
  LET trel == r_use - data[k].r_use
  IN  CASE ~data[k].drawn -> [s EXCEPT !.m = k]
        [] data[k].drawn /\ (s.m = 0 \/ s.rel > trel) -> [m |-> k, rel |-> trel]
        [] OTHER -> s

\* One round of the loop over the slots: slot k is better than m to give up if it holds
\* no picture, or is not used in this frame and was used later.
Better(s, k) ==
  LET trel == r_use - data[k].r_use
  IN  CASE ~data[k].drawn -> [s EXCEPT !.m = k]
        [] data[k].drawn /\ ~data[k].used /\ (s.m = 0 \/ s.rel > trel) -> [m |-> k, rel |-> trel]
        [] OTHER -> s

\* Mutated: when there is none, none is given up.
Victim_MayBeNone(n) ==
  LET free == {k \in 1 .. n : ~data[k].drawn}
      idle == {k \in 1 .. n : ~data[k].used}
  IN  CASE free # {} -> Max(free)
        [] idle # {} -> Min({k \in idle : \A j \in idle : data[j].r_use <= data[k].r_use})
        [] OTHER -> 0

\* The slot to give up, from those up to n: the last that holds no picture, or else
\* of those not used in this frame the one used last; when there is none, the first.
Victim(n) ==
  LET best[k \in 0 .. n] ==
        IF k = 0 THEN [m |-> 0, rel |-> 0] ELSE Better(best[k - 1], k)
  IN  IF best[n].m = 0 THEN 1 ELSE best[n].m

\* Where a character is drawn from.  A slot is found by its character even if the
\* picture of it is gone.
SlotOf(char) ==
  IF char \in {<<c>> : c \in ASCII} THEN 0
  ELSE LET holds == {k \in Pool : data[k].ttf = char}
       IN  IF holds # {} THEN Min(holds) ELSE Victim(Slots)

\* display_ttf_string, one character: a picture that is not there is made in the
\* slot's texture, if TTF_to_Bitmap finds a font that has the character.  Without
\* init_ttf_table the slots have no texture, and the picture is made at NULL.
DrawGlyph ==
  /\ Drawing /\ way # "list"
  /\ mem[p] \notin Continues \cup {Blank} /\ ~AtEnd
  /\ UNCHANGED <<text, way, mem, pass, freed>>
  /\ LET char == Displayed(mem, p).code
         l == SlotOf(char)
         kept == data[l].drawn /\ data[l].ttf = char
         renders == kept \/ TTF_to_Bitmap(char)
     IN  IF ~kept /\ "init_ttf_table" \notin Calls
         THEN pc' = "no texture" /\ UNCHANGED <<p, data, frame, sentVars>>
         ELSE /\ data' = [data EXCEPT ![l] =
                   [ttf |-> IF renders THEN char ELSE @.ttf,
                    drawn |-> renders, used |-> TRUE, r_use |-> r_use,
                    picture |-> IF renders THEN char ELSE None]]
              /\ frame' = frame \cup {<<IF renders THEN l ELSE -1, char>>}
              /\ Send(char, renders)
              /\ p' = Displayed(mem, p).next
              /\ UNCHANGED pc

\* tiny3d_Flip, and reset_ttf_frame if the program calls it.
Flip ==
  /\ pc = "idle" /\ flips < Screens[screen].frames
  /\ flips' = flips + 1 /\ frame' = {} /\ freed' = {}
  /\ IF "reset_ttf_frame" \in Calls
     THEN r_use' = r_use + 1 /\ data' = [s \in DOMAIN data |-> [data[s] EXCEPT !.used = FALSE]]
     ELSE UNCHANGED <<r_use, data>>
  /\ UNCHANGED <<screen, text, way, mem, p, pass, sentVars, pc>>

DrawStep ==
  \/ ReadsBehind \/ DrawHeader \/ DrawGameList
  \/ DrawUTF8String \/ PassOver \/ EndOfText \/ DrawGlyph
Next == Ask \/ DrawStep \/ Flip

Spec == Init /\ [][Next]_vars /\ WF_vars(DrawStep)
=============================================================================
