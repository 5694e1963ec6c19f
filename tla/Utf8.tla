-------------------------------- MODULE Utf8 --------------------------------
(***************************************************************************)
(* Strings of bytes and their characters, as the GUI reads them: the       *)
(* decoder of utf8_utils.c and the one in display_ttf_string               *)
(* (ttf_render.c).  A byte is known by its kind: "a" and " " are ASCII,    *)
(* "C", "E" and "F" lead characters of two, three and four bytes, "x" and  *)
(* "y" continue them, "?" stands for those above 0xF7.  Strings end in a   *)
(* NUL, and lie in a buffer no longer than they were at first.             *)
(***************************************************************************)
EXTENDS Integers, SequencesExt

NUL == "0"
Blank == " "
ASCII == {"a", Blank}
Continues == {"x", "y"}
Bytes == ASCII \cup Continues \cup {"C", "E", "F", "?", NUL}

\* utf8_char_len: 0 for what cannot lead a character.
utf8_char_len(c) ==
  CASE c \in ASCII \cup {NUL} -> 1
    [] c = "C" -> 2
    [] c = "E" -> 3
    [] c = "F" -> 4
    [] OTHER -> 0

\* The bytes before the first NUL.
strlen(mem) == Min({i \in DOMAIN mem : mem[i] = NUL}) - 1

\* Whether a string is well formed: characters, one after another, and nothing else.
utf8_is_valid(s) ==
  LET valid[i \in Nat] ==
        \/ i > Len(s)
        \/ LET n == utf8_char_len(s[i])
           IN  /\ n > 0 /\ i + n - 1 <= Len(s)
               /\ \A k \in i + 1 .. i + n - 1 : s[k] \in Continues
               /\ valid[i + n]
  IN  valid[1]

\* utf8_decode takes as many bytes as the first one promises, whatever they are; a
\* NUL among them is one of them.  A byte that leads nothing is U+FFFD.
Taken(c) == IF utf8_char_len(c) = 0 THEN 1 ELSE utf8_char_len(c)
utf8_decode(mem, p) ==
  IF utf8_char_len(mem[p]) = 0 THEN <<"?">> ELSE SubSeq(mem, p, p + Taken(mem[p]) - 1)

\* Where reading a string from p on leaves the buffer: utf8_decode may step over the
\* NUL, and then goes on behind it.
LeavesBuffer(mem, p) == p > Len(mem) \/ (mem[p] # NUL /\ p + Taken(mem[p]) - 1 > Len(mem))

\* The characters a loop over utf8_decode sees, up to a NUL it does not step over or
\* to the end of the buffer.
Decoded(mem) ==
  LET from[p \in Nat] ==
        IF LeavesBuffer(mem, p) THEN [codes |-> <<>>, left |-> TRUE]
        ELSE IF mem[p] = NUL THEN [codes |-> <<>>, left |-> FALSE]
        ELSE LET rest == from[p + Taken(mem[p])]
             IN  [rest EXCEPT !.codes = <<utf8_decode(mem, p)>> \o @]
  IN  from[1]

\* Mutated: every byte is a character.
WidthFromUTF8_OfBytes(mem) == strlen(mem)

\* WidthFromUTF8: ASCII counts once, everything else twice.  Behind the buffer it
\* goes on with what lies there.
Width(chars) == Len(chars) + Cardinality({i \in DOMAIN chars : chars[i][1] \notin ASCII})
WidthFromUTF8(mem) == Width(Decoded(mem).codes)

\* The decoder of display_ttf_string looks at every byte before it takes it.  The
\* bytes above 0xF7 pass its test for a lead of three; more is whether it goes on.  A
\* lead alone has a code below 32, which is drawn as ASCII; what is broken off behind
\* it is a character of its own here, though a few of these codes are ASCII, too.
DisplayLength(c) == IF c = "?" THEN 3 ELSE Taken(c)
Displayed(mem, p) ==
  LET wanted == p + 1 .. p + DisplayLength(mem[p]) - 1
      bad == {i \in wanted : i > Len(mem) \/ mem[i] \notin Continues}
      next == IF bad = {} THEN p + DisplayLength(mem[p]) ELSE Min(bad)
      alone == next = p + 1 /\ mem[p] \notin ASCII
  IN  [code |-> IF alone THEN <<"a">> ELSE SubSeq(mem, p, next - 1), next |-> next,
       more |-> ~(bad # {} /\ next \in DOMAIN mem /\ mem[next] = NUL)]
=============================================================================
