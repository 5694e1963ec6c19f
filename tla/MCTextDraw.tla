----------------------------- MODULE MCTextDraw -----------------------------
(* Strings of one or two characters, of every length, and some that are ill *)
(* formed, drawn in one frame; single characters in three, with a cache of  *)
(* two slots.                                                               *)
EXTENDS TextDrawProps

Chars == {<<"a">>, <<"C", "x">>, <<"E", "x", "y">>, <<"F", "x", "y", "x">>}
Whole == Chars \cup {<<>>} \cup {c \o d : c, d \in Chars}
IllFormed == {<<"E">>, <<"a", "C">>, <<"E", "a", "F">>, <<"x", "y">>, <<"y", "a", "a">>,
              <<"?", "x", "a">>, <<"C", "a", " ", "a">>}
CutTexts == [w \in Ways |-> IF w = "plain" THEN {<<"?", "x">>}
                            ELSE Whole \cup IllFormed \cup {<<" ", "a", "E", "y", "x">>}]
CachedTexts == [w \in Ways |-> IF w = "plain" THEN Chars ELSE {}]
\* All fonts; and no Chinese one, so that there is a character none of them has.
Chinese == {<<"C", "x">>, <<"E", "x", "y">>}
AllFonts == [i \in Fonts |-> <<IF i = 1 THEN Chinese ELSE Chars \ {<<"C", "x">>}>>]
NoChinese == [AllFonts EXCEPT ![1] = Missing]
AllScreens ==
  <<[texts |-> CutTexts, files |-> NoChinese, frames |-> 0],
    [texts |-> CachedTexts, files |-> AllFonts, frames |-> 2],
    [texts |-> CachedTexts, files |-> NoChinese, frames |-> 2]>>
\* (TLC evaluates AllScreens once, and what a configuration puts in the place of a
\* constant every time.)
MCScreens == AllScreens
MCCalls == {"init_ttf_table", "reset_ttf_frame"}
=============================================================================
