----------------------------- MODULE MCArtMenus -----------------------------
(* Small folders and servers for ArtMenusProps.                            *)
EXTENDS ArtMenusProps

MCLists == {"user", "online"}
MCTitle == 1 .. 3
MCLetter == <<"0", "A", "Z">>
MCStackInts == {0, 1}
MCRetCap == 1
MCLeastCount == 0

\* A code of one line without an end, and one of two lines with options.
Plain(n) == [name |-> n, cwrite |-> FALSE, sizes |-> <<>>, lines |-> 0]
WithOptions(n, sizes) == [name |-> n, cwrite |-> TRUE, sizes |-> sizes, lines |-> 2]
\* A folder of these games and nothing else.
Found(games) == [games |-> games, others |-> 0]
NoFile == <<>>
Files(f) == [t \in MCTitle |-> IF t \in DOMAIN f THEN f[t] ELSE {NoFile}]

\* One game, its codes not in the order of their names; one has a wide option
\* and a narrow one.  The player never opens the online list, and never filters.
OptionWorld ==
  [folder |-> [l \in MCLists |-> IF l = "user" THEN {Found(<<1>>)} ELSE {}],
   ncl |-> [l \in MCLists |-> Files(<<{<<Plain(2), WithOptions(1, <<2, 1>>)>>}>>)],
   ids |-> {}]

\* One game in each list; a download may fail.  The player never filters.
TwoListWorld ==
  [folder |-> [l \in MCLists |->
     IF l = "user" THEN {Found(<<1>>)} ELSE {Found(<<1>>), Found(<<>>)}],
   ncl |-> [l \in MCLists |->
     Files(IF l = "user" THEN <<{<<WithOptions(1, <<1>>)>>}>> ELSE <<{<<Plain(1)>>, NoFile}>>)],
   ids |-> {}]

\* Three games in the user's list, one with a code; one or two are installed, and
\* the folder may be found empty.
FilterWorld ==
  [folder |-> [l \in MCLists |-> IF l = "user" THEN {Found(<<3, 1, 2>>), Found(<<>>)} ELSE {}],
   ncl |-> [l \in MCLists |-> Files(<<{NoFile}, {<<Plain(1)>>}>>)],
   ids |-> {{2}, {1, 3}}]

\* (TLC evaluates Worlds3 once, and what a configuration puts in the place of a
\* constant every time.)
Worlds3 == {OptionWorld, TwoListWorld, FilterWorld}
MCWorlds == Worlds3
MCFilterWorlds == {FilterWorld}

\* None of them finds its folders with another number of games, or names twice.
ASSUME MCFixedFolders == FixedFolders
ASSUME MCNamesOnce == NamesOnce
=============================================================================
