------------------------------ MODULE GameList ------------------------------
(***************************************************************************)
(* The operations of the GUI on an array of games (codes.c) and the cursor *)
(* arithmetic over it (main.c).  A game is the number of its title in the  *)
(* order of the names.  Indices, counts and cursors are the code's own,    *)
(* from 0; entry x of the array is games[x + 1].  An array holds only the  *)
(* entries ReadUserList or ReadOnlineList has filled in: what lies beyond  *)
(* them is memory nobody initialized.                                      *)
(***************************************************************************)
EXTENDS Integers, Sequences, SequencesExt

\* How qsort may arrange entries with these keys: in order, those with the same key in any.
Arrangements(key) ==
  {p \in [DOMAIN key -> DOMAIN key] :
     /\ \A i \in DOMAIN key : \E j \in DOMAIN key : p[j] = i
     /\ \A i, j \in DOMAIN key : i < j => key[p[i]] <= key[p[j]]}

\* What qsort may do to the first n entries, when all of them are there.
QSortGameList(games, n) ==
  IF n \in 2 .. Len(games)
  THEN {[i \in DOMAIN games |-> IF i <= n THEN games[p[i]] ELSE games[i]] :
          p \in Arrangements(SubSeq(games, 1, n))}
  ELSE {games}

\* Whether sorting n entries reads what is not there: qsort compares nothing
\* when n < 2, and a negative n is a huge one for its unsigned parameter.
SortsWild(games, n) == n < 0 \/ (n > 1 /\ n > Len(games))

\* One round of the filter's loop: an installed game at b changes places with
\* the first game at or after t that is not.
FilterRound(installed, s, b) ==
  LET absent == {i \in s.t .. b - 1 : s.games[i + 1] \notin installed}
      i == CHOOSE i \in absent : \A j \in absent : i <= j
  IN  CASE b <= s.t -> s
        [] b > s.t /\ s.games[b + 1] \in installed /\ absent # {} ->
             [games |-> [s.games EXCEPT ![b + 1] = s.games[i + 1], ![i + 1] = s.games[b + 1]],
              t |-> i + 1, b |-> b - 1]
        [] OTHER -> [s EXCEPT !.b = b - 1]

\* The filter: the array it leaves, and the number it returns (field b).
FilterInstalledGameList(games, n, installed) ==
  LET last == IF n > 1 THEN n - 1 ELSE 0
      after[k \in 0 .. last] ==
        IF k = 0 THEN [games |-> games, t |-> 0, b |-> n - 1]
        ELSE FilterRound(installed, after[k - 1], n - k)
  IN  after[last]

move_selection_back(sel, n, steps) ==
  CASE sel - steps = -1 /\ steps = 1 -> n - 1
    [] sel - steps < 0 /\ ~(sel - steps = -1 /\ steps = 1) -> 0
    [] OTHER -> sel - steps

\* Mutated: the cursor may stop at n.
move_selection_fwd_MayPass(sel, n, steps) ==
  CASE sel + steps = n + 1 /\ steps = 1 -> 0
    [] sel + steps > n /\ ~(sel + steps = n + 1 /\ steps = 1) -> n - 1
    [] OTHER -> sel + steps

move_selection_fwd(sel, n, steps) ==
  CASE sel + steps = n /\ steps = 1 -> 0
    [] sel + steps >= n /\ ~(sel + steps = n /\ steps = 1) -> n - 1
    [] OTHER -> sel + steps

\* The two letter jumps read names up to the one they stop at.  letter[g] is
\* the upper-case first letter of game g; "0" stands for '*' to '?', the
\* characters move_letter_back tests for.
move_letter_back(games, letter, sel) ==
  LET ch == letter[games[sel + 1]]
      other == {i \in 0 .. sel : letter[games[i + 1]] # ch}
  IN  IF ch = "0" \/ other = {} THEN 0 ELSE CHOOSE i \in other : \A j \in other : j <= i

move_letter_fwd(games, letter, sel, n) ==
  LET ch == letter[games[sel + 1]]
      stop == {i \in sel .. n - 2 : i = n - 2 \/ letter[games[i + 1]] # ch}
  IN  CASE ch = "Z" -> n - 1
        [] ch # "Z" /\ sel < n - 2 -> CHOOSE i \in stop : \A j \in stop : i <= j
        [] OTHER -> sel

maxPerPage == (512 - 2 * 80) \div 20

\* The entries of n that a frame draws around the cursor (DrawGameList and
\* DrawCheatsList).
DrawnEntries(sel, n) ==
  {x \in 0 .. n - 1 : sel - maxPerPage \div 2 <= x /\ x < sel + maxPerPage}

\* The lines of n that a frame draws around the cursor (DrawOptions and DrawCodes).
DrawnLines(sel, n) ==
  LET startDrawX == sel - maxPerPage \div 2
  IN  {c \in 0 .. n - 1 : startDrawX <= c /\ c < startDrawX + maxPerPage}
=============================================================================
