--------------------------- MODULE ArtMenusProofs ---------------------------
(***************************************************************************)
(* For any lists, games and worlds: going back leads where the player came *)
(* from, the open game and its codes are there, what is chosen is what is  *)
(* seen, and a step switches at most one code.                             *)
(***************************************************************************)
EXTENDS ArtMenusProps, NatLemmas, FiniteSetTheorems, SequenceTheorems, TLAPS

-----------------------------------------------------------------------------
(* Sorting and filtering                                                   *)

\* s has the games of the array, and each once if it has.
SameGames(s, games) ==
  Range(s) = Range(games) /\ (IsInjective(games) => IsInjective(s))

\* A way to arrange n things that uses each of them uses each once.
LEMMA EachOnce ==
  ASSUME NEW n \in Nat, NEW p \in [1 .. n -> 1 .. n], \A i \in 1 .. n : \E j \in 1 .. n : p[j] = i
  PROVE  \A i, j \in 1 .. n : p[i] = p[j] => i = j
<1>1. p \in Surjection(1 .. n, 1 .. n)
  BY DEF Surjection
<1>2. IsFiniteSet(1 .. n)
  BY FS_Interval
<1>3. p \in Injection(1 .. n, 1 .. n)
  BY <1>1, <1>2, FS_SurjSameCardinalityImpliesInj
<1> QED BY <1>3 DEF Injection, IsInjective

\* Sorting any number of its entries leaves a list of as many games, the same ones.
LEMMA Sorted ==
  ASSUME NEW T, NEW games \in Seq(T), NEW n, NEW s \in QSortGameList(games, n)
  PROVE  s \in Seq(T) /\ Len(s) = Len(games) /\ SameGames(s, games)
<1>1. CASE n \in 2 .. Len(games)
  <2> DEFINE key == SubSeq(games, 1, n)
  <2>1. n \in Nat /\ DOMAIN key = 1 .. n /\ DOMAIN games = 1 .. Len(games)
    BY <1>1
  <2> HIDE DEF key
  <2>2. PICK p \in Arrangements(key) :
          s = [i \in DOMAIN games |-> IF i <= n THEN games[p[i]] ELSE games[i]]
    BY <1>1 DEF QSortGameList, key
  <2>3. p \in [1 .. n -> 1 .. n]
    BY <2>1 DEF Arrangements
  <2>4. \A i \in 1 .. Len(games) : s[i] \in T
    <3> SUFFICES ASSUME NEW i \in 1 .. Len(games) PROVE s[i] \in T
      OBVIOUS
    <3>1. CASE i <= n
      <4>1. p[i] \in 1 .. n
        BY <3>1, <2>3
      <4>2. s[i] = games[p[i]]
        BY <3>1, <2>1, <2>2
      <4> QED BY <4>1, <4>2, <1>1
    <3>2. CASE ~(i <= n)
      BY <3>2, <2>1, <2>2
    <3> QED BY <3>1, <3>2
  <2>5. s = [i \in 1 .. Len(games) |-> s[i]]
    BY <2>1, <2>2
  <2>6. s \in Seq(T) /\ Len(s) = Len(games) /\ DOMAIN s = 1 .. Len(games)
    BY <2>4, <2>5
  <2>7. \A i \in 1 .. n : \E j \in 1 .. n : p[j] = i
    BY <2>1 DEF Arrangements
  <2>8. \A i, j \in 1 .. n : p[i] = p[j] => i = j
    BY <2>1, <2>3, <2>7, EachOnce
  <2>9. ASSUME NEW i \in 1 .. Len(games)
        PROVE  (i <= n => p[i] \in 1 .. n /\ s[i] = games[p[i]]) /\ (~(i <= n) => s[i] = games[i])
    BY <1>1, <2>1, <2>2, <2>3
  <2>10. Range(s) \subseteq Range(games)
    <3> SUFFICES ASSUME NEW i \in 1 .. Len(games)
                 PROVE  \E j \in 1 .. Len(games) : s[i] = games[j]
      BY <2>1, <2>6 DEF Range
    <3>1. CASE i <= n
      BY <3>1, <2>9, <1>1
    <3>2. CASE ~(i <= n)
      BY <3>2, <2>9
    <3> QED BY <3>1, <3>2
  <2>11. Range(games) \subseteq Range(s)
    <3> SUFFICES ASSUME NEW i \in 1 .. Len(games)
                 PROVE  \E j \in 1 .. Len(games) : games[i] = s[j]
      BY <2>1, <2>6 DEF Range
    <3>1. CASE i <= n
      <4>1. PICK j \in 1 .. n : p[j] = i
        BY <3>1, <2>1, <2>7
      <4>2. j \in 1 .. Len(games) /\ j <= n
        BY <1>1
      <4>3. s[j] = games[i]
        BY <4>1, <4>2, <2>9
      <4> QED BY <4>2, <4>3
    <3>2. CASE ~(i <= n)
      BY <3>2, <2>9
    <3> QED BY <3>1, <3>2
  <2>12. ASSUME IsInjective(games) PROVE IsInjective(s)
    <3> SUFFICES ASSUME NEW i \in 1 .. Len(games), NEW j \in 1 .. Len(games), s[i] = s[j]
                 PROVE  i = j
      BY <2>6 DEF IsInjective
    <3>1. \A a, b \in 1 .. Len(games) : games[a] = games[b] => a = b
      BY <2>1, <2>12 DEF IsInjective
    <3>2. CASE i <= n /\ j <= n
      <4>1. p[i] = p[j]
        BY <3>1, <3>2, <2>9, <1>1
      <4>2. i \in 1 .. n /\ j \in 1 .. n
        BY <3>2, <2>1
      <4> QED BY <4>1, <4>2, <2>8
    <3>3. CASE ~(i <= n) /\ ~(j <= n)
      BY <3>1, <3>3, <2>9
    <3>4. CASE i <= n /\ ~(j <= n)
      <4>1. p[i] = j
        BY <3>1, <3>4, <2>9, <1>1
      <4> QED BY <4>1, <3>4, <2>9, <1>1
    <3>5. CASE ~(i <= n) /\ j <= n
      <4>1. p[j] = i
        BY <3>1, <3>5, <2>9, <1>1
      <4> QED BY <4>1, <3>5, <2>9, <1>1
    <3> QED BY <3>2, <3>3, <3>4, <3>5
  <2> QED BY <2>6, <2>10, <2>11, <2>12 DEF SameGames
<1>2. CASE n \notin 2 .. Len(games)
  BY <1>2 DEF QSortGameList, SameGames
<1> QED BY <1>1, <1>2

\* The state of the filter's loop over the first m games of an array of games of T.
Filtering(T, games, m) ==
  {s \in [games : Seq(T), t : Nat, b : Int] :
     Len(s.games) = Len(games) /\ s.b < m /\ SameGames(s.games, games)}

\* An array in which two games have changed places has the same games.
LEMMA Swapped ==
  ASSUME NEW T, NEW games \in Seq(T), NEW i \in 1 .. Len(games), NEW j \in 1 .. Len(games)
  PROVE  /\ [games EXCEPT ![j] = games[i], ![i] = games[j]] \in Seq(T)
         /\ Len([games EXCEPT ![j] = games[i], ![i] = games[j]]) = Len(games)
         /\ SameGames([games EXCEPT ![j] = games[i], ![i] = games[j]], games)
<1> DEFINE s == [games EXCEPT ![j] = games[i], ![i] = games[j]]
           n == Len(games)
<1>1. n \in Nat /\ DOMAIN games = 1 .. n /\ DOMAIN s = 1 .. n /\ s \in Seq(T) /\ Len(s) = n
  OBVIOUS
<1>2. /\ s[i] = games[j] /\ s[j] = games[i]
      /\ \A k \in 1 .. n : k # i /\ k # j => s[k] = games[k]
  BY <1>1
<1> HIDE DEF s, n
<1>3. i \in 1 .. n /\ j \in 1 .. n
  BY DEF n
<1>4. Range(s) \subseteq Range(games) /\ Range(games) \subseteq Range(s)
  <2>1. \A k \in 1 .. n : \E m \in 1 .. n : s[k] = games[m]
    BY <1>2, <1>3
  <2>2. \A k \in 1 .. n : \E m \in 1 .. n : games[k] = s[m]
    BY <1>2, <1>3
  <2>3. Range(games) = {games[k] : k \in 1 .. n} /\ Range(s) = {s[k] : k \in 1 .. n}
    BY <1>1 DEF Range
  <2> HIDE DEF s
  <2> QED BY <2>1, <2>2, <2>3
<1>5. ASSUME IsInjective(games) PROVE IsInjective(s)
  <2>1. \A a, b \in 1 .. n : games[a] = games[b] => a = b
    BY <1>1, <1>5 DEF IsInjective
  <2>2. \A a, b \in 1 .. n : s[a] = s[b] => a = b
    BY <1>2, <1>3, <2>1
  <2> QED BY <1>1, <2>2 DEF IsInjective
<1> QED BY <1>1, <1>4, <1>5 DEF SameGames, s, n

\* What has the games of an array that has those of another has those of the other.
LEMMA SameSame ==
  ASSUME NEW a, NEW b, NEW c, SameGames(a, b), SameGames(b, c)
  PROVE  SameGames(a, c)
PROOF BY DEF SameGames

\* A round keeps it.
LEMMA FilterRoundKeeps ==
  ASSUME NEW T, NEW games, Len(games) \in Nat, NEW m \in Int, NEW held,
         NEW s \in Filtering(T, games, m), NEW b \in 0 .. Len(games) - 1, b < m
  PROVE  FilterRound(held, s, b) \in Filtering(T, games, m)
<1> DEFINE absent == {i \in s.t .. b - 1 : s.games[i + 1] \notin held}
           i == CHOOSE i \in absent : \A j \in absent : i <= j
           swapped == [games |-> [s.games EXCEPT ![b + 1] = s.games[i + 1],
                                                 ![i + 1] = s.games[b + 1]],
                       t |-> i + 1, b |-> b - 1]
           n == Len(games)
<1>1. s = [games |-> s.games, t |-> s.t, b |-> s.b] /\ s.games \in Seq(T) /\ Len(s.games) = n
      /\ s.t \in Nat /\ s.b \in Int /\ s.b < m /\ SameGames(s.games, games)
  BY DEF Filtering
<1>2. [s EXCEPT !.b = b - 1] \in Filtering(T, games, m)
  BY <1>1 DEF Filtering
<1>3. ASSUME absent # {} PROVE swapped \in Filtering(T, games, m)
  <2>1. absent \subseteq Nat /\ absent \subseteq s.t .. b - 1
    BY <1>1
  <2>2. \E k \in absent : \A j \in absent : k <= j
    BY <2>1, <1>3, LeastNat
  <2>3. i \in absent
    BY <2>2
  <2> HIDE DEF i, absent
  <2>4. i \in Nat /\ i + 1 \in 1 .. n /\ b + 1 \in 1 .. n
    BY <2>1, <2>3, <1>1
  <2> DEFINE g == [s.games EXCEPT ![b + 1] = s.games[i + 1], ![i + 1] = s.games[b + 1]]
  <2>5. g \in Seq(T) /\ Len(g) = n /\ SameGames(g, s.games)
    BY <2>4, <1>1, Swapped
  <2>6. SameGames(g, games)
    BY <2>5, <1>1, SameSame
  <2>7. swapped = [games |-> g, t |-> i + 1, b |-> b - 1]
    OBVIOUS
  <2> HIDE DEF g, swapped
  <2> QED BY <2>4, <2>5, <2>6, <2>7 DEF Filtering
<1>4. FilterRound(held, s, b) \in {s, [s EXCEPT !.b = b - 1]}
      \/ (absent # {} /\ FilterRound(held, s, b) = swapped)
  <2> DEFINE there == s.games[b + 1] \in held
             past == [s EXCEPT !.b = b - 1]
  <2>1. FilterRound(held, s, b)
          = CASE b <= s.t -> s [] b > s.t /\ there /\ absent # {} -> swapped [] OTHER -> past
    BY DEF FilterRound
  <2>2. b > s.t <=> ~(b <= s.t)
    BY <1>1
  <2> HIDE DEF there, past, swapped, absent
  <2>3. FilterRound(held, s, b) \in {s, past}
        \/ (absent # {} /\ FilterRound(held, s, b) = swapped)
    BY <2>1, <2>2
  <2> QED BY <2>3 DEF past
<1> HIDE DEF swapped
<1> QED BY <1>2, <1>3, <1>4

\* The filter leaves a list of as many games, the same ones, and a number that is less.
LEMMA Filtered ==
  ASSUME NEW T, NEW games \in Seq(T), NEW n \in Int, n > 1 => n <= Len(games), NEW held
  PROVE  FilterInstalledGameList(games, n, held) \in Filtering(T, games, n)
<1> DEFINE last == IF n > 1 THEN n - 1 ELSE 0
           first == [games |-> games, t |-> 0, b |-> n - 1]
           Rounds(f, m) == f = [k \in 0 .. m |-> IF k = 0 THEN first
                                                 ELSE FilterRound(held, f[k - 1], n - k)]
           Can == {m \in Nat : \E f : Rounds(f, m)}
<1>1. last \in Nat /\ (last > 0 => n = last + 1 /\ n <= Len(games)) /\ Len(games) \in Nat
  OBVIOUS
<1>2. first \in Filtering(T, games, n)
  BY DEF Filtering, SameGames
<1> HIDE DEF last, first
<1>3. 0 \in Can
  <2>1. Rounds([k \in 0 .. 0 |-> first], 0)
    OBVIOUS
  <2> QED BY <2>1, Zenon
<1>4. ASSUME NEW m \in Nat, m \in Can PROVE m + 1 \in Can
  <2>1. PICK f : Rounds(f, m)
    BY <1>4
  <2> DEFINE g == [k \in 0 .. m + 1 |->
                     IF k = m + 1 THEN FilterRound(held, f[m], n - (m + 1)) ELSE f[k]]
  <2>2. ASSUME NEW k \in 0 .. m + 1
        PROVE  g[k] = IF k = 0 THEN first ELSE FilterRound(held, g[k - 1], n - k)
    <3>1. CASE k = m + 1
      <4>1. k # 0 /\ k - 1 = m /\ m \in 0 .. m + 1 /\ m # m + 1
        BY <3>1
      <4>2. g[m] = f[m]
        BY <4>1
      <4> QED BY <3>1, <4>1, <4>2
    <3>2. CASE k = 0
      <4>1. f[0] = first
        BY <2>1
      <4> QED BY <3>2, <4>1
    <3>3. CASE k # m + 1 /\ k # 0
      <4>1. k \in 0 .. m /\ k - 1 \in 0 .. m /\ k - 1 # m + 1 /\ k - 1 \in 0 .. m + 1
        BY <3>3
      <4>2. f[k] = FilterRound(held, f[k - 1], n - k)
        BY <2>1, <3>3, <4>1
      <4>3. g[k] = f[k] /\ g[k - 1] = f[k - 1]
        BY <4>1, <3>3
      <4> QED BY <3>3, <4>2, <4>3
    <3> QED BY <3>1, <3>2, <3>3
  <2>3. g = [k \in 0 .. m + 1 |-> g[k]]
    OBVIOUS
  <2> HIDE DEF g
  <2>4. Rounds(g, m + 1)
    BY <2>2, <2>3
  <2> QED BY <2>4, m + 1 \in Nat, Zenon
<1>5. last \in Can
  <2> HIDE DEF Can
  <2>1. Nat \subseteq Can
    BY <1>3, <1>4, NatInd
  <2> QED BY <2>1, <1>1
<1> DEFINE after == CHOOSE f : Rounds(f, last)
<1>6. Rounds(after, last)
  <2>1. \E f : Rounds(f, last)
    BY <1>5
  <2> QED BY <2>1, Zenon
<1>7. FilterInstalledGameList(games, n, held) = after[last]
  BY DEF FilterInstalledGameList, last, first
<1> HIDE DEF after
<1> DEFINE Kept == {k \in Nat : k <= last => after[k] \in Filtering(T, games, n)}
<1>8. 0 \in Kept
  BY <1>6, <1>1, <1>2
<1>9. ASSUME NEW k \in Nat, k \in Kept PROVE k + 1 \in Kept
  <2> SUFFICES ASSUME k + 1 <= last PROVE after[k + 1] \in Filtering(T, games, n)
    OBVIOUS
  <2>1. after[k] \in Filtering(T, games, n)
    BY <1>9, <1>1
  <2>2. k + 1 \in 0 .. last /\ k + 1 # 0 /\ (k + 1) - 1 = k /\ n - (k + 1) \in 0 .. Len(games) - 1
    BY <1>1
  <2>3. after[k + 1] = FilterRound(held, after[k], n - (k + 1))
    BY <1>6, <2>2
  <2>4. n - (k + 1) < n
    OBVIOUS
  <2> QED BY <2>1, <2>2, <2>3, <2>4, <1>1, FilterRoundKeeps
<1>10. last \in Kept
  <2> HIDE DEF Kept
  <2>1. Nat \subseteq Kept
    BY <1>8, <1>9, NatInd
  <2> QED BY <2>1, <1>1
<1> QED BY <1>1, <1>7, <1>10

-----------------------------------------------------------------------------
(* The cursor                                                              *)

\* Whatever the number of entries, the cursor stays a number.
LEMMA CursorType ==
  ASSUME NEW sel \in Int, NEW n \in Int, NEW steps \in Int
  PROVE  move_selection_back(sel, n, steps) \in Int /\ move_selection_fwd(sel, n, steps) \in Int
PROOF BY DEF move_selection_back, move_selection_fwd

\* A cursor on one of n entries that moves stays on one of them.
LEMMA CursorKept ==
  ASSUME NEW n \in Nat \ {0}, NEW sel \in 0 .. n - 1, NEW steps \in Nat \ {0}
  PROVE  /\ move_selection_back(sel, n, steps) \in 0 .. n - 1
         /\ move_selection_fwd(sel, n, steps) \in 0 .. n - 1
PROOF BY DEF move_selection_back, move_selection_fwd

\* Wherever it is below the end of an array, it stays below it, when no more entries
\* are counted than the array has.
LEMMA CursorBelow ==
  ASSUME NEW most \in Nat \ {0}, NEW n \in Int, n <= most, NEW sel \in Int, sel < most,
         NEW steps \in Nat \ {0}
  PROVE  /\ move_selection_back(sel, n, steps) < most
         /\ move_selection_fwd(sel, n, steps) < most
PROOF BY DEF move_selection_back, move_selection_fwd

\* It is on one of the lines that are drawn.
LEMMA CursorDrawn ==
  ASSUME NEW n \in Nat, NEW sel \in 0 .. n - 1
  PROVE  sel \in DrawnLines(sel, n)
<1>1. maxPerPage = 17
  BY DEF maxPerPage
<1> QED BY <1>1 DEF DrawnLines

\* From an entry, a letter jump leads to one no further down, or to one that counts.
LEMMA LetterJumps ==
  ASSUME NEW games, NEW letter, NEW sel \in Nat, NEW n \in Int
  PROVE  /\ move_letter_back(games, letter, sel) \in 0 .. sel
         /\ move_letter_fwd(games, letter, sel, n) \in Int
         /\ \/ move_letter_fwd(games, letter, sel, n) = sel
            \/ move_letter_fwd(games, letter, sel, n) < n
<1>1. move_letter_back(games, letter, sel) \in 0 .. sel
  <2> DEFINE ch == letter[games[sel + 1]]
             other == {i \in 0 .. sel : letter[games[i + 1]] # ch}
  <2>1. ASSUME other # {} PROVE (CHOOSE i \in other : \A j \in other : j <= i) \in 0 .. sel
    <3>1. other \subseteq 0 .. sel
      OBVIOUS
    <3> HIDE DEF other
    <3>2. \E i \in other : \A j \in other : j <= i
      BY <3>1, <2>1, GreatestBelow
    <3>3. (CHOOSE i \in other : \A j \in other : j <= i) \in other
      BY <3>2, Zenon
    <3> QED BY <3>1, <3>3, Zenon
  <2>2. move_letter_back(games, letter, sel)
          = IF ch = "0" \/ other = {} THEN 0 ELSE CHOOSE i \in other : \A j \in other : j <= i
    BY Zenon DEF move_letter_back
  <2> HIDE DEF ch, other
  <2> QED BY <2>1, <2>2
<1>2. /\ move_letter_fwd(games, letter, sel, n) \in Int
      /\ \/ move_letter_fwd(games, letter, sel, n) = sel
         \/ move_letter_fwd(games, letter, sel, n) < n
  <2> DEFINE ch == letter[games[sel + 1]]
             stop == {i \in sel .. n - 2 : i = n - 2 \/ letter[games[i + 1]] # ch}
             c == CHOOSE i \in stop : \A j \in stop : i <= j
  <2>1. ASSUME sel < n - 2 PROVE c \in Int /\ c < n
    <3>1. stop \subseteq Nat /\ n - 2 \in stop /\ \A i \in stop : i \in Int /\ i < n
      BY <2>1
    <3> HIDE DEF stop
    <3>2. \E i \in stop : \A j \in stop : i <= j
      BY <3>1, LeastNat
    <3>3. c \in stop
      BY <3>2, Zenon
    <3> QED BY <3>1, <3>3, Zenon
  <2>2. move_letter_fwd(games, letter, sel, n)
          = CASE ch = "Z" -> n - 1 [] ch # "Z" /\ sel < n - 2 -> c [] OTHER -> sel
    BY Zenon DEF move_letter_fwd
  <2> HIDE DEF ch, stop, c
  <2> QED BY <2>1, <2>2
<1> QED BY <1>1, <1>2

-----------------------------------------------------------------------------
(* Where going back leads.                                                 *)

(***************************************************************************)
(* BackGoesToOwner is not inductive: choosing a game in menu m records m    *)
(* only if last_menu_id[m] is not 5.  That it never is follows from the     *)
(* ways into the list menus: from menu 0, which leaves 0 there, and back    *)
(* from menu 5, which leaves last_menu_id alone, as it leads to             *)
(* last_menu_id[5] itself.                                                  *)
(***************************************************************************)
NavType ==
  /\ menu_id \in 0 .. 7
  /\ last_menu_id \in [0 .. 7 -> 0 .. 7]
  /\ menu_old_sel = [m \in {1, 2, 5} |-> menu_old_sel[m]]

NavInv ==
  /\ NavType
  /\ \A m \in 1 .. 4 : last_menu_id[m] = 0
  /\ menu_id \in ListMenus \cup {0, 3, 4, 5, 6, 7}
  /\ BackGoesToOwner
  /\ menu_id = 7 => menu_old_sel[5] = selected_centry

\* A step that enters another menu the way SetMenu does keeps NavType.
LEMMA EnterMenuType ==
  ASSUME NavType, NEW id \in 0 .. 7, EnterMenu(id)
  PROVE  NavType' /\ menu_id' = id
PROOF BY DEF NavType, EnterMenu

\* In the beginning the main menu is shown and nothing has been left.
LEMMA NavInit == Init => NavInv
PROOF BY DEF Init, NavInv, NavType, BackGoesToOwner

\* Steps that change neither menu, saved cursors nor the open game keep NavInv.
LEMMA NavStays ==
  ASSUME NavInv,
         UNCHANGED <<menu_id, menu_old_sel, last_menu_id, selected_entry>>,
         menu_id # 7 \/ UNCHANGED selected_centry
  PROVE  NavInv'
PROOF BY DEF NavInv, NavType, BackGoesToOwner

\* Going to one of the menus outside a game, the way SetMenu does.
LEMMA NavLeaves ==
  ASSUME NavInv, NEW id \in ListMenus \cup {0, 3, 4}, EnterMenu(id),
         menu_id = 0 \/ id = 0 \/ (menu_id = 5 /\ id = last_menu_id[5])
  PROVE  NavInv'
<1>0. id \in 0 .. 7 /\ id \notin {5, 6, 7}
  BY DEF ListMenus
<1>1. NavType' /\ menu_id' = id
  BY <1>0, EnterMenuType DEF NavInv
<1>2. \A m \in 1 .. 4 : last_menu_id'[m] = 0
  <2>1. CASE menu_id = 0
    BY <2>1, <1>0 DEF NavInv, NavType, EnterMenu
  <2>2. CASE id = 0
    BY <2>2, <1>0 DEF NavInv, NavType, EnterMenu
  <2>3. CASE menu_id = 5 /\ id = last_menu_id[5]
    BY <2>3, <1>0 DEF NavInv, NavType, EnterMenu
  <2> QED BY <2>1, <2>2, <2>3
<1> QED
  BY <1>0, <1>1, <1>2 DEF NavInv, BackGoesToOwner

\* Going to a view of a code from the menu of its game.
LEMMA NavOpensView ==
  ASSUME NavInv, NEW id \in {6, 7}, menu_id = 5, EnterMenu(id),
         UNCHANGED selected_entry, selected_centry' = menu_sel
  PROVE  NavInv'
<1>0. last_menu_id[5] \in ListMenus /\ last_menu_id[5] \in {1, 2}
  BY DEF NavInv, BackGoesToOwner, ListMenus
<1>1. NavType' /\ menu_id' = id
  BY EnterMenuType DEF NavInv
<1>2. last_menu_id' = [last_menu_id EXCEPT ![id] = 5]
  BY <1>0 DEF EnterMenu
<1>3. menu_old_sel' = [menu_old_sel EXCEPT ![5] = menu_sel]
  BY DEF EnterMenu
<1>4. menu_old_sel'[5] = selected_centry'
  BY <1>3 DEF NavInv, NavType
<1> QED
  BY <1>0, <1>1, <1>2, <1>4 DEF NavInv, NavType, BackGoesToOwner, ListMenus, ListOf

\* Going back to the menu of the game from a view of one of its codes.
LEMMA NavClosesView ==
  ASSUME NavInv, menu_id \in {6, 7}, EnterMenu(last_menu_id[menu_id]), UNCHANGED selected_entry
  PROVE  NavInv'
<1>1. last_menu_id[menu_id] = 5
  BY DEF NavInv, BackGoesToOwner
<1>2. NavType' /\ menu_id' = 5
  BY <1>1, EnterMenuType DEF NavInv
<1>3. UNCHANGED last_menu_id
  BY <1>1 DEF EnterMenu
<1> QED
  BY <1>1, <1>2, <1>3 DEF NavInv, BackGoesToOwner, ListMenus, ListOf

\* Choosing a game in a list menu.
LEMMA NavOpensGame ==
  ASSUME NavInv, NEW m \in ListMenus, menu_id = m, EnterMenu(5),
         selected_entry'.list = ListOf[m]
  PROVE  NavInv'
<1>0. m \in {1, 2} /\ last_menu_id[m] = 0
  BY DEF NavInv, ListMenus
<1>1. NavType' /\ menu_id' = 5
  BY EnterMenuType DEF NavInv
<1>2. last_menu_id' = [last_menu_id EXCEPT ![5] = m]
  BY <1>0 DEF EnterMenu
<1> QED
  BY <1>0, <1>1, <1>2 DEF NavInv, NavType, BackGoesToOwner, ListMenus, ListOf

\* Every step keeps the navigation in order.
LEMMA NavNext == NavInv /\ [Next]_vars => NavInv'
<1> SUFFICES ASSUME NavInv, [Next]_vars PROVE NavInv'
  OBVIOUS
<1> USE DEF navVars, selVars, endVars, listVars
<1>1. CASE UNCHANGED vars
  BY <1>1, NavStays DEF vars
<1>2. ASSUME NEW where, Undefined(where) PROVE NavInv'
  BY <1>2, NavStays DEF Undefined
<1>3. ASSUME NEW s, PointTo(s) PROVE NavInv'
  BY <1>3, NavStays DEF PointTo
<1>4. CASE Start \/ ExitToXMB \/ sort_callback
  BY <1>4, <1>2, NavStays DEF Start, ExitToXMB, sort_callback
<1>5. CASE BackToMain
  BY <1>5, NavLeaves DEF BackToMain, SetMenu
<1>6. ASSUME NEW id \in ListMenus \cup {3, 4}, MainCross(id) PROVE NavInv'
  BY <1>6, NavLeaves DEF MainCross, SetMenu, InMenu
<1>7. ASSUME NEW m \in ListMenus,
             ListMove(m) \/ ListLetter(m) \/ ListCross(m) \/ ListTriangle(m) \/ ListSquare(m)
               \/ ListCircle(m)
      PROVE  NavInv'
  <2>0. m # 7
    BY DEF ListMenus
  <2>1. CASE ListMove(m)
    BY <2>1, <1>3 DEF ListMove
  <2>2. CASE ListLetter(m)
    BY <2>2, <1>2, <1>3 DEF ListLetter
  <2>3. CASE ListCross(m)
    <3>1. CASE OnEntry(ListOf[m])
      <4>1. /\ menu_id = m /\ EnterMenu(5)
            /\ \E t, n : selected_entry' = [list |-> ListOf[m], title |-> t, code_count |-> n]
        BY <2>3, <3>1, Zenon DEF ListCross, InMenu
      <4>2. selected_entry'.list = ListOf[m]
        BY <4>1
      <4> QED BY <4>1, <4>2, NavOpensGame
    <3>2. CASE ~OnEntry(ListOf[m])
      BY <2>3, <3>2, <1>2, Zenon DEF ListCross
    <3> QED BY <3>1, <3>2
  <2>4. CASE ListTriangle(m)
    BY <2>4, NavStays DEF ListTriangle
  <2>5. CASE ListSquare(m)
    BY <2>5, NavStays DEF ListSquare
  <2>6. CASE ListCircle(m)
    BY <2>6, NavLeaves DEF ListCircle, SetMenu
  <2> QED BY <1>7, <2>1, <2>2, <2>3, <2>4, <2>5, <2>6
<1>8. CASE CodesMove
  BY <1>8, <1>3 DEF CodesMove
<1>9. CASE CodesCross
  <2>1. CASE OnCode /\ Activate /\ EnterMenu(7)
    <3>1. menu_id = 5 /\ UNCHANGED selected_entry
      BY <2>1, <1>9 DEF CodesCross, InMenu
    <3>2. menu_id' = 7
      BY <2>1 DEF EnterMenu
    <3>3. selected_centry' = menu_sel
      <4>1. selected_centry' = menu_sel \/ menu_id' = menu_id
        BY <2>1, Zenon DEF Activate
      <4> QED BY <3>1, <3>2, <4>1
    <3> QED BY <2>1, <3>1, <3>3, NavOpensView
  <2>2. CASE ~(OnCode /\ Activate /\ EnterMenu(7))
    BY <2>2, <1>9, <1>2, NavStays DEF CodesCross, Activate, Deactivate, InMenu
  <2> QED BY <2>1, <2>2
<1>10. CASE CodesSquare
  BY <1>10, <1>2, NavStays DEF CodesSquare
<1>11. CASE CodesTriangle
  BY <1>11, <1>2, NavOpensView DEF CodesTriangle, SetMenu, InMenu
<1>12. CASE CodesLeave
  <2>1. PICK id \in {0, last_menu_id[5]} : SetMenu(id)
    BY <1>12 DEF CodesLeave
  <2>2. menu_id = 5 /\ last_menu_id[5] \in ListMenus
    BY <1>12 DEF CodesLeave, InMenu, NavInv, BackGoesToOwner
  <2> QED BY <2>1, <2>2, NavLeaves DEF SetMenu
<1>13. CASE ViewMove \/ OptionMove
  BY <1>13, <1>3 DEF ViewMove, OptionMove
<1>14. CASE ViewCircle
  BY <1>14, NavClosesView DEF ViewCircle, SetMenu, InMenu
<1>15. CASE OptionCircle
  BY <1>15, NavClosesView DEF OptionCircle, InMenu
<1>16. CASE OptionCross
  <2>1. CASE EnterMenu(last_menu_id[7])
    BY <2>1, <1>16, NavClosesView DEF OptionCross, InMenu
  <2>2. CASE ~EnterMenu(last_menu_id[7])
    BY <2>2, <1>16, NavStays DEF OptionCross
  <2> QED BY <2>1, <2>2
<1> QED
  BY <1>1, <1>4, <1>5, <1>6, <1>7, <1>8, <1>9, <1>10, <1>11, <1>12, <1>13, <1>14, <1>15, <1>16
  DEF Next

\* The strengthened invariant holds throughout (SetMenu, last_menu_id).
THEOREM NavAlways == Spec => []NavInv
  BY NavInit, NavNext, PTL DEF Spec

\* Back leads to the list the open game was chosen in, and from the views of a
\* code to its game (SetMenu, drawScene).
THEOREM BackAlwaysGoesToOwner == Spec => []BackGoesToOwner
<1>1. NavInv => BackGoesToOwner
  BY DEF NavInv
<1> QED BY <1>1, NavAlways, PTL

\* The option menu writes to the code it shows (drawScene, case 7).
THEOREM OptionAlwaysSameCode == Spec => []OptionSameCode
<1>1. NavInv => OptionSameCode
  BY DEF NavInv, BackGoesToOwner, OptionSameCode, OptionTarget
<1> QED BY <1>1, NavAlways, PTL

-----------------------------------------------------------------------------
(* The data behind the menus.                                              *)
(*                                                                         *)
(* SelectedLive and OptionOnSelected are not inductive.  A game is taken    *)
(* from its list only where no game is open, which NavInv says of the       *)
(* steps; but CIRCLE in menu 5 may read the list it leads to, and then      *)
(* that list is NULL, which has no tables (NullInv).  The copy in the       *)
(* option menu and the table agree while the cursor of each is where        *)
(* OpenInv says, and a choice is a value of its option because the cursor   *)
(* it is taken from is one of the values of the option asked for.           *)

\* A code whose choices, once read, are one for each option and values of it.
GoodCode ==
  {c \in Code : c.options # <<>> =>
     /\ Len(c.options) = Len(c.sizes)
     /\ \A i \in 1 .. Len(c.sizes) : c.options[i] \in 0 .. c.sizes[i] - 1}

CursorsType == menu_sel \in Int /\ menu_old_sel \in [{1, 2, 5} -> Int]

ListsType ==
  /\ list \in [Lists -> Seq(Title)]
  /\ count \in [Lists -> Int]
  /\ codes \in [Lists -> [Title -> Seq(GoodCode)]]
  /\ code_sorted \in [Lists -> SUBSET Title]

SelectedType ==
  /\ selected_entry \in [list : Lists, title : Title, code_count : Nat] \cup {NoEntry}
  /\ selected_centry \in Nat /\ option_index \in Nat

Causes == {"none", "draw", "sort", "unload", "list", "codes", "export"}
RestType ==
  /\ world \in Worlds
  /\ filter \in [Lists -> Int]
  /\ installed \in (SUBSET Title) \cup {Unscanned}
  /\ doSort \in BOOLEAN
  /\ close_art \in BOOLEAN /\ art.written \in BOOLEAN
  /\ ub \in Causes

\* The games of a list that is NULL have no code tables.
NullInv ==
  \A l \in Lists : list[l] = <<>> => \A t \in Title : codes[l][t] = <<>>

\* While a game is open its table is the one that was copied, the code in view is
\* one of its codes, and the cursor is on one of the lines or choices there are.
OpenInv ==
  /\ SelectedLive
  /\ menu_id \in {6, 7} => selected_centry + 1 \in DOMAIN SelectedCodes
  /\ menu_id = 6 /\ Viewed.lines > 0 => menu_sel \in 0 .. Viewed.lines - 1
  /\ menu_id = 7 => /\ Viewed.activated
                    /\ option_index + 1 \in DOMAIN Viewed.options
                    /\ menu_sel \in 0 .. Viewed.sizes[option_index + 1] - 1

DataInv == CursorsType /\ ListsType /\ SelectedType /\ RestType /\ NullInv /\ OpenInv

\* What the folders, files and titles of a world are.
LEMMA WorldHas ==
  ASSUME RestType
  PROVE  /\ \A l \in Lists : world.folder[l] \subseteq Folder
         /\ \A l \in Lists, t \in Title : world.ncl[l][t] \subseteq Seq(FileCode)
         /\ world.ids \subseteq SUBSET Title
<1>1. world \in WorldType
  BY WorldsAssumption DEF RestType
<1>2. /\ world.folder \in [Lists -> SUBSET Folder]
      /\ world.ncl \in [Lists -> [Title -> SUBSET Seq(FileCode)]]
      /\ world.ids \in SUBSET SUBSET Title
  BY <1>1, Zenon DEF WorldType
<1>3. ASSUME NEW l \in Lists PROVE world.folder[l] \subseteq Folder
  BY <1>2, Zenon
<1>4. ASSUME NEW l \in Lists, NEW t \in Title PROVE world.ncl[l][t] \subseteq Seq(FileCode)
  <2>1. world.ncl[l] \in [Title -> SUBSET Seq(FileCode)]
    BY <1>2, Zenon
  <2>2. world.ncl[l][t] \in SUBSET Seq(FileCode)
    BY <2>1, Zenon
  <2> QED BY <2>2, Zenon
<1> QED BY <1>2, <1>3, <1>4, Zenon

\* Drawing goes well or is where the frame went wrong.
LEMMA DrawIs ==
  Draw' \in Causes /\ \A doAni \in BOOLEAN : DrawEntry(doAni)' \in Causes
<1>1. Draw' \in {"none", "draw"}
  BY Zenon DEF Draw
<1>2. ASSUME NEW doAni \in BOOLEAN PROVE DrawEntry(doAni)' \in {"none", "draw"}
  BY <1>1, Zenon DEF DrawEntry
<1> QED BY <1>1, <1>2 DEF Causes

\* Entering a menu leaves cursors, and puts the one of a menu that has none
\* saved on the first line.
LEMMA EnterMenuCursors ==
  ASSUME CursorsType, NEW id, EnterMenu(id)
  PROVE  CursorsType' /\ menu_id' = id /\ (id \notin {1, 2, 5} => menu_sel' = 0)
<1> DEFINE reset == IF id = 5 /\ menu_id \in {1, 2} THEN [menu_old_sel EXCEPT ![5] = 0]
                    ELSE menu_old_sel
<1>1. reset \in [{1, 2, 5} -> Int]
  BY DEF CursorsType
<1>2. menu_old_sel' = IF menu_id \in {1, 2, 5} THEN [reset EXCEPT ![menu_id] = menu_sel] ELSE reset
  BY Zenon DEF EnterMenu
<1> HIDE DEF reset
<1>3. menu_old_sel' \in [{1, 2, 5} -> Int]
  BY <1>1, <1>2 DEF CursorsType
<1>4. menu_id' = id /\ menu_sel' = IF id \in {1, 2, 5} THEN menu_old_sel'[id] ELSE 0
  BY Zenon DEF EnterMenu
<1> QED BY <1>3, <1>4 DEF CursorsType

\* A list that was read is a list of games, with or without codes to come.
LEMMA ReloadKeeps ==
  ASSUME ListsType, RestType, NullInv, NEW l \in Lists, NEW doAni \in BOOLEAN, Reload(l, doAni)
  PROVE  /\ ListsType' /\ NullInv' /\ ub' \in Causes
         /\ codes' = [codes EXCEPT ![l] = [t \in Title |-> <<>>]]
         /\ IsInjective(list'[l]) /\ \A k \in Lists : k # l => list'[k] = list[k]
<1>1. PICK r \in UNION {ReadList(found) : found \in world.folder[l]} :
        /\ \E games \in (IF doSort THEN QSortGameList(r.games, r.count) ELSE {r.games}) :
             list' = [list EXCEPT ![l] = games]
        /\ count' = [count EXCEPT ![l] = r.count]
        /\ codes' = [codes EXCEPT ![l] = [t \in Title |-> <<>>]]
        /\ code_sorted' = [code_sorted EXCEPT ![l] = {}]
        /\ ub' = CASE UnloadsWild(l) -> "unload"
                   [] ~UnloadsWild(l) /\ doSort /\ SortsWild(r.games, r.count) -> "sort"
                   [] OTHER -> DrawEntry(doAni)'
  BY Zenon DEF Reload
<1>2. PICK found \in world.folder[l] : r \in ReadList(found)
  BY Zenon
<1>3. found.games \in Seq(Title) /\ found.others \in Nat /\ IsInjective(found.games)
  BY WorldHas DEF Folder
<1>4. r.games \in Seq(Title) /\ r.count \in Int /\ IsInjective(r.games)
  BY <1>2, <1>3, BoundsAssumption DEF ReadList
<1>5. PICK games \in (IF doSort THEN QSortGameList(r.games, r.count) ELSE {r.games}) :
        list' = [list EXCEPT ![l] = games]
  BY <1>1
<1>6. games \in Seq(Title) /\ IsInjective(games)
  BY <1>4, <1>5, Sorted, Zenon DEF SameGames
<1>7. list' \in [Lists -> Seq(Title)] /\ count' \in [Lists -> Int]
      /\ code_sorted' \in [Lists -> SUBSET Title]
  <2>1. list' \in [Lists -> Seq(Title)]
    BY <1>5, <1>6 DEF ListsType
  <2>2. count' \in [Lists -> Int]
    BY <1>1, <1>4 DEF ListsType
  <2>3. code_sorted' \in [Lists -> SUBSET Title]
    BY <1>1, {} \in SUBSET Title DEF ListsType
  <2> QED BY <2>1, <2>2, <2>3
<1>8. codes' \in [Lists -> [Title -> Seq(GoodCode)]]
  <2>1. <<>> \in Seq(GoodCode)
    OBVIOUS
  <2>2. [t \in Title |-> <<>>] \in [Title -> Seq(GoodCode)]
    BY <2>1, Zenon
  <2> QED BY <2>2, <1>1, Zenon DEF ListsType
<1>9. NullInv'
  <2> SUFFICES ASSUME NEW k \in Lists, list'[k] = <<>>, NEW t \in Title PROVE codes'[k][t] = <<>>
    BY Zenon DEF NullInv
  <2>1. CASE k = l
    BY <2>1, <1>1 DEF ListsType
  <2>2. CASE k # l
    BY <2>2, <1>1, <1>5 DEF ListsType, NullInv
  <2> QED BY <2>1, <2>2
<1>10. ub' \in Causes
  <2>1. ub' \in {"unload", "sort", DrawEntry(doAni)'}
    BY <1>1, Zenon
  <2> QED BY <2>1, DrawIs, Zenon DEF Causes
<1>11. IsInjective(list'[l]) /\ \A k \in Lists : k # l => list'[k] = list[k]
  BY <1>5, <1>6 DEF ListsType
<1> QED BY <1>1, <1>7, <1>8, <1>9, <1>10, <1>11 DEF ListsType

\* So it is when a menu is entered.
LEMMA SetMenuKeeps ==
  ASSUME CursorsType, ListsType, RestType, NullInv, NEW id, SetMenu(id)
  PROVE  /\ CursorsType' /\ ListsType' /\ NullInv' /\ ub' \in Causes
         /\ menu_id' = id /\ (id \notin {1, 2, 5} => menu_sel' = 0)
         /\ id \notin ListMenus => UNCHANGED listVars
<1>1. EnterMenu(id)
  BY Zenon DEF SetMenu
<1>2. CursorsType' /\ menu_id' = id /\ (id \notin {1, 2, 5} => menu_sel' = 0)
  BY <1>1, EnterMenuCursors
<1>3. PICK doAni \in BOOLEAN :
        \/ /\ id \in ListMenus
           /\ list[ListOf[id]] = <<>>
           /\ Reload(ListOf[id], doAni)
        \/ /\ UNCHANGED listVars
           /\ ub' = DrawEntry(doAni)'
  BY Zenon DEF SetMenu
<1>4. CASE UNCHANGED listVars /\ ub' = DrawEntry(doAni)'
  <2>1. ListsType' /\ NullInv'
    BY <1>4 DEF listVars, ListsType, NullInv
  <2> QED BY <2>1, <1>4, <1>2, DrawIs, Zenon
<1>5. CASE id \in ListMenus /\ Reload(ListOf[id], doAni)
  <2>1. ListOf[id] \in Lists
    BY <1>5 DEF ListMenus
  <2>2. ListsType' /\ NullInv' /\ ub' \in Causes
    BY <2>1, <1>5, ReloadKeeps, Zenon
  <2> QED BY <2>2, <1>2, <1>5, Zenon
<1> QED BY <1>3, <1>4, <1>5, Zenon

\* The codes of table a that are on are, by name, among those of table b.
OnAmong(a, b) ==
  \A y \in DOMAIN a : a[y].activated =>
    \E z \in DOMAIN b : b[z].activated /\ b[z].name = a[y].name

\* What is among those of a table is among those of a table they are among.
LEMMA OnAmongOn ==
  ASSUME NEW a, NEW b, NEW c, OnAmong(a, b), OnAmong(b, c)
  PROVE  OnAmong(a, c)
<1> SUFFICES ASSUME NEW y \in DOMAIN a, a[y].activated
             PROVE  \E z \in DOMAIN c : c[z].activated /\ c[z].name = a[y].name
  BY Zenon DEF OnAmong
<1>1. PICK x \in DOMAIN b : b[x].activated /\ b[x].name = a[y].name
  BY Zenon DEF OnAmong
<1>2. PICK z \in DOMAIN c : c[z].activated /\ c[z].name = b[x].name
  BY <1>1, Zenon DEF OnAmong
<1> QED BY <1>1, <1>2

\* No two codes of a table have the same name.
Differ(table) == \A y, z \in DOMAIN table : table[y].name = table[z].name => y = z

\* A table sorted by name has the same codes, each once if it had.
LEMMA CodesSorted ==
  ASSUME NEW old \in Seq(GoodCode), NEW table \in QSortCodeList(old)
  PROVE  /\ table \in Seq(GoodCode) /\ OnAmong(table, old) /\ OnAmong(old, table)
         /\ Differ(old) => Differ(table)
<1> DEFINE key == [y \in DOMAIN old |-> old[y].name]
           n == Len(old)
<1>1. n \in Nat /\ DOMAIN old = 1 .. n /\ DOMAIN key = 1 .. n
  OBVIOUS
<1>2. PICK p \in Arrangements(key) : table = [y \in DOMAIN old |-> old[p[y]]]
  BY Zenon DEF QSortCodeList
<1> HIDE DEF key, n
<1>3. /\ p \in [1 .. n -> 1 .. n]
      /\ \A i \in 1 .. n : \E j \in 1 .. n : p[j] = i
  BY <1>1 DEF Arrangements
<1>4. table \in Seq(GoodCode)
  <2>1. table = [y \in 1 .. n |-> old[p[y]]]
    BY <1>1, <1>2
  <2>2. \A y \in 1 .. n : old[p[y]] \in GoodCode
    BY <1>1, <1>3
  <2> HIDE DEF GoodCode
  <2> QED BY <2>1, <2>2, <1>1
<1>5. DOMAIN table = 1 .. n /\ \A y \in 1 .. n : table[y] = old[p[y]]
  BY <1>1, <1>2
<1>6. OnAmong(table, old)
  BY <1>1, <1>3, <1>5 DEF OnAmong
<1>7. OnAmong(old, table)
  <2> SUFFICES ASSUME NEW y \in 1 .. n, old[y].activated
               PROVE  \E z \in 1 .. n : table[z].activated /\ table[z].name = old[y].name
    BY <1>1, <1>5, Zenon DEF OnAmong
  <2>1. PICK z \in 1 .. n : p[z] = y
    BY <1>3
  <2>2. table[z] = old[y]
    BY <2>1, <1>5
  <2> QED BY <2>2
<1>8. ASSUME Differ(old) PROVE Differ(table)
  <2> SUFFICES ASSUME NEW y \in 1 .. n, NEW z \in 1 .. n, table[y].name = table[z].name
               PROVE  y = z
    BY <1>5, Zenon DEF Differ
  <2>1. \A i, j \in 1 .. n : old[i].name = old[j].name => i = j
    BY <1>1, <1>8 DEF Differ
  <2>2. p[y] \in 1 .. n /\ p[z] \in 1 .. n
    BY <1>3
  <2>3. table[y] = old[p[y]] /\ table[z] = old[p[z]]
    BY <1>5
  <2>4. p[y] = p[z]
    BY <2>1, <2>2, <2>3, Zenon
  <2> QED BY <2>4, <1>1, <1>3, EachOnce
<1> QED BY <1>4, <1>6, <1>7, <1>8

\* A table read from a file has codes without choices, and none is on.
LEMMA CodesRead ==
  ASSUME NEW file \in Seq(FileCode)
  PROVE  /\ FreshTable(file) \in Seq(GoodCode)
         /\ \A y \in DOMAIN FreshTable(file) : ~FreshTable(file)[y].activated
         /\ Differ(file) => Differ(FreshTable(file))
<1> DEFINE n == Len(file)
           read(y) == [name |-> file[y].name, cwrite |-> file[y].cwrite, sizes |-> file[y].sizes,
                       lines |-> file[y].lines, activated |-> FALSE, options |-> <<>>]
<1>1. n \in Nat /\ \A y \in 1 .. n : file[y] \in FileCode
  OBVIOUS
<1>2. ASSUME NEW y \in 1 .. n PROVE read(y) \in GoodCode
  <2>1. /\ file[y].name \in Nat /\ file[y].cwrite \in BOOLEAN /\ file[y].sizes \in Seq(Nat \ {0})
        /\ file[y].lines \in Nat
    BY <1>1 DEF FileCode
  <2>2. <<>> \in Seq(Int)
    OBVIOUS
  <2>3. read(y) \in Code
    BY <2>1, <2>2, Zenon DEF Code
  <2>4. read(y).options = <<>>
    OBVIOUS
  <2> HIDE DEF read
  <2> QED BY <2>3, <2>4, Zenon DEF GoodCode
<1>3. FreshTable(file) = [y \in 1 .. n |-> read(y)]
  BY DEF FreshTable
<1>4. \A y \in 1 .. n : ~read(y).activated /\ read(y).name = file[y].name
  OBVIOUS
<1>5. DOMAIN file = 1 .. n
  OBVIOUS
<1> HIDE DEF read, n
<1>6. \A y \in 1 .. n : FreshTable(file)[y] \in GoodCode
  BY <1>2, <1>3
<1>7. Differ(file) => Differ(FreshTable(file))
  BY <1>3, <1>4, <1>5 DEF Differ
<1> HIDE DEF GoodCode
<1> QED BY <1>1, <1>3, <1>4, <1>6, <1>7

\* Where no file gives two codes the same name, loading and sorting a table makes none
\* that does.
LEMMA LoadedDiffer ==
  ASSUME ListsType, RestType, NamesOnce, NEW l \in Lists, NEW t \in Title,
         Differ(codes[l][t]),
         NEW table \in UNION {SortedTable(l, t, tb) : tb \in LoadedTable(l, t)}
  PROVE  Differ(table)
<1>1. codes[l][t] \in Seq(GoodCode)
  BY Zenon DEF ListsType
<1>2. PICK tb \in LoadedTable(l, t) : table \in SortedTable(l, t, tb)
  BY Zenon
<1>3. tb \in Seq(GoodCode) /\ Differ(tb)
  <2>1. CASE codes[l][t] = <<>>
    <3>1. PICK file \in world.ncl[l][t] : tb = FreshTable(file)
      BY <1>2, <2>1, Zenon DEF LoadedTable
    <3>2. world \in Worlds
      BY DEF RestType
    <3>3. Differ(file)
      <4>1. \A y, z \in DOMAIN file : file[y].name = file[z].name => y = z
        BY <3>2 DEF NamesOnce
      <4> QED BY <4>1 DEF Differ
    <3> QED BY <3>1, <3>3, WorldHas, CodesRead, Zenon
  <2>2. CASE codes[l][t] # <<>>
    <3>1. tb = codes[l][t]
      BY <1>2, <2>2, Zenon DEF LoadedTable
    <3> QED BY <3>1, <1>1, Zenon
  <2> QED BY <2>1, <2>2
<1>4. table \in QSortCodeList(tb) \cup {tb}
  BY <1>2, Zenon DEF SortedTable
<1> QED BY <1>3, <1>4, CodesSorted, Zenon

\* Loading and sorting the table of a game switches no code.
LEMMA CodesLoaded ==
  ASSUME ListsType, RestType, NEW l \in Lists, NEW t \in Title,
         NEW table \in UNION {SortedTable(l, t, tb) : tb \in LoadedTable(l, t)}
  PROVE  /\ table \in Seq(GoodCode)
         /\ OnAmong(table, codes[l][t]) /\ OnAmong(codes[l][t], table)
<1>1. codes[l][t] \in Seq(GoodCode)
  BY Zenon DEF ListsType
<1>2. PICK tb \in LoadedTable(l, t) : table \in SortedTable(l, t, tb)
  BY Zenon
<1>3. tb \in Seq(GoodCode) /\ OnAmong(tb, codes[l][t]) /\ OnAmong(codes[l][t], tb)
  <2>1. CASE codes[l][t] = <<>>
    <3>1. PICK file \in world.ncl[l][t] : tb = FreshTable(file)
      BY <1>2, <2>1, Zenon DEF LoadedTable
    <3>2. tb \in Seq(GoodCode) /\ \A y \in DOMAIN tb : ~tb[y].activated
      BY <3>1, WorldHas, CodesRead, Zenon
    <3>3. DOMAIN codes[l][t] = {}
      BY <2>1
    <3> QED BY <3>2, <3>3, Zenon DEF OnAmong
  <2>2. CASE codes[l][t] # <<>>
    <3>1. tb = codes[l][t]
      BY <1>2, <2>2, Zenon DEF LoadedTable
    <3> QED BY <3>1, <1>1, Zenon DEF OnAmong
  <2> QED BY <2>1, <2>2
<1>4. CASE table = tb
  BY <1>3, <1>4
<1>5. CASE table \in QSortCodeList(tb)
  <2>1. table \in Seq(GoodCode) /\ OnAmong(table, tb) /\ OnAmong(tb, table)
    BY <1>3, <1>5, CodesSorted
  <2>2. OnAmong(table, codes[l][t])
    BY <2>1, <1>3, OnAmongOn
  <2>3. OnAmong(codes[l][t], table)
    BY <2>1, <1>3, OnAmongOn
  <2> QED BY <2>1, <2>2, <2>3
<1> QED BY <1>2, <1>4, <1>5, Zenon DEF SortedTable

\* Where an action writes a good code over one of the open table, the tables stay
\* good and the rest of them stays the same.
LEMMA CodeSet ==
  ASSUME ListsType, NullInv, selected_entry \in [list : Lists, title : Title, code_count : Nat],
         selected_entry # NoEntry,
         NEW i \in Nat, i + 1 \in DOMAIN SelectedCodes, NEW c \in GoodCode, SetCode(i, c),
         UNCHANGED <<list, count, code_sorted, selected_entry>>
  PROVE  /\ ListsType' /\ NullInv'
         /\ SelectedCodes' = [SelectedCodes EXCEPT ![i + 1] = c]
         /\ \A l \in Lists, t \in Title :
              l # selected_entry.list \/ t # selected_entry.title => codes'[l][t] = codes[l][t]
<1> DEFINE L == selected_entry.list
           T == selected_entry.title
<1>1. L \in Lists /\ T \in Title
  OBVIOUS
<1>2. SelectedCodes = codes[L][T] /\ SelectedCodes' = codes'[L][T]
  BY DEF SelectedCodes
<1>3. codes \in [Lists -> [Title -> Seq(GoodCode)]]
  BY DEF ListsType
<1> DEFINE table == [codes[L][T] EXCEPT ![i + 1] = c]
           row == [codes[L] EXCEPT ![T] = table]
<1>4. codes' = [codes EXCEPT ![L] = row]
  BY Zenon DEF SetCode
<1> HIDE DEF GoodCode, L, T
<1>5. table \in Seq(GoodCode)
  BY <1>1, <1>2, <1>3
<1>6. row \in [Title -> Seq(GoodCode)] /\ row[T] = table
      /\ \A t \in Title : t # T => row[t] = codes[L][t]
  <2> HIDE DEF table
  <2> QED BY <1>1, <1>3, <1>5
<1> HIDE DEF row, table
<1>7. codes' \in [Lists -> [Title -> Seq(GoodCode)]]
  BY <1>1, <1>3, <1>4, <1>6
<1>8. ListsType'
  BY <1>7, Zenon DEF ListsType
<1>9. codes'[L][T] = table /\ \A k \in Lists : k # L => codes'[k] = codes[k]
  BY <1>1, <1>3, <1>4, <1>6
<1>10. NullInv'
  <2> SUFFICES ASSUME NEW k \in Lists, list'[k] = <<>>, NEW t \in Title PROVE codes'[k][t] = <<>>
    BY Zenon DEF NullInv
  <2>1. codes[k][t] = <<>>
    BY Zenon DEF NullInv
  <2>2. k # L \/ t # T
    BY <2>1, <1>2
  <2>3. codes'[k][t] = codes[k][t]
    BY <1>1, <1>3, <1>4, <1>6, <2>2
  <2> QED BY <2>1, <2>3
<1>11. \A l \in Lists, t \in Title : l # L \/ t # T => codes'[l][t] = codes[l][t]
  BY <1>1, <1>3, <1>4, <1>6, <1>9
<1> QED BY <1>2, <1>8, <1>9, <1>10, <1>11 DEF L, T, table

-----------------------------------------------------------------------------
(* What the steps do to it.                                                *)

\* What the lists, cursors and choices leave alone keeps its type.
LEMMA RestKept ==
  ASSUME RestType, UNCHANGED <<world, filter, installed, doSort, endVars>>, ub' \in Causes
  PROVE  RestType'
PROOF BY DEF RestType, endVars

\* A menu that shows no game needs nothing of the open one.
LEMMA NoneOpen ==
  ASSUME menu_id' \notin {5, 6, 7} PROVE OpenInv'
PROOF BY DEF OpenInv, SelectedLive

\* Back from a code, the game is still open.
LEMMA StillOpen ==
  ASSUME OpenInv, menu_id \in {5, 6, 7}, menu_id' = 5, UNCHANGED <<list, selected_entry>>,
         Len(SelectedCodes') = Len(SelectedCodes)
  PROVE  OpenInv'
PROOF BY DEF OpenInv, SelectedLive

\* A frame that changes nothing but what is wrong, if anything, keeps all.
LEMMA NothingMoves ==
  ASSUME DataInv, UNCHANGED <<listVars, navVars, selVars>>, RestType'
  PROVE  DataInv'
<1> USE DEF DataInv, listVars, navVars, selVars
<1>1. CursorsType'
  BY DEF CursorsType
<1>2. ListsType' /\ NullInv'
  BY DEF ListsType, NullInv
<1>3. SelectedType'
  BY DEF SelectedType
<1>4. OpenInv'
  <2>1. SelectedCodes' = SelectedCodes
    BY DEF SelectedCodes
  <2>2. Viewed' = Viewed
    BY <2>1 DEF Viewed
  <2> QED BY <2>1, <2>2 DEF OpenInv, SelectedLive
<1> QED BY <1>1, <1>2, <1>3, <1>4

\* A frame that goes wrong keeps what is there.
LEMMA UndefinedKeeps ==
  ASSUME DataInv, NEW where \in Causes, Undefined(where)
  PROVE  DataInv'
<1>1. RestType'
  BY RestKept DEF Undefined, DataInv
<1> QED BY <1>1, NothingMoves DEF Undefined

\* Moving the cursor, over the lines and choices there are.
LEMMA PointKeeps ==
  ASSUME DataInv, NEW s \in Int, PointTo(s),
         menu_id = 6 /\ Viewed.lines > 0 => s \in 0 .. Viewed.lines - 1,
         menu_id = 7 => s \in 0 .. Viewed.sizes[option_index + 1] - 1
  PROVE  DataInv'
<1>1. /\ menu_sel' = s /\ UNCHANGED <<menu_id, menu_old_sel, listVars, selVars>>
      /\ UNCHANGED <<world, filter, installed, doSort, endVars>> /\ ub' \in Causes
  BY DrawIs, Zenon DEF PointTo
<1>2. RestType'
  BY <1>1, RestKept DEF DataInv
<1>3. CursorsType'
  BY <1>1 DEF DataInv, CursorsType
<1>4. ListsType' /\ NullInv' /\ SelectedType'
  BY <1>1 DEF DataInv, ListsType, NullInv, SelectedType, listVars, selVars
<1>5. OpenInv'
  <2>1. SelectedCodes' = SelectedCodes
    BY <1>1 DEF SelectedCodes, listVars, selVars
  <2>2. Viewed' = Viewed
    BY <2>1, <1>1 DEF Viewed, selVars
  <2> QED BY <2>1, <2>2, <1>1 DEF DataInv, OpenInv, SelectedLive, listVars, selVars
<1> QED BY <1>2, <1>3, <1>4, <1>5 DEF DataInv

\* Going to a menu that shows no game, reading its list if it has one to read.
LEMMA LeaveKeeps ==
  ASSUME DataInv, NEW id, id \notin {5, 6, 7}, SetMenu(id),
         UNCHANGED <<world, filter, installed, doSort, selVars, endVars>>
  PROVE  DataInv'
<1>1. /\ CursorsType' /\ ListsType' /\ NullInv' /\ ub' \in Causes
      /\ menu_id' = id
  BY SetMenuKeeps DEF DataInv
<1>2. RestType'
  BY <1>1, RestKept DEF DataInv
<1>3. SelectedType'
  BY DEF DataInv, SelectedType, selVars
<1>4. OpenInv'
  BY <1>1, NoneOpen
<1> QED BY <1>1, <1>2, <1>3, <1>4 DEF DataInv

\* The actions of the main, about and options menus.
LEMMA MainKeeps ==
  ASSUME DataInv,
         Start \/ ExitToXMB \/ BackToMain \/ sort_callback
           \/ \E id \in ListMenus \cup {3, 4} : MainCross(id)
  PROVE  DataInv'
<1>1. CASE Start
  <2>1. CASE \E where \in {"list", "export"} : Undefined(where)
    BY <2>1, UndefinedKeeps DEF Causes
  <2>2. CASE /\ art'.written = TRUE /\ close_art' = TRUE
             /\ UNCHANGED <<world, listVars, filter, installed, doSort, navVars, selVars, ub>>
    <3>1. RestType'
      BY <2>2 DEF DataInv, RestType
    <3> QED BY <2>2, <3>1, NothingMoves
  <2>3. ASSUME NEW c, art' = [written |-> TRUE, codes |-> c] PROVE art'.written = TRUE
    BY <2>3
  <2> QED BY <1>1, <2>1, <2>2, <2>3, Zenon DEF Start
<1>2. CASE ExitToXMB
  <2>1. RestType'
    BY <1>2 DEF DataInv, RestType, ExitToXMB
  <2> QED BY <1>2, <2>1, NothingMoves DEF ExitToXMB
<1>3. CASE BackToMain
  BY <1>3, LeaveKeeps DEF BackToMain
<1>4. CASE sort_callback
  <2>1. RestType'
    <3>1. doSort' \in BOOLEAN
      BY <1>4 DEF sort_callback
    <3> QED BY <1>4, <3>1 DEF DataInv, RestType, sort_callback, endVars
  <2> QED BY <1>4, <2>1, NothingMoves DEF sort_callback
<1>5. ASSUME NEW id \in ListMenus \cup {3, 4}, MainCross(id) PROVE DataInv'
  BY <1>5, LeaveKeeps DEF MainCross, ListMenus
<1> QED BY <1>1, <1>2, <1>3, <1>4, <1>5

\* Moving about in a list.
LEMMA ListMoveKeeps ==
  ASSUME DataInv, NEW m \in ListMenus, ListMove(m) \/ ListLetter(m)
  PROVE  DataInv'
<1> DEFINE l == ListOf[m]
<1>1. menu_id = m /\ m \in {1, 2} /\ l \in Lists
  BY DEF ListMove, ListLetter, InMenu, ListMenus
<1>2. menu_sel \in Int /\ count[l] \in Int
  BY <1>1 DEF DataInv, CursorsType, ListsType
<1>3. ASSUME NEW s \in Int, PointTo(s) PROVE DataInv'
  BY <1>1, <1>3, PointKeeps
<1>4. CASE ListMove(m)
  <2>1. PICK steps \in {1, 5, 25} :
          \/ PointTo(move_selection_back(menu_sel, count[l], steps))
          \/ PointTo(move_selection_fwd(menu_sel, count[l], steps))
    BY <1>4, Zenon DEF ListMove
  <2>2. steps \in Int
    OBVIOUS
  <2> HIDE DEF l
  <2> QED BY <2>1, <2>2, <1>2, <1>3, CursorType
<1>5. CASE ListLetter(m)
  <2>1. CASE OnEntry(l) /\ count[l] <= Len(list[l])
    <3>1. \/ PointTo(move_letter_back(list[l], Letter, menu_sel))
          \/ PointTo(move_letter_fwd(list[l], Letter, menu_sel, count[l]))
      BY <1>5, <2>1, Zenon DEF ListLetter
    <3>2. menu_sel \in Nat
      BY <2>1, <1>2 DEF OnEntry
    <3> HIDE DEF l
    <3> QED BY <3>1, <3>2, <1>2, <1>3, LetterJumps
  <2>2. CASE ~(OnEntry(l) /\ count[l] <= Len(list[l]))
    <3>1. Undefined("list")
      BY <1>5, <2>2, Zenon DEF ListLetter
    <3> QED BY <3>1, UndefinedKeeps DEF Causes
  <2> QED BY <2>1, <2>2
<1> QED BY <1>4, <1>5

\* Choosing a game: its table is there, and the copy remembers its length.
LEMMA ListCrossKeeps ==
  ASSUME DataInv, NEW m \in ListMenus, ListCross(m)
  PROVE  DataInv'
<1> DEFINE l == ListOf[m]
           t == list[l][menu_sel + 1]
<1>1. l \in Lists /\ l \in {"user", "online"}
  BY DEF ListMenus, ListOf
<1>2. CASE ~OnEntry(l)
  <2>1. Undefined("list")
    BY <1>2, Zenon DEF ListCross
  <2> QED BY <2>1, UndefinedKeeps DEF Causes
<1>3. CASE OnEntry(l)
  <2>1. PICK table \in UNION {SortedTable(l, t, tb) : tb \in LoadedTable(l, t)} :
          /\ codes' = [codes EXCEPT ![l][t] = table]
          /\ code_sorted' = IF doSort THEN [code_sorted EXCEPT ![l] = @ \cup {t}] ELSE code_sorted
          /\ selected_entry' = [list |-> l, title |-> t, code_count |-> Len(table)]
          /\ UNCHANGED <<world, list, count, filter, installed, doSort, selected_centry,
                         option_index, endVars>>
          /\ EnterMenu(5)
          /\ ub' = Draw'
    BY <1>3, Zenon DEF ListCross
  <2>2. menu_sel \in 0 .. Len(list[l]) - 1 /\ list[l] \in Seq(Title)
    BY <1>1, <1>3 DEF OnEntry, DataInv, ListsType
  <2>3. t \in Title /\ t \in Range(list[l]) /\ list[l] # <<>>
    BY <2>2 DEF Range
  <2> HIDE DEF l, t
  <2>4. table \in Seq(GoodCode)
    BY <1>1, <2>1, <2>3, CodesLoaded DEF DataInv
  <2>5. codes \in [Lists -> [Title -> Seq(GoodCode)]] /\ code_sorted \in [Lists -> SUBSET Title]
    BY DEF DataInv, ListsType
  <2> HIDE DEF GoodCode
  <2> DEFINE row == [codes[l] EXCEPT ![t] = table]
  <2>6. codes' = [codes EXCEPT ![l] = row]
    BY <2>1
  <2>7. row \in [Title -> Seq(GoodCode)] /\ row[t] = table
    BY <1>1, <2>3, <2>4, <2>5
  <2> HIDE DEF row
  <2>8. codes' \in [Lists -> [Title -> Seq(GoodCode)]] /\ codes'[l][t] = table
        /\ \A k \in Lists : k # l => codes'[k] = codes[k]
    BY <1>1, <2>5, <2>6, <2>7
  <2>9. code_sorted' \in [Lists -> SUBSET Title]
    <3> DEFINE s == code_sorted[l] \cup {t}
    <3>1. s \in SUBSET Title
      BY <1>1, <2>3, <2>5
    <3>2. code_sorted' \in {code_sorted, [code_sorted EXCEPT ![l] = s]}
      BY <2>1, Zenon
    <3> HIDE DEF s
    <3> QED BY <3>1, <3>2, <1>1, <2>5
  <2>10. ListsType'
    BY <2>1, <2>8, <2>9 DEF DataInv, ListsType
  <2>11. NullInv'
    BY <2>1, <2>3, <2>8 DEF DataInv, NullInv
  <2>12. CursorsType' /\ menu_id' = 5
    BY <2>1, EnterMenuCursors DEF DataInv
  <2>13. RestType'
    BY <2>1, DrawIs, RestKept DEF DataInv
  <2>14. Len(table) \in Nat
    BY <2>4
  <2>15. SelectedType' /\ selected_entry' # NoEntry
    BY <1>1, <2>1, <2>3, <2>14 DEF DataInv, SelectedType, NoEntry
  <2>16. SelectedCodes' = table
    BY <2>1, <2>8, <2>15 DEF SelectedCodes
  <2>17. OpenInv'
    BY <2>1, <2>3, <2>12, <2>15, <2>16 DEF OpenInv, SelectedLive
  <2> QED BY <2>10, <2>11, <2>12, <2>13, <2>15, <2>17 DEF DataInv
<1> QED BY <1>2, <1>3

\* Filtering a list and showing it in full again keeps its games, each once.
LEMMA TriangleKeepsGames ==
  ASSUME ListsType, RestType, NEW l \in Lists, Unfilter(l) \/ Filter(l)
  PROVE  /\ \E games \in Seq(Title) : /\ Len(games) = Len(list[l]) /\ SameGames(games, list[l])
                                      /\ list' = [list EXCEPT ![l] = games]
         /\ \E n \in Int : count' = [count EXCEPT ![l] = n]
         /\ \E n \in Int : filter' = [filter EXCEPT ![l] = n]
         /\ installed' \in (SUBSET Title) \cup {Unscanned}
         /\ ub' \in Causes
<1>1. list[l] \in Seq(Title) /\ count[l] \in Int /\ filter[l] \in Int
  BY DEF ListsType, RestType
<1>2. CASE Unfilter(l)
  <2>1. /\ count' = [count EXCEPT ![l] = filter[l]] /\ filter' = [filter EXCEPT ![l] = 0]
        /\ UNCHANGED installed /\ ub' \in {"sort", Draw'}
    BY <1>2, Zenon DEF Unfilter
  <2>2. PICK games \in (IF doSort THEN QSortGameList(list[l], filter[l]) ELSE {list[l]}) :
          list' = [list EXCEPT ![l] = games]
    BY <1>2, Zenon DEF Unfilter
  <2>3. games \in Seq(Title) /\ Len(games) = Len(list[l]) /\ SameGames(games, list[l])
    BY <2>2, <1>1, Sorted, Zenon DEF SameGames
  <2>4. installed' \in (SUBSET Title) \cup {Unscanned}
    BY <2>1 DEF RestType
  <2>5. ub' \in Causes
    BY <2>1, DrawIs, Zenon DEF Causes
  <2>6. 0 \in Int
    OBVIOUS
  <2> QED BY <2>1, <2>2, <2>3, <2>4, <2>5, <2>6, <1>1, Zenon
<1>3. CASE Filter(l)
  <2> DEFINE n == count[l]
             result == FilterInstalledGameList(list[l], n, installed')
  <2>1. filter' = [filter EXCEPT ![l] = n] /\ installed' \in LoadGames
    BY <1>3, Zenon DEF Filter
  <2>2. installed' \in (SUBSET Title) \cup {Unscanned}
    <3>1. world.ids \subseteq SUBSET Title
      BY WorldHas
    <3>2. installed' \in world.ids \cup {installed}
      BY <2>1, Zenon DEF LoadGames
    <3> QED BY <3>1, <3>2 DEF RestType
  <2>3. CASE n > 1 /\ n > Len(list[l])
    <3>1. ub' = "list" /\ list' = list /\ count' = count
      BY <1>3, <2>3, Zenon DEF Filter
    <3>2. list' = [list EXCEPT ![l] = list[l]] /\ count' = [count EXCEPT ![l] = n]
          /\ SameGames(list[l], list[l])
      BY <3>1 DEF ListsType, SameGames
    <3>3. ub' \in Causes
      BY <3>1 DEF Causes
    <3> QED BY <3>2, <3>3, <2>1, <2>2, <1>1, Zenon
  <2>4. CASE ~(n > 1 /\ n > Len(list[l]))
    <3>1. /\ count' = [count EXCEPT ![l] = result.b]
          /\ \E games \in (IF doSort THEN QSortGameList(result.games, result.b)
                           ELSE {result.games}) : list' = [list EXCEPT ![l] = games]
          /\ ub' \in {"sort", Draw'}
      BY <1>3, <2>4, Zenon DEF Filter
    <3>2. n > 1 => n <= Len(list[l])
      BY <2>4, <1>1
    <3>3. result \in Filtering(Title, list[l], n)
      BY <3>2, <1>1, Filtered
    <3>4. result.games \in Seq(Title) /\ Len(result.games) = Len(list[l])
          /\ SameGames(result.games, list[l]) /\ result.b \in Int
      BY <3>3 DEF Filtering
    <3> HIDE DEF result
    <3>5. PICK games \in (IF doSort THEN QSortGameList(result.games, result.b)
                          ELSE {result.games}) : list' = [list EXCEPT ![l] = games]
      BY <3>1
    <3>6. games \in Seq(Title) /\ Len(games) = Len(list[l]) /\ SameGames(games, list[l])
      <4>1. CASE doSort
        <5>1. /\ games \in Seq(Title) /\ Len(games) = Len(result.games)
              /\ SameGames(games, result.games)
          BY <4>1, <3>4, <3>5, Sorted, Zenon
        <5>2. SameGames(games, list[l])
          BY <5>1, <3>4, Zenon DEF SameGames
        <5> QED BY <5>1, <5>2, <3>4
      <4>2. CASE ~doSort
        <5>1. games = result.games
          BY <4>2, <3>5
        <5> QED BY <5>1, <3>4
      <4> QED BY <4>1, <4>2
    <3>7. ub' \in Causes
      BY <3>1, DrawIs, Zenon DEF Causes
    <3> QED BY <3>1, <3>4, <3>5, <3>6, <3>7, <2>1, <2>2, <1>1, Zenon
  <2> QED BY <2>3, <2>4
<1> QED BY <1>2, <1>3

\* Nothing else is lost by it.
LEMMA ListTriangleKeeps ==
  ASSUME DataInv, NEW m \in ListMenus, ListTriangle(m)
  PROVE  DataInv'
<1> DEFINE l == ListOf[m]
<1>1. l \in Lists /\ m \in {1, 2}
  BY DEF ListMenus, ListOf
<1>2. /\ UNCHANGED <<world, codes, code_sorted, doSort, menu_id, menu_old_sel, selVars, endVars>>
      /\ menu_sel' = 0 /\ menu_id = m
      /\ Unfilter(l) \/ Filter(l)
  BY Zenon DEF ListTriangle, InMenu
<1> HIDE DEF l
<1>3. /\ \E games \in Seq(Title) : /\ Len(games) = Len(list[l]) /\ SameGames(games, list[l])
                                   /\ list' = [list EXCEPT ![l] = games]
      /\ \E n \in Int : count' = [count EXCEPT ![l] = n]
      /\ \E n \in Int : filter' = [filter EXCEPT ![l] = n]
      /\ installed' \in (SUBSET Title) \cup {Unscanned}
      /\ ub' \in Causes
  BY <1>1, <1>2, TriangleKeepsGames DEF DataInv
<1>4. PICK games \in Seq(Title) : Len(games) = Len(list[l]) /\ list' = [list EXCEPT ![l] = games]
  BY <1>3, Zenon
<1>5. ListsType'
  <2>1. list' \in [Lists -> Seq(Title)]
    BY <1>4 DEF DataInv, ListsType
  <2>2. count' \in [Lists -> Int]
    BY <1>3 DEF DataInv, ListsType
  <2> QED BY <1>2, <2>1, <2>2 DEF DataInv, ListsType
<1>6. NullInv'
  <2> SUFFICES ASSUME NEW k \in Lists, list'[k] = <<>> PROVE list[k] = <<>>
    BY <1>2, Zenon DEF DataInv, NullInv
  <2>1. list \in [Lists -> Seq(Title)]
    BY DEF DataInv, ListsType
  <2> QED BY <1>1, <1>4, <2>1
<1>7. RestType'
  <2>1. filter' \in [Lists -> Int]
    BY <1>3 DEF DataInv, RestType
  <2> QED BY <1>2, <1>3, <2>1 DEF DataInv, RestType, endVars
<1>8. CursorsType' /\ SelectedType' /\ OpenInv'
  BY <1>1, <1>2, NoneOpen DEF DataInv, CursorsType, SelectedType, selVars
<1> QED BY <1>5, <1>6, <1>7, <1>8 DEF DataInv

\* Reading a list again.
LEMMA ListSquareKeeps ==
  ASSUME DataInv, NEW m \in ListMenus, ListSquare(m)
  PROVE  DataInv'
<1>1. /\ UNCHANGED <<world, filter, installed, doSort, navVars, selVars, endVars>>
      /\ Reload(ListOf[m], FALSE) /\ menu_id = m
  BY Zenon DEF ListSquare, InMenu
<1>2. ListOf[m] \in Lists /\ m \in {1, 2}
  BY DEF ListMenus
<1>3. ListsType' /\ NullInv' /\ ub' \in Causes
  BY <1>1, <1>2, ReloadKeeps DEF DataInv
<1>4. RestType'
  BY <1>1, <1>3, RestKept DEF DataInv
<1>5. CursorsType' /\ SelectedType' /\ OpenInv'
  BY <1>1, <1>2, NoneOpen DEF DataInv, CursorsType, SelectedType, navVars, selVars
<1> QED BY <1>3, <1>4, <1>5 DEF DataInv

\* What is known of the open game.
LEMMA OpenGame ==
  ASSUME NavInv, DataInv, menu_id \in {5, 6, 7}
  PROVE  /\ selected_entry \in [list : Lists, title : Title, code_count : Nat]
         /\ selected_entry # NoEntry
         /\ SelectedCodes \in Seq(GoodCode) /\ Len(SelectedCodes) = selected_entry.code_count
         /\ last_menu_id[5] \in ListMenus
         /\ menu_id \in {6, 7} => last_menu_id[menu_id] = 5 /\ Viewed \in GoodCode
         /\ menu_id = 7 => OptionTarget = selected_centry
<1>1. selected_entry \in [list : Lists, title : Title, code_count : Nat] /\ selected_entry # NoEntry
  BY DEF DataInv, SelectedType, OpenInv, SelectedLive
<1>2. SelectedCodes \in Seq(GoodCode)
  <2>1. codes[selected_entry.list][selected_entry.title] \in Seq(GoodCode)
    BY <1>1 DEF DataInv, ListsType
  <2> QED BY <1>1, <2>1, Zenon DEF SelectedCodes
<1>3. Len(SelectedCodes) = selected_entry.code_count
  BY DEF DataInv, OpenInv, SelectedLive
<1>4. /\ last_menu_id[5] \in ListMenus
      /\ menu_id \in {6, 7} => last_menu_id[menu_id] = 5
      /\ menu_id = 7 => OptionTarget = selected_centry
  BY DEF NavInv, BackGoesToOwner, OptionTarget
<1>5. menu_id \in {6, 7} => Viewed \in GoodCode
  <2>1. menu_id \in {6, 7} => selected_centry + 1 \in DOMAIN SelectedCodes
    BY DEF DataInv, OpenInv
  <2> HIDE DEF GoodCode
  <2> QED BY <1>2, <2>1 DEF Viewed
<1> QED BY <1>1, <1>2, <1>3, <1>4, <1>5

\* Moving about in the codes, the lines of a code and the choices of an option.
LEMMA GameMoveKeeps ==
  ASSUME NavInv, DataInv, CodesMove \/ ViewMove \/ OptionMove
  PROVE  DataInv'
<1>1. CASE CodesMove
  <2>1. menu_id = 5 /\ menu_sel \in Int
    BY <1>1 DEF CodesMove, InMenu, DataInv, CursorsType
  <2>2. selected_entry.code_count \in Int
    BY <2>1, OpenGame
  <2>3. PICK steps \in {1, 5} :
          \/ PointTo(move_selection_back(menu_sel, selected_entry.code_count, steps))
          \/ PointTo(move_selection_fwd(menu_sel, selected_entry.code_count, steps))
    BY <1>1, Zenon DEF CodesMove
  <2>4. steps \in Int
    OBVIOUS
  <2>5. ASSUME NEW s \in Int, PointTo(s) PROVE DataInv'
    BY <2>1, <2>5, PointKeeps
  <2> QED BY <2>1, <2>2, <2>3, <2>4, <2>5, CursorType
<1>2. CASE ViewMove
  <2> DEFINE max == IF Viewed.lines = 0 THEN 1 ELSE Viewed.lines
  <2>1. menu_id = 6 /\ menu_sel \in Int
    BY <1>2 DEF ViewMove, InMenu, DataInv, CursorsType
  <2>2. Viewed.lines \in Nat
    BY <2>1, OpenGame DEF GoodCode, Code
  <2>3. max \in Nat \ {0} /\ (Viewed.lines > 0 => max = Viewed.lines)
    BY <2>2
  <2>4. Viewed.lines > 0 => menu_sel \in 0 .. max - 1
    BY <2>1, <2>3 DEF DataInv, OpenInv
  <2>5. \/ PointTo(move_selection_back(menu_sel, max, 1))
        \/ PointTo(move_selection_fwd(menu_sel, max, 1))
    BY <1>2, Zenon DEF ViewMove
  <2> HIDE DEF max
  <2>6. ASSUME NEW s \in Int, PointTo(s), Viewed.lines > 0 => s \in 0 .. max - 1 PROVE DataInv'
    BY <2>1, <2>3, <2>6, PointKeeps
  <2>7. /\ move_selection_back(menu_sel, max, 1) \in Int
        /\ move_selection_fwd(menu_sel, max, 1) \in Int
    <3>1. max \in Int /\ 1 \in Int
      BY <2>3
    <3> QED BY <2>1, <3>1, CursorType, Zenon
  <2>8. Viewed.lines > 0 => /\ move_selection_back(menu_sel, max, 1) \in 0 .. max - 1
                            /\ move_selection_fwd(menu_sel, max, 1) \in 0 .. max - 1
    BY <2>3, <2>4, CursorKept, 1 \in Nat \ {0}
  <2> QED BY <2>5, <2>6, <2>7, <2>8
<1>3. CASE OptionMove
  <2> DEFINE max == Viewed.sizes[option_index + 1]
  <2>1. menu_id = 7 /\ Viewed \in GoodCode
    BY <1>3, OpenGame DEF OptionMove, InMenu
  <2>2. option_index + 1 \in DOMAIN Viewed.options /\ menu_sel \in 0 .. max - 1
    BY <2>1 DEF DataInv, OpenInv
  <2>3. max \in Nat \ {0}
    <3>1. Viewed.sizes \in Seq(Nat \ {0}) /\ Len(Viewed.options) = Len(Viewed.sizes)
          /\ Viewed.options \in Seq(Int)
      BY <2>1, <2>2 DEF GoodCode, Code
    <3> QED BY <3>1, <2>2
  <2>4. \/ PointTo(move_selection_back(menu_sel, max, 1))
        \/ PointTo(move_selection_fwd(menu_sel, max, 1))
    BY <1>3, Zenon DEF OptionMove
  <2> HIDE DEF max
  <2>5. ASSUME NEW s \in Int, PointTo(s), s \in 0 .. max - 1 PROVE DataInv'
    BY <2>1, <2>5, PointKeeps DEF max
  <2>6. /\ move_selection_back(menu_sel, max, 1) \in 0 .. max - 1
        /\ move_selection_fwd(menu_sel, max, 1) \in 0 .. max - 1
    BY <2>2, <2>3, CursorKept, 1 \in Nat \ {0}
  <2>7. 0 .. max - 1 \subseteq Int
    BY <2>3
  <2> QED BY <2>4, <2>5, <2>6, <2>7
<1> QED BY <1>1, <1>2, <1>3

\* The code under the cursor, switched or changed.
LEMMA CodeUnderCursor ==
  ASSUME NavInv, DataInv, menu_id = 5, OnCode
  PROVE  /\ menu_sel \in Nat /\ menu_sel + 1 \in DOMAIN SelectedCodes
         /\ SelectedCodes[menu_sel + 1] \in GoodCode
<1>1. SelectedCodes \in Seq(GoodCode) /\ menu_sel \in Int
  BY OpenGame DEF DataInv, CursorsType
<1> HIDE DEF GoodCode
<1>2. menu_sel \in Nat /\ menu_sel + 1 \in DOMAIN SelectedCodes
  BY <1>1 DEF OnCode
<1> QED BY <1>1, <1>2

\* A good code stays one when it is switched on or off, when its mark is changed,
\* when its choices are read, and when one of them is taken.
LEMMA CodeStaysGood ==
  ASSUME NEW c \in GoodCode
  PROVE  /\ \A b \in BOOLEAN : [c EXCEPT !.activated = b] \in GoodCode
         /\ [c EXCEPT !.cwrite = ~@] \in GoodCode
         /\ [c EXCEPT !.activated = TRUE, !.options = ReadOptions(c)] \in GoodCode
         /\ \A j \in DOMAIN c.options : \A s \in 0 .. c.sizes[j] - 1 :
              [c EXCEPT !.options[j] = s] \in GoodCode
<1>1. /\ c \in Code
      /\ c.name \in Nat /\ c.cwrite \in BOOLEAN /\ c.sizes \in Seq(Nat \ {0}) /\ c.lines \in Nat
      /\ c.activated \in BOOLEAN /\ c.options \in Seq(Int)
      /\ c = [name |-> c.name, cwrite |-> c.cwrite, sizes |-> c.sizes, lines |-> c.lines,
              activated |-> c.activated, options |-> c.options]
  BY DEF GoodCode, Code
<1>2. c.options # <<>> => /\ Len(c.options) = Len(c.sizes)
                          /\ \A i \in 1 .. Len(c.sizes) : c.options[i] \in 0 .. c.sizes[i] - 1
  BY DEF GoodCode
<1>3. ASSUME NEW b \in BOOLEAN PROVE [c EXCEPT !.activated = b] \in GoodCode
  BY <1>1, <1>2 DEF GoodCode, Code
<1>4. [c EXCEPT !.cwrite = ~@] \in GoodCode
  BY <1>1, <1>2 DEF GoodCode, Code
<1>5. [c EXCEPT !.activated = TRUE, !.options = ReadOptions(c)] \in GoodCode
  <2> DEFINE o == ReadOptions(c)
  <2>1. o \in Seq(Int) /\ Len(o) = Len(c.sizes)
        /\ \A i \in 1 .. Len(c.sizes) : o[i] \in 0 .. c.sizes[i] - 1
    <3>1. CASE c.options = <<>>
      <4>1. o = [i \in 1 .. Len(c.sizes) |-> 0]
        BY <3>1 DEF ReadOptions
      <4>2. \A i \in 1 .. Len(c.sizes) : c.sizes[i] \in Nat \ {0}
        BY <1>1
      <4>3. Len(c.sizes) \in Nat
        BY <1>1
      <4> HIDE DEF o
      <4> QED BY <4>1, <4>2, <4>3
    <3>2. CASE c.options # <<>>
      BY <3>2, <1>1, <1>2 DEF ReadOptions
    <3> QED BY <3>1, <3>2
  <2> HIDE DEF o
  <2>2. [c EXCEPT !.activated = TRUE, !.options = o] \in GoodCode
    BY <1>1, <2>1 DEF GoodCode, Code
  <2> QED BY <2>2 DEF o
<1>6. ASSUME NEW j \in DOMAIN c.options, NEW s \in 0 .. c.sizes[j] - 1
      PROVE  [c EXCEPT !.options[j] = s] \in GoodCode
  <2> DEFINE o == [c.options EXCEPT ![j] = s]
  <2>1. Len(c.options) = Len(c.sizes) /\ j \in 1 .. Len(c.sizes) /\ Len(c.sizes) \in Nat
    BY <1>1, <1>2
  <2>2. c.sizes[j] \in Nat /\ s \in Int
    BY <1>1, <2>1
  <2>3. o \in Seq(Int) /\ Len(o) = Len(c.sizes)
    BY <1>1, <2>1, <2>2
  <2>4. \A i \in 1 .. Len(c.sizes) : o[i] \in 0 .. c.sizes[i] - 1
    BY <1>1, <1>2, <2>1
  <2>5. [c EXCEPT !.options[j] = s] = [c EXCEPT !.options = o]
    BY Zenon
  <2> HIDE DEF o
  <2>6. [c EXCEPT !.options = o] \in GoodCode
    BY <1>1, <2>3, <2>4 DEF GoodCode, Code
  <2> QED BY <2>5, <2>6
<1> QED BY <1>3, <1>4, <1>5, <1>6

\* Switching a code, and reading its choices, in the codes of the game.
LEMMA CodesCrossKeeps ==
  ASSUME NavInv, DataInv, CodesCross \/ CodesSquare
  PROVE  DataInv'
<1>1. menu_id = 5
  BY DEF CodesCross, CodesSquare, InMenu
<1>2. CASE ~OnCode
  <2>1. Undefined("codes")
    BY <1>2, Zenon DEF CodesCross, CodesSquare
  <2> QED BY <2>1, UndefinedKeeps DEF Causes
<1>3. CASE OnCode
  <2> DEFINE c == SelectedCodes[menu_sel + 1]
             on == [c EXCEPT !.activated = TRUE, !.options = ReadOptions(c)]
             off == [c EXCEPT !.activated = FALSE]
             turned == [c EXCEPT !.cwrite = ~@]
  <2>1. menu_sel \in Nat /\ menu_sel + 1 \in DOMAIN SelectedCodes /\ c \in GoodCode
    BY <1>1, <1>3, CodeUnderCursor
  <2>2. on \in GoodCode /\ off \in GoodCode /\ turned \in GoodCode
    BY <2>1, CodeStaysGood
  <2>3. UNCHANGED <<world, list, count, code_sorted, filter, installed, doSort, selected_entry,
                    endVars>> /\ ub' = Draw'
    BY <1>3, Zenon DEF CodesCross, CodesSquare, selVars
  <2>4. RestType'
    BY <2>3, DrawIs, RestKept DEF DataInv
  <2>5. ASSUME NEW d \in GoodCode, SetCode(menu_sel, d)
        PROVE  ListsType' /\ NullInv' /\ SelectedCodes' = [SelectedCodes EXCEPT ![menu_sel + 1] = d]
    BY <1>1, <2>1, <2>3, <2>5, OpenGame, CodeSet DEF DataInv
  <2>6. SelectedCodes \in Seq(GoodCode) /\ Len(SelectedCodes) = selected_entry.code_count
    BY <1>1, OpenGame
  <2>7. \/ on.options # <<>> /\ SetCode(menu_sel, on) /\ EnterMenu(7)
           /\ selected_centry' = menu_sel /\ option_index' = 0
        \/ (\E d \in {on, off, turned} : SetCode(menu_sel, d))
           /\ UNCHANGED <<selected_centry, option_index, navVars>>
    BY <1>3, Zenon DEF CodesCross, CodesSquare, Activate, Deactivate, selVars
  <2>8. on.activated = TRUE /\ on.options = ReadOptions(c)
    BY <2>1 DEF GoodCode, Code
  <2> HIDE DEF on, off, turned, c, GoodCode
  <2>9. CASE /\ on.options # <<>> /\ SetCode(menu_sel, on) /\ EnterMenu(7)
             /\ selected_centry' = menu_sel /\ option_index' = 0
    <3>1. ListsType' /\ NullInv' /\ SelectedCodes' = [SelectedCodes EXCEPT ![menu_sel + 1] = on]
      BY <2>2, <2>5, <2>9
    <3>2. CursorsType' /\ menu_id' = 7 /\ menu_sel' = 0
      BY <2>9, EnterMenuCursors DEF DataInv
    <3>3. SelectedType'
      BY <2>1, <2>3, <2>9 DEF DataInv, SelectedType
    <3>4. Viewed' = on
      BY <2>1, <2>6, <2>9, <3>1 DEF Viewed
    <3>5. /\ DOMAIN SelectedCodes' = DOMAIN SelectedCodes
          /\ Len(SelectedCodes') = Len(SelectedCodes)
      BY <2>6, <3>1
    <3>6. 1 \in DOMAIN on.options /\ on.sizes[1] \in Nat \ {0}
      <4>1. on.sizes \in Seq(Nat \ {0}) /\ on.options \in Seq(Int)
            /\ Len(on.options) = Len(on.sizes)
        BY <2>2, <2>9 DEF GoodCode, Code
      <4> QED BY <2>9, <4>1
    <3>7. SelectedLive'
      BY <1>1, <2>3, <2>6, <3>5 DEF DataInv, OpenInv, SelectedLive
    <3>8. OpenInv'
      BY <2>1, <2>8, <2>9, <3>2, <3>4, <3>5, <3>6, <3>7 DEF OpenInv
    <3> QED BY <2>4, <3>1, <3>2, <3>3, <3>8 DEF DataInv
  <2>10. CASE /\ \E d \in {on, off, turned} : SetCode(menu_sel, d)
              /\ UNCHANGED <<selected_centry, option_index, navVars>>
    <3>1. PICK d \in GoodCode : SetCode(menu_sel, d)
      BY <2>2, <2>10
    <3>2. ListsType' /\ NullInv' /\ SelectedCodes' = [SelectedCodes EXCEPT ![menu_sel + 1] = d]
      BY <2>5, <3>1
    <3>3. Len(SelectedCodes') = Len(SelectedCodes)
      BY <2>6, <3>2
    <3>4. OpenInv'
      BY <1>1, <2>3, <2>10, <3>3, StillOpen DEF DataInv, navVars
    <3> QED BY <2>3, <2>4, <2>10, <3>2, <3>4 DEF DataInv, CursorsType, SelectedType, navVars
  <2> QED BY <2>7, <2>9, <2>10
<1> QED BY <1>2, <1>3

\* Opening the view of a code and leaving it, and leaving the game.
LEMMA ViewKeeps ==
  ASSUME NavInv, DataInv, CodesTriangle \/ ViewCircle \/ CodesLeave
  PROVE  DataInv'
<1>1. CASE CodesLeave
  <2>1. PICK id \in {0, last_menu_id[5]} : SetMenu(id)
    BY <1>1 DEF CodesLeave
  <2>2. menu_id = 5 /\ UNCHANGED <<world, filter, installed, doSort, selVars, endVars>>
    BY <1>1, Zenon DEF CodesLeave, InMenu
  <2>3. id \notin {5, 6, 7}
    BY <2>2, OpenGame DEF ListMenus
  <2> QED BY <2>1, <2>2, <2>3, LeaveKeeps
<1>2. CASE CodesTriangle
  <2>1. CASE ~OnCode
    <3>1. Undefined("codes")
      BY <1>2, <2>1, Zenon DEF CodesTriangle
    <3> QED BY <3>1, UndefinedKeeps DEF Causes
  <2>2. CASE OnCode
    <3>1. /\ menu_id = 5 /\ selected_centry' = menu_sel /\ SetMenu(6)
          /\ UNCHANGED <<world, filter, installed, doSort, selected_entry, option_index, endVars>>
      BY <1>2, <2>2, Zenon DEF CodesTriangle, InMenu
    <3>2. /\ CursorsType' /\ ListsType' /\ NullInv' /\ ub' \in Causes
          /\ menu_id' = 6 /\ menu_sel' = 0 /\ UNCHANGED listVars
      <4>1. 6 \notin ListMenus /\ 6 \notin {1, 2, 5}
        BY DEF ListMenus
      <4> QED BY <3>1, <4>1, SetMenuKeeps DEF DataInv
    <3>3. RestType'
      BY <3>1, <3>2, RestKept DEF DataInv
    <3>4. /\ menu_sel \in Nat /\ menu_sel + 1 \in DOMAIN SelectedCodes
          /\ SelectedCodes[menu_sel + 1] \in GoodCode
      BY <2>2, <3>1, CodeUnderCursor
    <3>5. SelectedType'
      BY <3>1, <3>4 DEF DataInv, SelectedType
    <3>6. SelectedCodes' = SelectedCodes
      BY <3>1, <3>2 DEF SelectedCodes, listVars
    <3>7. Viewed' = SelectedCodes[menu_sel + 1] /\ Viewed'.lines \in Nat
      BY <3>1, <3>4, <3>6 DEF Viewed, GoodCode, Code
    <3>8. SelectedLive'
      BY <3>1, <3>2, <3>6 DEF DataInv, OpenInv, SelectedLive, listVars
    <3> HIDE DEF GoodCode
    <3>9. OpenInv'
      BY <3>1, <3>2, <3>4, <3>6, <3>7, <3>8 DEF OpenInv
    <3> QED BY <3>2, <3>3, <3>5, <3>9 DEF DataInv
  <2> QED BY <2>1, <2>2
<1>3. CASE ViewCircle
  <2>1. /\ menu_id = 6 /\ SetMenu(last_menu_id[6])
        /\ UNCHANGED <<world, filter, installed, doSort, selVars, endVars>>
    BY <1>3, Zenon DEF ViewCircle, InMenu
  <2>2. last_menu_id[6] = 5
    BY <2>1, OpenGame
  <2>3. /\ CursorsType' /\ ListsType' /\ NullInv' /\ ub' \in Causes
        /\ menu_id' = 5 /\ UNCHANGED listVars
    <3>1. 5 \notin ListMenus
      BY DEF ListMenus
    <3> QED BY <2>1, <2>2, <3>1, SetMenuKeeps DEF DataInv
  <2>4. RestType' /\ SelectedType'
    BY <2>1, <2>3, RestKept DEF DataInv, SelectedType, selVars
  <2>5. SelectedCodes' = SelectedCodes
    BY <2>1, <2>3 DEF SelectedCodes, listVars, selVars
  <2>6. OpenInv'
    BY <2>1, <2>3, <2>5, StillOpen DEF DataInv, listVars, selVars
  <2> QED BY <2>3, <2>4, <2>6 DEF DataInv
<1> QED BY <1>1, <1>2, <1>3

\* Taking a choice, and giving the code up.
LEMMA OptionKeeps ==
  ASSUME NavInv, DataInv, OptionCircle \/ OptionCross
  PROVE  DataInv'
<1> DEFINE c == SelectedCodes[OptionTarget + 1]
           j == option_index + 1
           taken == [c EXCEPT !.options[j] = menu_sel]
           off == [c EXCEPT !.activated = FALSE]
<1>1. menu_id = 7 /\ OptionTarget = selected_centry /\ last_menu_id[7] = 5
  BY OpenGame DEF OptionCircle, OptionCross, InMenu
<1>2. /\ c = Viewed /\ c \in GoodCode /\ selected_centry \in Nat
      /\ selected_centry + 1 \in DOMAIN SelectedCodes
  BY <1>1, OpenGame DEF Viewed, DataInv, SelectedType, OpenInv
<1>3. /\ c.activated /\ j \in DOMAIN c.options /\ menu_sel \in 0 .. c.sizes[j] - 1
      /\ option_index \in Nat
  BY <1>1, <1>2 DEF DataInv, OpenInv, SelectedType
<1>4. taken \in GoodCode /\ off \in GoodCode
  BY <1>2, <1>3, CodeStaysGood
<1>5. /\ UNCHANGED <<world, list, count, code_sorted, filter, installed, doSort, selected_entry,
                     selected_centry, endVars>> /\ ub' = Draw'
      /\ option_index' \in {option_index, option_index + 1}
  BY Zenon DEF OptionCircle, OptionCross, selVars
<1>6. RestType' /\ SelectedType'
  <2>1. RestType'
    BY <1>5, DrawIs, RestKept DEF DataInv
  <2>2. option_index' \in Nat
    BY <1>3, <1>5
  <2> QED BY <1>5, <2>1, <2>2 DEF DataInv, SelectedType
<1>7. SelectedCodes \in Seq(GoodCode) /\ Len(SelectedCodes) = selected_entry.code_count
  BY <1>1, OpenGame
<1>8. ASSUME NEW d \in GoodCode, SetCode(OptionTarget, d)
      PROVE  /\ ListsType' /\ NullInv'
             /\ SelectedCodes' = [SelectedCodes EXCEPT ![OptionTarget + 1] = d]
  BY <1>1, <1>2, <1>5, <1>8, OpenGame, CodeSet DEF DataInv
<1>9. \/ (\E d \in {off, taken} : SetCode(OptionTarget, d)) /\ EnterMenu(last_menu_id[7])
      \/ /\ SetCode(OptionTarget, taken) /\ ~(option_index + 1 >= Len(c.options))
         /\ menu_sel' = 0 /\ UNCHANGED <<menu_id, menu_old_sel, last_menu_id>>
         /\ option_index' = option_index + 1
  BY Zenon DEF OptionCircle, OptionCross
<1>10. taken.activated = c.activated /\ taken.sizes = c.sizes
       /\ DOMAIN taken.options = DOMAIN c.options
  BY <1>2, <1>3 DEF GoodCode, Code
<1>11. c.sizes \in Seq(Nat \ {0}) /\ c.options \in Seq(Int) /\ Len(c.options) = Len(c.sizes)
  BY <1>2, <1>3 DEF GoodCode, Code
<1> HIDE DEF c, taken, off, GoodCode
<1>12. CASE (\E d \in {off, taken} : SetCode(OptionTarget, d)) /\ EnterMenu(last_menu_id[7])
  <2>1. PICK d \in GoodCode : SetCode(OptionTarget, d)
    BY <1>4, <1>12
  <2>2. ListsType' /\ NullInv' /\ SelectedCodes' = [SelectedCodes EXCEPT ![OptionTarget + 1] = d]
    BY <1>8, <2>1
  <2>3. Len(SelectedCodes') = Len(SelectedCodes)
    BY <1>7, <2>2
  <2>4. CursorsType' /\ menu_id' = 5
    BY <1>1, <1>12, EnterMenuCursors DEF DataInv
  <2>5. OpenInv'
    BY <1>1, <1>5, <2>3, <2>4, StillOpen DEF DataInv
  <2> QED BY <1>6, <2>2, <2>4, <2>5 DEF DataInv
<1>13. CASE /\ SetCode(OptionTarget, taken) /\ ~(option_index + 1 >= Len(c.options))
            /\ menu_sel' = 0 /\ UNCHANGED <<menu_id, menu_old_sel, last_menu_id>>
            /\ option_index' = option_index + 1
  <2>1. ListsType' /\ NullInv'
        /\ SelectedCodes' = [SelectedCodes EXCEPT ![OptionTarget + 1] = taken]
    BY <1>4, <1>8, <1>13
  <2>2. CursorsType'
    BY <1>13 DEF DataInv, CursorsType
  <2>3. Viewed' = taken
    BY <1>1, <1>2, <1>5, <1>7, <2>1 DEF Viewed
  <2>4. /\ DOMAIN SelectedCodes' = DOMAIN SelectedCodes
        /\ Len(SelectedCodes') = Len(SelectedCodes)
    BY <1>7, <2>1
  <2>5. option_index + 2 \in DOMAIN c.options /\ c.sizes[option_index + 2] \in Nat \ {0}
    <3> DEFINE o == c.options
               z == c.sizes
    <3>1. option_index \in Nat /\ ~(option_index + 1 >= Len(o)) /\ j \in DOMAIN o
      BY <1>3, <1>13
    <3>2. z \in Seq(Nat \ {0}) /\ o \in Seq(Int) /\ Len(o) = Len(z)
      BY <1>11
    <3> HIDE DEF o, z
    <3>3. Len(o) \in Nat /\ DOMAIN o = 1 .. Len(o)
      BY <3>2, LenProperties
    <3>4. option_index + 2 \in 1 .. Len(o)
      BY <3>1, <3>3
    <3>5. z[option_index + 2] \in Nat \ {0}
      BY <3>2, <3>4, ElementOfSeq
    <3> QED BY <3>3, <3>4, <3>5 DEF o, z
  <2>6. SelectedLive'
    BY <1>1, <1>5, <1>7, <2>4 DEF DataInv, OpenInv, SelectedLive
  <2>7. option_index' + 1 = option_index + 2
    BY <1>3, <1>13
  <2>8. /\ taken.activated /\ option_index' + 1 \in DOMAIN taken.options
        /\ menu_sel' \in 0 .. taken.sizes[option_index' + 1] - 1
    <3>1. 0 \in 0 .. c.sizes[option_index + 2] - 1
      BY <2>5
    <3> QED BY <1>3, <1>10, <1>13, <2>5, <2>7, <3>1
  <2>9. menu_id' = 7 /\ selected_centry' + 1 \in DOMAIN SelectedCodes'
    BY <1>1, <1>2, <1>5, <1>13, <2>4
  <2>10. OpenInv'
    BY <2>3, <2>6, <2>8, <2>9 DEF OpenInv
  <2> QED BY <1>6, <2>1, <2>2, <2>10 DEF DataInv
<1> QED BY <1>9, <1>12, <1>13

-----------------------------------------------------------------------------
(* The theorems.                                                           *)

\* The program starts with nothing read and nothing open.
LEMMA DataInit == Init => DataInv
<1> SUFFICES ASSUME Init PROVE DataInv
  OBVIOUS
<1>1. CursorsType
  BY DEF Init, CursorsType
<1>2. ListsType
  <2>1. <<>> \in Seq(Title) /\ <<>> \in Seq(GoodCode) /\ 0 \in Int /\ {} \in SUBSET Title
    OBVIOUS
  <2>2. [t \in Title |-> <<>>] \in [Title -> Seq(GoodCode)]
    BY <2>1, Zenon
  <2> QED BY <2>1, <2>2, Zenon DEF Init, ListsType
<1>3. SelectedType
  BY DEF Init, SelectedType
<1>4. RestType
  <2>1. 0 \in Int /\ Unwritten.written \in BOOLEAN /\ "none" \in Causes
    BY DEF Unwritten, Causes
  <2>2. filter \in [Lists -> Int]
    BY DEF Init
  <2>3. installed \in (SUBSET Title) \cup {Unscanned}
    BY Zenon DEF Init
  <2>4. close_art \in BOOLEAN /\ art.written \in BOOLEAN /\ ub \in Causes
    <3>1. close_art = FALSE /\ art = Unwritten /\ ub = "none"
      BY Zenon DEF Init
    <3> QED BY <2>1, <3>1, Zenon
  <2>5. world \in Worlds /\ doSort \in BOOLEAN
    BY Zenon DEF Init
  <2> QED BY <2>2, <2>3, <2>4, <2>5 DEF RestType
<1>5. NullInv
  BY DEF Init, NullInv
<1>6. OpenInv
  BY DEF Init, OpenInv, SelectedLive
<1> QED BY <1>1, <1>2, <1>3, <1>4, <1>5, <1>6 DEF DataInv

\* Every step keeps lists, tables, cursors and the open game in order.
LEMMA DataNext == NavInv /\ DataInv /\ [Next]_vars => DataInv'
<1> SUFFICES ASSUME NavInv, DataInv, [Next]_vars PROVE DataInv'
  OBVIOUS
<1>1. CASE UNCHANGED vars
  <2>1. ub' \in Causes
    BY <1>1 DEF vars, DataInv, RestType
  <2>2. RestType'
    BY <1>1, <2>1, RestKept DEF vars, DataInv
  <2> QED BY <1>1, <2>2, NothingMoves DEF vars
<1>2. CASE Start \/ ExitToXMB \/ BackToMain \/ sort_callback
             \/ \E id \in ListMenus \cup {3, 4} : MainCross(id)
  BY <1>2, MainKeeps
<1>3. ASSUME NEW m \in ListMenus, ListCircle(m) PROVE DataInv'
  BY <1>3, LeaveKeeps DEF ListCircle
<1>4. ASSUME NEW m \in ListMenus,
             ListMove(m) \/ ListLetter(m) \/ ListCross(m) \/ ListTriangle(m) \/ ListSquare(m)
               \/ ListCircle(m)
      PROVE  DataInv'
  BY <1>3, <1>4, ListMoveKeeps, ListCrossKeeps, ListTriangleKeeps, ListSquareKeeps
<1>5. CASE CodesMove \/ ViewMove \/ OptionMove
  BY <1>5, GameMoveKeeps
<1>6. CASE CodesCross \/ CodesSquare
  BY <1>6, CodesCrossKeeps
<1>7. CASE CodesTriangle \/ ViewCircle \/ CodesLeave
  BY <1>7, ViewKeeps
<1>8. CASE OptionCircle \/ OptionCross
  BY <1>8, OptionKeeps
<1> QED BY <1>1, <1>2, <1>4, <1>5, <1>6, <1>7, <1>8, Zenon DEF Next

MenusInv == NavInv /\ DataInv

\* The menus, the lists and the open game stay in order (drawScene, SetMenu).
THEOREM MenusAlways == Spec => []MenusInv
<1>1. Init => MenusInv
  BY NavInit, DataInit DEF MenusInv
<1>2. MenusInv /\ [Next]_vars => MenusInv'
  BY NavNext, DataNext DEF MenusInv
<1> QED BY <1>1, <1>2, PTL DEF Spec

\* Every variable keeps its type: no step of the menus stores a cursor, a table
\* or an open game that is none (drawScene).
THEOREM TypeCorrect == Spec => []TypeOK
<1>1. MenusInv => TypeOK
  <2> SUFFICES ASSUME MenusInv PROVE TypeOK
    OBVIOUS
  <2>1. menu_id \in 0 .. 7 /\ last_menu_id \in [0 .. 7 -> 0 .. 7]
    BY DEF MenusInv, NavInv, NavType
  <2>2. codes \in [Lists -> [Title -> Seq(Code)]]
    <3>1. codes \in [Lists -> [Title -> Seq(GoodCode)]]
      BY DEF MenusInv, DataInv, ListsType
    <3>2. GoodCode \subseteq Code
      BY DEF GoodCode
    <3> HIDE DEF GoodCode
    <3>3. Seq(GoodCode) \subseteq Seq(Code)
      BY <3>2
    <3> QED BY <3>1, <3>3
  <2> QED BY <2>1, <2>2, Zenon
    DEF MenusInv, DataInv, CursorsType, ListsType, SelectedType, RestType, Causes, TypeOK
<1> QED BY <1>1, MenusAlways, PTL

\* While a game is open, the table its copy points to has not been freed and has
\* the length the copy remembers (drawScene, UnloadGameList).
THEOREM SelectedAlwaysLive == Spec => []SelectedLive
<1>1. MenusInv => SelectedLive
  BY DEF MenusInv, DataInv, OpenInv
<1> QED BY <1>1, MenusAlways, PTL

\* The option menu writes to the code it shows, which is on, asks for an option the
\* code has, and every choice on record is a value of its option; the cursor is on
\* a line on the screen (drawScene, DrawOptions, DrawCodes).
THEOREM OptionAlwaysOnSelected == Spec => []OptionOnSelected
<1>1. MenusInv => OptionOnSelected
  <2> SUFFICES ASSUME MenusInv PROVE OptionOnSelected
    OBVIOUS
  <2> USE DEF MenusInv
  <2>1. OptionSameCode
    BY DEF NavInv, BackGoesToOwner, OptionSameCode, OptionTarget
  <2>2. ChoicesInRange
    <3> SUFFICES ASSUME NEW l \in Lists, NEW t \in Title, NEW y \in 1 .. Len(codes[l][t])
                 PROVE  codes[l][t][y] \in GoodCode
      BY DEF ChoicesInRange, GoodCode
    <3>1. codes[l][t] \in Seq(GoodCode)
      BY DEF DataInv, ListsType
    <3> HIDE DEF GoodCode
    <3> QED BY <3>1
  <2>3. CASE menu_id = 7
    <3>1. /\ OptionTarget = selected_centry /\ Viewed \in GoodCode
          /\ Viewed = SelectedCodes[OptionTarget + 1]
      BY <2>3, OpenGame DEF Viewed
    <3>2. /\ Viewed.activated /\ option_index + 1 \in DOMAIN Viewed.options
          /\ menu_sel \in 0 .. Viewed.sizes[option_index + 1] - 1 /\ option_index \in Nat
      BY <2>3 DEF DataInv, OpenInv, SelectedType
    <3>3. /\ Viewed.options \in Seq(Int) /\ Viewed.sizes \in Seq(Nat \ {0})
          /\ Len(Viewed.options) = Len(Viewed.sizes)
      BY <3>1, <3>2 DEF GoodCode, Code
    <3>4. option_index < Len(Viewed.options) /\ Viewed.sizes[option_index + 1] \in Nat
      BY <3>2, <3>3
    <3>5. menu_sel \in DrawOptions
      BY <3>2, <3>4, CursorDrawn DEF DrawOptions
    <3> QED BY <2>1, <2>2, <2>3, <3>1, <3>2, <3>4, <3>5 DEF OptionOnSelected
  <2>4. CASE menu_id = 6
    <3>1. Viewed.lines \in Nat
      BY <2>4, OpenGame DEF GoodCode, Code
    <3>2. Viewed.lines > 0 => menu_sel \in 0 .. Viewed.lines - 1
      BY <2>4 DEF DataInv, OpenInv
    <3>3. Viewed.lines > 0 => menu_sel \in DrawCodes
      BY <3>1, <3>2, CursorDrawn DEF DrawCodes
    <3> QED BY <2>1, <2>2, <2>4, <3>3 DEF OptionOnSelected
  <2>5. CASE menu_id \notin {6, 7}
    BY <2>1, <2>2, <2>5 DEF OptionOnSelected
  <2> QED BY <2>3, <2>4, <2>5
<1> QED BY <1>1, MenusAlways, PTL

-----------------------------------------------------------------------------
(* One code at a time.                                                     *)

\* x names code y of game t, which is on, in the tables C of list l.
IsOn(C, l, t, y, x) ==
  C[l][t][y].activated /\ x = [list |-> l, title |-> t, name |-> C[l][t][y].name]
HasOn(C, l, x) == \E t \in Title : \E y \in 1 .. Len(C[l][t]) : IsOn(C, l, t, y, x)

\* What is on in list l.
LEMMA ActivatedIs ==
  ASSUME NEW l, NEW x
  PROVE  /\ x \in ActivatedOf(l) <=> HasOn(codes, l, x)
         /\ x \in ActivatedOf(l)' <=> HasOn(codes', l, x)
PROOF BY DEF ActivatedOf, HasOn, IsOn

\* It depends on which codes are on in the tables alone.
LEMMA ActivatedSame ==
  ASSUME ListsType, ListsType', NEW l \in Lists,
         \A t \in Title : OnAmong(codes[l][t], codes'[l][t]) /\ OnAmong(codes'[l][t], codes[l][t])
  PROVE  ActivatedOf(l)' = ActivatedOf(l)
<1>1. ASSUME NEW t \in Title
      PROVE  /\ DOMAIN codes[l][t] = 1 .. Len(codes[l][t])
             /\ DOMAIN codes'[l][t] = 1 .. Len(codes'[l][t])
  <2>1. codes[l][t] \in Seq(GoodCode) /\ codes'[l][t] \in Seq(GoodCode)
    BY Zenon DEF ListsType
  <2> HIDE DEF GoodCode
  <2> QED BY <2>1
<1>2. ASSUME NEW x, x \in ActivatedOf(l) PROVE x \in ActivatedOf(l)'
  <2>1. PICK t \in Title : \E y \in 1 .. Len(codes[l][t]) : IsOn(codes, l, t, y, x)
    BY <1>2, ActivatedIs, Zenon DEF HasOn
  <2>2. PICK y \in 1 .. Len(codes[l][t]) : IsOn(codes, l, t, y, x)
    BY <2>1
  <2>3. PICK z \in 1 .. Len(codes'[l][t]) :
                codes'[l][t][z].activated /\ codes'[l][t][z].name = codes[l][t][y].name
    BY <1>1, <2>2, Zenon DEF OnAmong, IsOn
  <2> QED BY <2>2, <2>3, ActivatedIs, Zenon DEF HasOn, IsOn
<1>3. ASSUME NEW x, x \in ActivatedOf(l)' PROVE x \in ActivatedOf(l)
  <2>1. PICK t \in Title : \E y \in 1 .. Len(codes'[l][t]) : IsOn(codes', l, t, y, x)
    BY <1>3, ActivatedIs, Zenon DEF HasOn
  <2>2. PICK y \in 1 .. Len(codes'[l][t]) : IsOn(codes', l, t, y, x)
    BY <2>1
  <2>3. PICK z \in 1 .. Len(codes[l][t]) :
                codes[l][t][z].activated /\ codes[l][t][z].name = codes'[l][t][y].name
    BY <1>1, <2>2, Zenon DEF OnAmong, IsOn
  <2> QED BY <2>2, <2>3, ActivatedIs, Zenon DEF HasOn, IsOn
<1> QED BY <1>2, <1>3

\* A table has the same codes as itself.
LEMMA SameTables ==
  ASSUME ListsType, ListsType', NEW l \in Lists, \A t \in Title : codes'[l][t] = codes[l][t]
  PROVE  ActivatedOf(l)' = ActivatedOf(l)
<1>1. \A t \in Title : OnAmong(codes[l][t], codes'[l][t]) /\ OnAmong(codes'[l][t], codes[l][t])
  BY Zenon DEF OnAmong
<1> QED BY <1>1, ActivatedSame

\* A list that is read on the way into a menu had no table before, either.
LEMMA SetMenuSwitchesNone ==
  ASSUME CursorsType, ListsType, RestType, NullInv, NEW id, SetMenu(id)
  PROVE  \A l \in Lists, t \in Title : codes'[l][t] = codes[l][t]
<1>1. CASE UNCHANGED listVars
  BY <1>1 DEF listVars
<1>2. ASSUME id \in ListMenus, list[ListOf[id]] = <<>>, NEW doAni \in BOOLEAN,
             Reload(ListOf[id], doAni)
      PROVE  \A l \in Lists, t \in Title : codes'[l][t] = codes[l][t]
  <2> DEFINE L == ListOf[id]
  <2>1. L \in Lists
    BY <1>2 DEF ListMenus
  <2>2. codes' = [codes EXCEPT ![L] = [t \in Title |-> <<>>]]
    BY <1>2, <2>1, ReloadKeeps
  <2>3. \A t \in Title : codes[L][t] = <<>>
    BY <1>2, <2>1 DEF NullInv
  <2> HIDE DEF L
  <2> QED BY <2>1, <2>2, <2>3 DEF ListsType
<1> QED BY <1>1, <1>2, Zenon DEF SetMenu

\* Where one code of the open table is changed and keeps its name, nothing else is
\* switched.
LEMMA CodeSetSwitchesOne ==
  ASSUME NavInv, DataInv, ListsType', menu_id \in {5, 7}, NEW i \in Nat,
         i + 1 \in DOMAIN SelectedCodes, NEW d \in GoodCode, SetCode(i, d),
         d.name = SelectedCodes[i + 1].name,
         UNCHANGED <<list, count, code_sorted, selected_entry>>
  PROVE  SwitchesOne
<1>1. /\ selected_entry \in [list : Lists, title : Title, code_count : Nat]
      /\ selected_entry # NoEntry /\ SelectedCodes \in Seq(GoodCode)
  BY OpenGame
<1>2. PICK L \in Lists, T \in Title, n \in {SelectedCodes[i + 1].name} :
        L = selected_entry.list /\ T = selected_entry.title
  BY <1>1
<1> DEFINE c == [list |-> L, title |-> T, name |-> n]
<1>3. /\ SelectedCodes' = [SelectedCodes EXCEPT ![i + 1] = d]
      /\ \A l \in Lists, t \in Title : l # L \/ t # T => codes'[l][t] = codes[l][t]
  BY <1>1, <1>2, CodeSet DEF DataInv
<1>4. SelectedCodes = codes[L][T] /\ SelectedCodes' = codes'[L][T]
  BY <1>1, <1>2 DEF SelectedCodes
<1>5. ASSUME NEW l \in Lists, l # L PROVE ActivatedOf(l)' = ActivatedOf(l)
  BY <1>3, <1>5, SameTables DEF DataInv
<1> HIDE DEF GoodCode, c
<1>6. /\ i + 1 \in 1 .. Len(SelectedCodes) /\ Len(codes'[L][T]) = Len(codes[L][T])
      /\ codes'[L][T][i + 1].name = codes[L][T][i + 1].name
      /\ \A y \in 1 .. Len(codes[L][T]) : y # i + 1 => codes'[L][T][y] = codes[L][T][y]
  BY <1>1, <1>2, <1>3, <1>4
<1>7. c = [list |-> L, title |-> T, name |-> codes[L][T][i + 1].name]
  BY <1>2, <1>4 DEF c
<1>8. ASSUME NEW x, x # c PROVE x \in ActivatedOf(L)' <=> x \in ActivatedOf(L)
  <2>1. ASSUME NEW t \in Title, t # T PROVE codes'[L][t] = codes[L][t]
    BY <1>3, <2>1
  <2>2. ASSUME NEW t \in Title, NEW y \in 1 .. Len(codes[L][t]),
               t = T => y # i + 1
        PROVE  Len(codes'[L][t]) = Len(codes[L][t]) /\ codes'[L][t][y] = codes[L][t][y]
    BY <1>6, <2>1, <2>2
  <2>3. ASSUME x \in ActivatedOf(L) PROVE x \in ActivatedOf(L)'
    <3>1. PICK t \in Title : \E y \in 1 .. Len(codes[L][t]) : IsOn(codes, L, t, y, x)
      BY <2>3, ActivatedIs, Zenon DEF HasOn
    <3>2. PICK y \in 1 .. Len(codes[L][t]) : IsOn(codes, L, t, y, x)
      BY <3>1
    <3>3. t = T => y # i + 1
      BY <1>7, <1>8, <3>2 DEF IsOn
    <3>4. Len(codes'[L][t]) = Len(codes[L][t]) /\ codes'[L][t][y] = codes[L][t][y]
      BY <2>2, <3>3
    <3>5. y \in 1 .. Len(codes'[L][t]) /\ IsOn(codes', L, t, y, x)
      BY <3>2, <3>4 DEF IsOn
    <3> QED BY <3>5, ActivatedIs, Zenon DEF HasOn
  <2>4. ASSUME x \in ActivatedOf(L)' PROVE x \in ActivatedOf(L)
    <3>1. PICK t \in Title : \E y \in 1 .. Len(codes'[L][t]) : IsOn(codes', L, t, y, x)
      BY <2>4, ActivatedIs, Zenon DEF HasOn
    <3>2. PICK y \in 1 .. Len(codes'[L][t]) : IsOn(codes', L, t, y, x)
      BY <3>1
    <3>3. Len(codes'[L][t]) = Len(codes[L][t])
      BY <1>6, <2>1
    <3>4. t = T => y # i + 1
      BY <1>6, <1>7, <1>8, <3>2 DEF IsOn
    <3>5. codes'[L][t][y] = codes[L][t][y]
      BY <2>2, <3>3, <3>4
    <3>6. y \in 1 .. Len(codes[L][t]) /\ IsOn(codes, L, t, y, x)
      BY <3>2, <3>3, <3>5 DEF IsOn
    <3> QED BY <3>6, ActivatedIs, Zenon DEF HasOn
  <2> QED BY <2>3, <2>4
<1>9. ActivatedOf(L)' # ActivatedOf(L) =>
        ActivatedOf(L)' \in {ActivatedOf(L) \cup {c}, ActivatedOf(L) \ {c}}
  <2>1. \A x : x # c => (x \in ActivatedOf(L)' <=> x \in ActivatedOf(L))
    BY <1>8
  <2>2. \A A, B : (\A x : x # c => (x \in B <=> x \in A)) => B = A \/ B = A \cup {c} \/ B = A \ {c}
    OBVIOUS
  <2> QED BY <2>1, <2>2, Zenon
<1>10. \E y \in 1 .. Len(SelectedCodes) :
         c = [list |-> L, title |-> T, name |-> SelectedCodes[y].name]
  BY <1>2, <1>6 DEF c
<1> QED BY <1>2, <1>5, <1>9, <1>10, Zenon DEF SwitchesOne

\* Steps that leave every table as it is switch nothing.
LEMMA NoneSwitched ==
  ASSUME ListsType, ListsType', \A l \in Lists, t \in Title : codes'[l][t] = codes[l][t]
  PROVE  SwitchesOne
<1>1. \A l \in Lists : ActivatedOf(l)' = ActivatedOf(l)
  BY SameTables
<1> QED BY <1>1, Zenon DEF SwitchesOne

\* The steps in the menus of the lists.
LEMMA ListStepSwitches ==
  ASSUME DataInv, ListsType', NEW m \in ListMenus,
         ListMove(m) \/ ListLetter(m) \/ ListCross(m) \/ ListTriangle(m) \/ ListSquare(m)
           \/ ListCircle(m)
  PROVE  SwitchesOne
<1> DEFINE l == ListOf[m]
<1>1. l \in Lists
  BY DEF ListMenus
<1>2. ASSUME UNCHANGED codes PROVE SwitchesOne
  BY <1>2, NoneSwitched DEF DataInv
<1>3. CASE ListMove(m)
  BY <1>2, <1>3, Zenon DEF ListMove, PointTo, listVars
<1>4. CASE ListLetter(m)
  BY <1>2, <1>4, Zenon DEF ListLetter, PointTo, Undefined, listVars
<1>5. CASE ListTriangle(m)
  BY <1>2, <1>5, Zenon DEF ListTriangle
<1>6. CASE ListCircle(m)
  BY <1>6, SetMenuSwitchesNone, NoneSwitched DEF ListCircle, DataInv
<1>7. CASE ListSquare(m)
  <2>1. menu_id = m /\ Reload(l, FALSE)
    BY <1>7, Zenon DEF ListSquare, InMenu
  <2>2. codes' = [codes EXCEPT ![l] = [t \in Title |-> <<>>]]
    BY <1>1, <2>1, ReloadKeeps DEF DataInv
  <2>3. \A t \in Title : codes'[l][t] = <<>>
    BY <1>1, <2>2 DEF DataInv, ListsType
  <2>4. ASSUME NEW k \in Lists, k # l PROVE ActivatedOf(k)' = ActivatedOf(k)
    BY <1>1, <2>2, <2>4, SameTables DEF DataInv, ListsType
  <2> HIDE DEF l
  <2>5. ASSUME NEW k \in Lists, ActivatedOf(k)' # ActivatedOf(k)
        PROVE  menu_id \in ListMenus /\ ListOf[menu_id] = k /\ \A t \in Title : codes'[k][t] = <<>>
    <3>1. k = l
      BY <2>4, <2>5, Zenon
    <3> QED BY <2>1, <2>3, <3>1, Zenon DEF l
  <2> QED BY <2>5, Zenon DEF SwitchesOne
<1>8. CASE ListCross(m)
  <2> DEFINE t == list[l][menu_sel + 1]
  <2>1. CASE ~OnEntry(l)
    BY <1>2, <1>8, <2>1, Zenon DEF ListCross, Undefined, listVars
  <2>2. CASE OnEntry(l)
    <3>1. PICK table \in UNION {SortedTable(l, t, tb) : tb \in LoadedTable(l, t)} :
            codes' = [codes EXCEPT ![l][t] = table]
      BY <1>8, <2>2, Zenon DEF ListCross
    <3>2. list[l] \in Seq(Title) /\ menu_sel \in 0 .. Len(list[l]) - 1
      BY <1>1, <2>2 DEF OnEntry, DataInv, ListsType
    <3>3. t \in Title
      BY <3>2
    <3> HIDE DEF l, t
    <3>4. OnAmong(table, codes[l][t]) /\ OnAmong(codes[l][t], table)
      BY <1>1, <3>1, <3>3, CodesLoaded DEF DataInv
    <3>5. codes \in [Lists -> [Title -> Seq(GoodCode)]]
      BY DEF DataInv, ListsType
    <3> HIDE DEF GoodCode
    <3> DEFINE row == [codes[l] EXCEPT ![t] = table]
    <3>6. codes' = [codes EXCEPT ![l] = row]
      BY <3>1
    <3>7. row[t] = table /\ \A u \in Title : u # t => row[u] = codes[l][u]
      BY <1>1, <3>3, <3>5
    <3> HIDE DEF row
    <3>8. /\ codes'[l][t] = table
          /\ \A k \in Lists, u \in Title : k # l \/ u # t => codes'[k][u] = codes[k][u]
      BY <1>1, <3>3, <3>5, <3>6, <3>7
    <3>9. ASSUME NEW k \in Lists, NEW u \in Title
          PROVE  OnAmong(codes[k][u], codes'[k][u]) /\ OnAmong(codes'[k][u], codes[k][u])
      <4>1. CASE k = l /\ u = t
        BY <4>1, <3>4, <3>8
      <4>2. CASE k # l \/ u # t
        <5>1. codes'[k][u] = codes[k][u]
          BY <4>2, <3>8
        <5> QED BY <5>1, Zenon DEF OnAmong
      <4> QED BY <4>1, <4>2
    <3>10. \A k \in Lists : ActivatedOf(k)' = ActivatedOf(k)
      BY <3>9, ActivatedSame DEF DataInv
    <3> QED BY <3>10, Zenon DEF SwitchesOne
  <2> QED BY <2>1, <2>2
<1> QED BY <1>3, <1>4, <1>5, <1>6, <1>7, <1>8

\* A step in the menus of the open game leaves the tables alone or changes one code
\* of the open table, which keeps its name.
SetsOne ==
  /\ menu_id \in {5, 7}
  /\ UNCHANGED <<list, count, code_sorted, selected_entry>>
  /\ \E i \in Nat : /\ i + 1 \in DOMAIN SelectedCodes
                    /\ \E d \in GoodCode : SetCode(i, d) /\ d.name = SelectedCodes[i + 1].name

LEMMA GameStepSets ==
  ASSUME NavInv, DataInv, CodesCross \/ CodesSquare \/ OptionCircle \/ OptionCross
  PROVE  SetsOne \/ UNCHANGED listVars
<1>1. CASE (CodesCross \/ CodesSquare) /\ ~OnCode
  BY <1>1, Zenon DEF CodesCross, CodesSquare, Undefined
<1>2. CASE (CodesCross \/ CodesSquare) /\ OnCode
  <2> DEFINE c == SelectedCodes[menu_sel + 1]
             on == [c EXCEPT !.activated = TRUE, !.options = ReadOptions(c)]
             off == [c EXCEPT !.activated = FALSE]
             turned == [c EXCEPT !.cwrite = ~@]
  <2>1. menu_id = 5
    BY <1>2 DEF CodesCross, CodesSquare, InMenu
  <2>2. menu_sel \in Nat /\ menu_sel + 1 \in DOMAIN SelectedCodes /\ c \in GoodCode
    BY <1>2, <2>1, CodeUnderCursor
  <2>3. on \in GoodCode /\ off \in GoodCode /\ turned \in GoodCode
    BY <2>2, CodeStaysGood
  <2>4. on.name = c.name /\ off.name = c.name /\ turned.name = c.name
    BY <2>2 DEF GoodCode, Code
  <2>5. /\ UNCHANGED <<list, count, code_sorted, selected_entry>>
        /\ \E d \in {on, off, turned} : SetCode(menu_sel, d)
    BY <1>2, Zenon DEF CodesCross, CodesSquare, Activate, Deactivate, selVars
  <2> HIDE DEF c, on, off, turned, GoodCode
  <2>6. PICK d \in GoodCode : SetCode(menu_sel, d) /\ d.name = c.name
    BY <2>3, <2>4, <2>5
  <2> QED BY <2>1, <2>2, <2>5, <2>6, Zenon DEF SetsOne, c
<1>3. CASE OptionCircle \/ OptionCross
  <2> DEFINE c == SelectedCodes[OptionTarget + 1]
             j == option_index + 1
             taken == [c EXCEPT !.options[j] = menu_sel]
             off == [c EXCEPT !.activated = FALSE]
  <2>1. menu_id = 7 /\ OptionTarget = selected_centry
    BY <1>3, OpenGame DEF OptionCircle, OptionCross, InMenu
  <2>2. /\ c = Viewed /\ c \in GoodCode /\ OptionTarget \in Nat
        /\ OptionTarget + 1 \in DOMAIN SelectedCodes
    BY <2>1, OpenGame DEF Viewed, DataInv, SelectedType, OpenInv
  <2>3. j \in DOMAIN c.options /\ menu_sel \in 0 .. c.sizes[j] - 1
    BY <2>1, <2>2 DEF DataInv, OpenInv
  <2>4. taken \in GoodCode /\ off \in GoodCode
    BY <2>2, <2>3, CodeStaysGood
  <2>5. taken.name = c.name /\ off.name = c.name
    BY <2>2 DEF GoodCode, Code
  <2>6. /\ UNCHANGED <<list, count, code_sorted, selected_entry>>
        /\ \E d \in {off, taken} : SetCode(OptionTarget, d)
    BY <1>3, Zenon DEF OptionCircle, OptionCross, selVars
  <2> HIDE DEF c, taken, off, GoodCode
  <2>7. PICK d \in GoodCode : SetCode(OptionTarget, d) /\ d.name = c.name
    BY <2>4, <2>5, <2>6
  <2> QED BY <2>1, <2>2, <2>6, <2>7, Zenon DEF SetsOne, c
<1> QED BY <1>1, <1>2, <1>3

\* So it switches at most one.
LEMMA GameStepSwitches ==
  ASSUME NavInv, DataInv, ListsType',
         CodesCross \/ CodesSquare \/ OptionCircle \/ OptionCross
  PROVE  SwitchesOne
<1>1. CASE SetsOne
  BY <1>1, CodeSetSwitchesOne DEF SetsOne
<1>2. CASE UNCHANGED listVars
  BY <1>2, NoneSwitched DEF DataInv, listVars
<1> QED BY <1>1, <1>2, GameStepSets

\* Every step switches at most one code.
LEMMA NextSwitchesOne == MenusInv /\ [Next]_vars => SwitchesOne
<1> SUFFICES ASSUME MenusInv, [Next]_vars PROVE SwitchesOne
  OBVIOUS
<1>1. NavInv /\ DataInv /\ ListsType /\ ListsType'
  BY DataNext DEF MenusInv, DataInv
<1>2. ASSUME UNCHANGED codes PROVE SwitchesOne
  BY <1>1, <1>2, NoneSwitched
<1>3. ASSUME NEW id, SetMenu(id) PROVE SwitchesOne
  BY <1>1, <1>3, SetMenuSwitchesNone, NoneSwitched DEF DataInv
<1>4. CASE UNCHANGED vars
  BY <1>2, <1>4 DEF vars, listVars
<1>5. CASE Start \/ ExitToXMB \/ sort_callback
  BY <1>2, <1>5, Zenon DEF Start, ExitToXMB, sort_callback, Undefined, listVars
<1>6. CASE BackToMain \/ (\E id \in ListMenus \cup {3, 4} : MainCross(id)) \/ CodesLeave
           \/ CodesTriangle \/ ViewCircle
  BY <1>2, <1>3, <1>6, Zenon
  DEF BackToMain, MainCross, CodesLeave, CodesTriangle, ViewCircle, Undefined, listVars
<1>7. ASSUME NEW m \in ListMenus,
             ListMove(m) \/ ListLetter(m) \/ ListCross(m) \/ ListTriangle(m) \/ ListSquare(m)
               \/ ListCircle(m)
      PROVE  SwitchesOne
  BY <1>1, <1>7, ListStepSwitches
<1>8. CASE CodesMove \/ ViewMove \/ OptionMove
  BY <1>2, <1>8, Zenon DEF CodesMove, ViewMove, OptionMove, PointTo, listVars
<1>9. CASE CodesCross \/ CodesSquare \/ OptionCircle \/ OptionCross
  BY <1>1, <1>9, GameStepSwitches
<1> QED BY <1>4, <1>5, <1>6, <1>7, <1>8, <1>9, Zenon DEF Next

\* A step switches at most one code, one of the open game, or forgets all of a list
\* that it reads again: sorting, filtering and moving about switch nothing
\* (drawScene, ReloadUserCheats, FilterUserGames).
THEOREM OneCodeAlwaysAtATime == Spec => OneCodeAtATime
<1>1. MenusInv /\ MenusInv' /\ [Next]_vars => [SwitchesOne]_vars
  BY NextSwitchesOne
<1> QED BY <1>1, MenusAlways, PTL DEF Spec, OneCodeAtATime

-----------------------------------------------------------------------------
(* The export.                                                             *)

\* A code as it is exported, and what it is told by.
Row == [list : Lists, title : Title, name : Nat, cwrite : BOOLEAN, options : Seq(Int)]
Told(c) == [list |-> c.list, title |-> c.title, name |-> c.name]

\* s exports the codes K, each once.
Exports(s, K) ==
  /\ s \in Seq(Row)
  /\ \A i \in 1 .. Len(s) : Told(s[i]) \in K
  /\ \A x \in K : \E i \in 1 .. Len(s) : Told(s[i]) = x
  /\ \A i, j \in 1 .. Len(s) : Told(s[i]) = Told(s[j]) => i = j

LEMMA ExportsNone == Exports(<<>>, {})
PROOF BY DEF Exports

\* What is exported in two pieces that have no code in common.
LEMMA ExportsBoth ==
  ASSUME NEW s, NEW t, NEW K, NEW M, Exports(s, K), Exports(t, M), \A x \in K : x \notin M
  PROVE  Exports(s \o t, K \cup M)
<1> DEFINE u == s \o t
           n == Len(s)
<1>1. s \in Seq(Row) /\ t \in Seq(Row) /\ n \in Nat /\ Len(t) \in Nat
  BY DEF Exports
<1>2. /\ u \in Seq(Row) /\ Len(u) = n + Len(t)
      /\ \A i \in 1 .. n + Len(t) : u[i] = IF i <= n THEN s[i] ELSE t[i - n]
  BY <1>1, ConcatProperties
<1> HIDE DEF u
<1>3. /\ \A i \in 1 .. n : Told(s[i]) \in K
      /\ \A x \in K : \E i \in 1 .. n : Told(s[i]) = x
      /\ \A i, j \in 1 .. n : Told(s[i]) = Told(s[j]) => i = j
      /\ \A i \in 1 .. Len(t) : Told(t[i]) \in M
      /\ \A x \in M : \E i \in 1 .. Len(t) : Told(t[i]) = x
      /\ \A i, j \in 1 .. Len(t) : Told(t[i]) = Told(t[j]) => i = j
  BY DEF Exports
<1> HIDE DEF n
<1>4. ASSUME NEW i \in 1 .. Len(u)
      PROVE  \/ i \in 1 .. n /\ u[i] = s[i] /\ Told(u[i]) \in K
             \/ i - n \in 1 .. Len(t) /\ ~(i <= n) /\ u[i] = t[i - n] /\ Told(u[i]) \in M
  <2>1. CASE i <= n
    <3>1. i \in 1 .. n /\ u[i] = s[i]
      BY <2>1, <1>1, <1>2
    <3> QED BY <3>1, <1>3
  <2>2. CASE ~(i <= n)
    <3>1. i - n \in 1 .. Len(t) /\ u[i] = t[i - n]
      BY <2>2, <1>1, <1>2
    <3> QED BY <2>2, <3>1, <1>3
  <2> QED BY <2>1, <2>2
<1>5. \A x \in K : \E i \in 1 .. Len(u) : Told(u[i]) = x
  <2> SUFFICES ASSUME NEW x \in K PROVE \E i \in 1 .. Len(u) : Told(u[i]) = x
    OBVIOUS
  <2>1. PICK i \in 1 .. n : Told(s[i]) = x
    BY <1>3
  <2>2. i \in 1 .. Len(u) /\ u[i] = s[i]
    BY <1>1, <1>2
  <2> QED BY <2>1, <2>2
<1>6. \A x \in M : \E i \in 1 .. Len(u) : Told(u[i]) = x
  <2> SUFFICES ASSUME NEW x \in M PROVE \E i \in 1 .. Len(u) : Told(u[i]) = x
    OBVIOUS
  <2>1. PICK i \in 1 .. Len(t) : Told(t[i]) = x
    BY <1>3
  <2>2. i + n \in 1 .. Len(u) /\ u[i + n] = t[i]
    BY <1>1, <1>2
  <2> QED BY <2>1, <2>2
<1>7. ASSUME NEW i \in 1 .. Len(u), NEW j \in 1 .. Len(u), Told(u[i]) = Told(u[j])
      PROVE  i = j
  <2>1. CASE i \in 1 .. n /\ u[i] = s[i] /\ Told(u[i]) \in K
    <3>1. j \in 1 .. n /\ u[j] = s[j]
      BY <2>1, <1>4, <1>7
    <3> QED BY <2>1, <3>1, <1>3, <1>7
  <2>2. CASE i - n \in 1 .. Len(t) /\ ~(i <= n) /\ u[i] = t[i - n] /\ Told(u[i]) \in M
    <3>1. j - n \in 1 .. Len(t) /\ u[j] = t[j - n]
      BY <2>2, <1>4, <1>7
    <3>2. i - n = j - n
      BY <2>2, <3>1, <1>3, <1>7
    <3> QED BY <3>2, <1>1
  <2> QED BY <2>1, <2>2, <1>4
<1>8. \A i \in 1 .. Len(u) : Told(u[i]) \in K \cup M
  BY <1>4
<1>9. Exports(u, K \cup M)
  BY <1>2, <1>5, <1>6, <1>7, <1>8 DEF Exports
<1> QED BY <1>9 DEF u

\* What is exported in n pieces, one after the other, of which no two have a code in
\* common; f holds what the first ones are together.
Pieces(f, more, n) == f = [k \in 0 .. n |-> IF k = 0 THEN <<>> ELSE f[k - 1] \o more[k]]
LEMMA PiecesThere ==
  ASSUME NEW n \in Nat, NEW more, NEW R, \A k \in 1 .. n : more[k] \in Seq(R)
  PROVE  \E f : Pieces(f, more, n)
<1> DEFINE S == Seq(R)
           none == <<>>
           step == [k \in 1 .. n |-> [s \in S |-> s \o more[k]]]
<1>1. \A k \in 1 .. n : more[k] \in S
  OBVIOUS
<1>2. \A a, b \in S : a \o b \in S
  BY ConcatProperties
<1>3. none \in S
  OBVIOUS
<1> HIDE DEF S, none
<1>4. step \in [1 .. n -> [S -> S]]
  BY <1>1, <1>2
<1> HIDE DEF step
<1>5. \E f \in [0 .. n -> S] : Recursive(f, none, step, n)
  BY <1>3, <1>4, Recursion
<1>6. PICK f \in [0 .. n -> S] :
        f = [k \in 0 .. n |-> IF k = 0 THEN none ELSE step[k][f[k - 1]]]
  BY <1>5 DEF Recursive
<1>7. ASSUME NEW k \in 0 .. n, k # 0 PROVE step[k][f[k - 1]] = f[k - 1] \o more[k]
  <2>1. k \in 1 .. n /\ k - 1 \in 0 .. n
    BY <1>7
  <2> QED BY <2>1 DEF step
<1>8. \A k \in 0 .. n : f[k] = IF k = 0 THEN <<>> ELSE f[k - 1] \o more[k]
  BY <1>6, <1>7 DEF none
<1>9. Pieces(f, more, n)
  BY <1>6, <1>8 DEF Pieces
<1> QED BY <1>9, Zenon

\* They are the codes of all pieces.
AllOf(K, n) == UNION {K[k] : k \in 1 .. n}
LEMMA PiecesExport ==
  ASSUME NEW n \in Nat, NEW more, NEW K,
         \A k \in 1 .. n : Exports(more[k], K[k]),
         \A i, k \in 1 .. n : i # k => \A x \in K[i] : x \notin K[k]
  PROVE  /\ \E f : Pieces(f, more, n)
         /\ \A f : Pieces(f, more, n) => Exports(f[n], AllOf(K, n))
<1>1. \E f : Pieces(f, more, n)
  BY PiecesThere DEF Exports
<1>2. ASSUME NEW f, Pieces(f, more, n) PROVE Exports(f[n], AllOf(K, n))
  <2> DEFINE Upto(m) == AllOf(K, m)
             Done == {m \in Nat : m <= n => Exports(f[m], Upto(m))}
  <2>1. 0 \in Done
    <3>1. f[0] = <<>>
      BY <1>2 DEF Pieces
    <3>2. Upto(0) = {}
      BY DEF AllOf
    <3> QED BY <3>1, <3>2, ExportsNone
  <2>2. ASSUME NEW m \in Nat, m \in Done PROVE m + 1 \in Done
    <3> SUFFICES ASSUME m + 1 <= n PROVE Exports(f[m + 1], Upto(m + 1))
      OBVIOUS
    <3>1. Exports(f[m], Upto(m))
      BY <2>2
    <3>2. f[m + 1] = f[m] \o more[m + 1]
      <4>1. m + 1 \in 0 .. n /\ m + 1 # 0 /\ (m + 1) - 1 = m
        OBVIOUS
      <4> QED BY <4>1, <1>2 DEF Pieces
    <3>3. \A k \in 1 .. m : k \in 1 .. n /\ k # m + 1 /\ k \in 1 .. m + 1
      OBVIOUS
    <3>4. \A k \in 1 .. m + 1 : k \in 1 .. m \/ k = m + 1
      OBVIOUS
    <3>5. m + 1 \in 1 .. n /\ m + 1 \in 1 .. m + 1
      OBVIOUS
    <3>6. Upto(m + 1) = Upto(m) \cup K[m + 1]
      BY <3>3, <3>4, <3>5 DEF AllOf
    <3>7. \A x \in Upto(m) : x \notin K[m + 1]
      BY <3>3, <3>5 DEF AllOf
    <3> HIDE DEF Upto
    <3> QED BY <3>1, <3>2, <3>5, <3>6, <3>7, ExportsBoth
  <2>3. n \in Done
    <3> HIDE DEF Done
    <3> QED BY <2>1, <2>2, NatInd
  <2> QED BY <2>3
<1> QED BY <1>1, <1>2

\* It has as many codes as are told apart.
LEMMA ExportsCount ==
  ASSUME NEW s, NEW K, Exports(s, K)
  PROVE  Len(s) = Cardinality(K) /\ {Told(s[i]) : i \in DOMAIN s} = K
<1> DEFINE n == Len(s)
           f == [i \in 1 .. n |-> Told(s[i])]
<1>1. n \in Nat /\ DOMAIN s = 1 .. n
  BY DEF Exports
<1>2. /\ \A i \in 1 .. n : Told(s[i]) \in K
      /\ \A x \in K : \E i \in 1 .. n : Told(s[i]) = x
      /\ \A i, j \in 1 .. n : Told(s[i]) = Told(s[j]) => i = j
  BY DEF Exports
<1> HIDE DEF n
<1>3. f \in [1 .. n -> K]
  BY <1>2
<1>4. f \in Injection(1 .. n, K)
  BY <1>2, <1>3 DEF Injection, IsInjective
<1>5. f \in Surjection(1 .. n, K)
  BY <1>2, <1>3 DEF Surjection
<1>6. ExistsBijection(1 .. n, K)
  BY <1>4, <1>5 DEF ExistsBijection, Bijection
<1>7. Cardinality(K) = n
  BY <1>1, <1>6, FS_CountingElements
<1>8. {Told(s[i]) : i \in DOMAIN s} = K
  BY <1>1, <1>2
<1> QED BY <1>7, <1>8 DEF n

\* The codes of game t that are on.
OnIn(l, t) ==
  {[list |-> l, title |-> t, name |-> codes[l][t][y].name] :
     y \in {y \in 1 .. Len(codes[l][t]) : codes[l][t][y].activated}}

\* AppendCode exports the codes of a game that are on.
LEMMA AppendExports ==
  ASSUME ListsType, NEW l \in Lists, NEW t \in Title, Differ(codes[l][t])
  PROVE  Exports(AppendCodes(l, t), OnIn(l, t))
<1> DEFINE table == codes[l][t]
           n == Len(table)
           row(y) == [list |-> l, title |-> t, name |-> table[y].name,
                      cwrite |-> table[y].cwrite, options |-> table[y].options]
           key(y) == [list |-> l, title |-> t, name |-> table[y].name]
           Of(y) == IF table[y].activated THEN <<row(y)>> ELSE <<>>
           more == [y \in 1 .. n |-> Of(y)]
           K == [y \in 1 .. n |-> IF table[y].activated THEN {key(y)} ELSE {}]
           IsUpto(f) == f = [y \in 0 .. n |-> IF y = 0 THEN <<>> ELSE f[y - 1] \o Of(y)]
           upto == CHOOSE f : IsUpto(f)
<1>1. n \in Nat /\ DOMAIN table = 1 .. n /\ \A y \in 1 .. n : table[y] \in GoodCode
  <2>1. table \in Seq(GoodCode)
    BY DEF ListsType
  <2> HIDE DEF GoodCode, table
  <2> QED BY <2>1
<1>2. AppendCodes(l, t) = upto[n]
  BY DEF AppendCodes
<1>3. OnIn(l, t) = AllOf(K, n)
  BY DEF OnIn, AllOf
<1>4. \A y, z \in 1 .. n : table[y].name = table[z].name => y = z
  BY <1>1 DEF Differ
<1> HIDE DEF table, n
<1>5. ASSUME NEW y \in 1 .. n PROVE row(y) \in Row /\ Told(row(y)) = key(y)
  <2>1. table[y] \in Code
    BY <1>1 DEF GoodCode
  <2>2. table[y].name \in Nat /\ table[y].cwrite \in BOOLEAN /\ table[y].options \in Seq(Int)
    BY <2>1, Zenon DEF Code
  <2>3. row(y) \in Row
    BY <2>2, Zenon DEF Row
  <2> QED BY <2>3 DEF Told
<1> HIDE DEF row
<1>6. ASSUME NEW y \in 1 .. n PROVE Exports(more[y], K[y])
  <2>1. CASE table[y].activated
    <3>1. more[y] = <<row(y)>> /\ K[y] = {key(y)}
      BY <2>1
    <3> QED BY <3>1, <1>5 DEF Exports
  <2>2. CASE ~table[y].activated
    BY <2>2, ExportsNone
  <2> QED BY <2>1, <2>2
<1>7. ASSUME NEW y \in 1 .. n, NEW z \in 1 .. n, y # z, NEW x \in K[y] PROVE x \notin K[z]
  <2> SUFFICES ASSUME x = key(y), x = key(z) PROVE FALSE
    BY <1>7
  <2>1. table[y].name = table[z].name
    <3>1. key(y).name = key(z).name
      OBVIOUS
    <3> QED BY <3>1
  <2> QED BY <2>1, <1>4, <1>7
<1> HIDE DEF K
<1>8. ASSUME NEW f PROVE IsUpto(f) <=> Pieces(f, more, n)
  <2>1. ASSUME NEW y \in 0 .. n, y # 0 PROVE Of(y) = more[y]
    <3>1. y \in 1 .. n
      BY <2>1, <1>1
    <3> QED BY <3>1
  <2> HIDE DEF more, Of
  <2>2. [y \in 0 .. n |-> IF y = 0 THEN <<>> ELSE f[y - 1] \o Of(y)]
          = [y \in 0 .. n |-> IF y = 0 THEN <<>> ELSE f[y - 1] \o more[y]]
    BY <2>1
  <2> QED BY <2>2 DEF Pieces
<1> HIDE DEF more, Of, IsUpto
<1>9. (\E f : IsUpto(f)) /\ \A f : IsUpto(f) => Exports(f[n], AllOf(K, n))
  <2>1. (\E f : Pieces(f, more, n)) /\ \A f : Pieces(f, more, n) => Exports(f[n], AllOf(K, n))
    <3>1. \A i \in 1 .. n : Exports(more[i], K[i])
      BY <1>6
    <3>2. \A i, k \in 1 .. n : i # k => \A c \in K[i] : c \notin K[k]
      BY <1>7
    <3> QED BY <3>1, <3>2, <1>1, PiecesExport
  <2> QED BY <2>1, <1>8, Zenon
<1>10. IsUpto(upto)
  BY <1>9, Zenon
<1> QED BY <1>2, <1>3, <1>9, <1>10

\* So are the codes of the first games of a list, each game being in it once.
LEMMA FirstExport ==
  ASSUME ListsType, NEW l \in Lists, \A t \in Title : Differ(codes[l][t]),
         IsInjective(list[l]), list[l] # <<>>, NEW n \in 1 .. Len(list[l])
  PROVE  Exports(CodesOfFirst(l, n), UNION {OnIn(l, list[l][x]) : x \in 1 .. n})
<1> DEFINE Of(x) == AppendCodes(l, list[l][x])
           more == [x \in 1 .. n |-> Of(x)]
           K == [x \in 1 .. n |-> OnIn(l, list[l][x])]
           IsUpto(f) == f = [x \in 0 .. n |-> IF x = 0 THEN <<>> ELSE f[x - 1] \o Of(x)]
           upto == CHOOSE f : IsUpto(f)
<1>1. list[l] \in Seq(Title) /\ n \in Nat /\ ~(n <= 0)
  BY DEF ListsType
<1>2. CodesOfFirst(l, n) = upto[n]
  BY <1>1 DEF CodesOfFirst
<1>3. UNION {OnIn(l, list[l][x]) : x \in 1 .. n} = AllOf(K, n)
  BY DEF AllOf
<1>4. \A x \in 1 .. n : list[l][x] \in Title
  BY <1>1
<1>5. \A x, z \in 1 .. n : list[l][x] = list[l][z] => x = z
  BY <1>1 DEF IsInjective
<1>6. ASSUME NEW x \in 1 .. n PROVE Exports(more[x], K[x])
  BY <1>4, AppendExports
<1>7. ASSUME NEW x \in 1 .. n, NEW z \in 1 .. n, x # z, NEW c \in K[x] PROVE c \notin K[z]
  <2> SUFFICES ASSUME c \in K[z] PROVE FALSE
    OBVIOUS
  <2>1. c.title = list[l][x] /\ c.title = list[l][z]
    BY <1>7 DEF OnIn
  <2> QED BY <2>1, <1>5, <1>7
<1> HIDE DEF K
<1>8. ASSUME NEW f PROVE IsUpto(f) <=> Pieces(f, more, n)
  <2>1. ASSUME NEW x \in 0 .. n, x # 0 PROVE Of(x) = more[x]
    <3>1. x \in 1 .. n
      BY <2>1, <1>1
    <3> QED BY <3>1
  <2> HIDE DEF more, Of
  <2>2. [x \in 0 .. n |-> IF x = 0 THEN <<>> ELSE f[x - 1] \o Of(x)]
          = [x \in 0 .. n |-> IF x = 0 THEN <<>> ELSE f[x - 1] \o more[x]]
    BY <2>1
  <2> QED BY <2>2 DEF Pieces
<1> HIDE DEF more, Of, IsUpto
<1>9. (\E f : IsUpto(f)) /\ \A f : IsUpto(f) => Exports(f[n], AllOf(K, n))
  <2>1. (\E f : Pieces(f, more, n)) /\ \A f : Pieces(f, more, n) => Exports(f[n], AllOf(K, n))
    <3>1. \A i \in 1 .. n : Exports(more[i], K[i])
      BY <1>6
    <3>2. \A i, k \in 1 .. n : i # k => \A c \in K[i] : c \notin K[k]
      BY <1>7
    <3> QED BY <3>1, <3>2, <1>1, PiecesExport
  <2> QED BY <2>1, <1>8, Zenon
<1>10. IsUpto(upto)
  BY <1>9, Zenon
<1> QED BY <1>2, <1>3, <1>9, <1>10

\* ExportsAllShown is not inductive, and says nothing before the export.  That it holds
\* then rests on what the lists and tables are: a list has each of its games once and a
\* table each of its codes, and there is no table but of a game of the list.
OnceInv ==
  /\ \A l \in Lists : IsInjective(list[l])
  /\ \A l \in Lists, t \in Title : Differ(codes[l][t])
  /\ \A l \in Lists, t \in Title : codes[l][t] # <<>> => t \in Range(list[l])

\* What a list that is shown in full, or is NULL, adds to the export.
LEMMA ShownExports ==
  ASSUME ListsType, NullInv, OnceInv, NEW l \in Lists, list[l] = <<>> \/ count[l] = Len(list[l])
  PROVE  Exports(ParseActivatedGameList(l), ActivatedOf(l))
<1>1. list[l] \in Seq(Title) /\ \A t \in Title : codes[l][t] \in Seq(GoodCode)
  BY DEF ListsType
<1>2. ActivatedOf(l) = UNION {OnIn(l, t) : t \in Title}
  BY DEF ActivatedOf, OnIn
<1>3. CASE list[l] = <<>>
  <2>1. \A t \in Title : OnIn(l, t) = {}
    BY <1>3 DEF NullInv, OnIn
  <2>2. ActivatedOf(l) = {}
    BY <1>2, <2>1
  <2>3. ParseActivatedGameList(l) = <<>>
    BY <1>3 DEF ParseActivatedGameList, CodesOfFirst
  <2> QED BY <2>2, <2>3, ExportsNone
<1>4. CASE list[l] # <<>>
  <2> DEFINE n == Len(list[l])
  <2>1. n \in Nat /\ n \in 1 .. n /\ DOMAIN list[l] = 1 .. n /\ count[l] = n
    BY <1>1, <1>4
  <2>2. Exports(CodesOfFirst(l, n), UNION {OnIn(l, list[l][x]) : x \in 1 .. n})
    BY <1>4, <2>1, FirstExport DEF OnceInv
  <2>3. \A t \in Title : (\E x \in 1 .. n : list[l][x] = t) \/ OnIn(l, t) = {}
    <3> SUFFICES ASSUME NEW t \in Title, \A x \in 1 .. n : list[l][x] # t
                 PROVE  OnIn(l, t) = {}
      OBVIOUS
    <3>1. codes[l][t] = <<>>
      BY <2>1 DEF OnceInv, Range
    <3> QED BY <3>1 DEF OnIn
  <2>4. \A x \in 1 .. n : list[l][x] \in Title
    BY <1>1
  <2> HIDE DEF n
  <2>5. UNION {OnIn(l, list[l][x]) : x \in 1 .. n} = UNION {OnIn(l, t) : t \in Title}
    <3> HIDE DEF OnIn
    <3>1. \A c : (\E x \in 1 .. n : c \in OnIn(l, list[l][x])) <=> (\E t \in Title : c \in OnIn(l, t))
      BY <2>3, <2>4
    <3> QED BY <3>1
  <2> QED BY <1>2, <2>1, <2>2, <2>5 DEF ParseActivatedGameList
<1> QED BY <1>3, <1>4

\* With both shown so, "Start" exports what is on, each code once.
LEMMA StartExports ==
  ASSUME ListsType, NullInv, OnceInv, Start,
         \A l \in Lists : list[l] = <<>> \/ count[l] = Len(list[l]), art'.written, ~art.written
  PROVE  ExportsAllShown'
<1> DEFINE Of(l) == IF l \in Lists THEN ParseActivatedGameList(l) ELSE <<>>
           On(l) == IF l \in Lists THEN ActivatedOf(l) ELSE {}
<1>1. art'.codes = Of("user") \o Of("online") /\ UNCHANGED listVars
  <2>1. art' # art
    OBVIOUS
  <2>2. /\ art' = [written |-> TRUE, codes |-> Of("user") \o Of("online")]
        /\ UNCHANGED listVars
    BY <2>1, Zenon DEF Start, Undefined, endVars, listVars
  <2> HIDE DEF Of
  <2> QED BY <2>2
<1>2. ASSUME NEW l PROVE Exports(Of(l), On(l))
  BY ShownExports, ExportsNone
<1>3. \A x \in On("user") : x \notin On("online")
  BY DEF ActivatedOf
<1>4. Exports(art'.codes, On("user") \cup On("online"))
  BY <1>1, <1>2, <1>3, ExportsBoth
<1>5. \A l \in Lists : ActivatedOf(l)' = ActivatedOf(l)
  BY <1>1 DEF listVars, ActivatedOf
<1>6. On("user") \cup On("online") = UNION {ActivatedOf(l)' : l \in Lists}
  <2> HIDE DEF ActivatedOf
  <2> QED BY <1>5, ListsAssumption
<1>7. {Told(art'.codes[i]) : i \in DOMAIN art'.codes} = Exported'
  BY DEF Exported, Told
<1> HIDE DEF On, Of
<1>8. Exported' = UNION {ActivatedOf(l)' : l \in Lists} /\ Len(art'.codes) = Cardinality(Exported')
  BY <1>4, <1>6, <1>7, ExportsCount
<1> QED BY <1>8, Zenon DEF ExportsAllShown

\* Steps that leave the lists and the tables alone.
LEMMA SameOnce ==
  ASSUME OnceInv, UNCHANGED <<list, codes>>
  PROVE  OnceInv'
PROOF BY DEF OnceInv

\* Reading a list again forgets its tables.
LEMMA ReloadOnce ==
  ASSUME ListsType, RestType, NullInv, OnceInv, NEW l \in Lists, NEW doAni \in BOOLEAN,
         Reload(l, doAni)
  PROVE  OnceInv'
<1>1. /\ codes' = [codes EXCEPT ![l] = [t \in Title |-> <<>>]]
      /\ IsInjective(list'[l]) /\ \A k \in Lists : k # l => list'[k] = list[k]
  BY ReloadKeeps
<1>2. codes \in [Lists -> [Title -> Seq(GoodCode)]]
  BY DEF ListsType
<1>3. ASSUME NEW k \in Lists, NEW t \in Title
      PROVE  IF k = l THEN codes'[k][t] = <<>> ELSE codes'[k][t] = codes[k][t]
  <2> HIDE DEF GoodCode
  <2> QED BY <1>1, <1>2, <1>3
<1>4. Differ(<<>>)
  BY DEF Differ
<1>5. \A k \in Lists : IsInjective(list'[k])
  BY <1>1 DEF OnceInv
<1>6. \A k \in Lists, t \in Title : Differ(codes'[k][t])
  BY <1>3, <1>4 DEF OnceInv
<1>7. \A k \in Lists, t \in Title : codes'[k][t] # <<>> => t \in Range(list'[k])
  BY <1>1, <1>3 DEF OnceInv
<1> QED BY <1>5, <1>6, <1>7 DEF OnceInv

\* Entering a menu reads a list at most.
LEMMA SetMenuOnce ==
  ASSUME ListsType, RestType, NullInv, OnceInv, NEW id, SetMenu(id)
  PROVE  OnceInv'
<1>1. CASE UNCHANGED listVars
  BY <1>1, SameOnce DEF listVars
<1>2. ASSUME id \in ListMenus, NEW doAni \in BOOLEAN, Reload(ListOf[id], doAni) PROVE OnceInv'
  BY <1>2, ReloadOnce DEF ListMenus
<1> QED BY <1>1, <1>2, Zenon DEF SetMenu

\* Sorting and filtering keep the games of a list.
LEMMA TriangleOnce ==
  ASSUME ListsType, RestType, OnceInv, NEW l \in Lists, Unfilter(l) \/ Filter(l), UNCHANGED codes
  PROVE  OnceInv'
<1>1. PICK games \in Seq(Title) : SameGames(games, list[l]) /\ list' = [list EXCEPT ![l] = games]
  BY TriangleKeepsGames
<1>2. \A k \in Lists : IF k = l THEN list'[k] = games ELSE list'[k] = list[k]
  BY <1>1 DEF ListsType
<1>3. ASSUME NEW k \in Lists PROVE IsInjective(list'[k]) /\ Range(list'[k]) = Range(list[k])
  BY <1>1, <1>2 DEF OnceInv, SameGames
<1> QED BY <1>3, Zenon DEF OnceInv

\* The table of the game that is opened is one of the list's, and read from a file.
LEMMA CrossOnce ==
  ASSUME NamesOnce, DataInv, OnceInv, NEW m \in ListMenus, ListCross(m)
  PROVE  OnceInv'
<1> DEFINE l == ListOf[m]
           t == list[l][menu_sel + 1]
<1>1. l \in Lists
  BY DEF ListMenus
<1>2. CASE ~OnEntry(l)
  BY <1>2, SameOnce, Zenon DEF ListCross, Undefined, listVars
<1>3. CASE OnEntry(l)
  <2>1. PICK table \in UNION {SortedTable(l, t, tb) : tb \in LoadedTable(l, t)} :
          codes' = [codes EXCEPT ![l][t] = table] /\ list' = list
    BY <1>3, Zenon DEF ListCross
  <2>2. list[l] \in Seq(Title) /\ menu_sel \in 0 .. Len(list[l]) - 1
    BY <1>1, <1>3 DEF OnEntry, DataInv, ListsType
  <2>3. t \in Title /\ t \in Range(list[l])
    BY <2>2 DEF Range
  <2> HIDE DEF l, t
  <2>4. Differ(table)
    BY <1>1, <2>1, <2>3, LoadedDiffer DEF DataInv, OnceInv
  <2>5. codes \in [Lists -> [Title -> Seq(GoodCode)]]
    BY DEF DataInv, ListsType
  <2> HIDE DEF GoodCode
  <2> DEFINE row == [codes[l] EXCEPT ![t] = table]
  <2>6. codes' = [codes EXCEPT ![l] = row]
    BY <2>1
  <2>7. row[t] = table /\ \A u \in Title : u # t => row[u] = codes[l][u]
    BY <1>1, <2>3, <2>5
  <2> HIDE DEF row
  <2>8. ASSUME NEW k \in Lists, NEW u \in Title
        PROVE  codes'[k][u] = codes[k][u] \/ (k = l /\ u = t /\ codes'[k][u] = table)
    BY <1>1, <2>3, <2>5, <2>6, <2>7
  <2>9. \A k \in Lists, u \in Title : Differ(codes'[k][u])
    BY <2>4, <2>8 DEF OnceInv
  <2>10. \A k \in Lists, u \in Title : codes'[k][u] # <<>> => u \in Range(list'[k])
    BY <2>1, <2>3, <2>8 DEF OnceInv
  <2>11. \A k \in Lists : IsInjective(list'[k])
    BY <2>1 DEF OnceInv
  <2> QED BY <2>9, <2>10, <2>11 DEF OnceInv
<1> QED BY <1>2, <1>3

\* A code that is changed keeps its name.
LEMMA SetsOneOnce ==
  ASSUME NavInv, DataInv, OnceInv, SetsOne
  PROVE  OnceInv'
<1>1. PICK i \in Nat : /\ i + 1 \in DOMAIN SelectedCodes
                       /\ \E d \in GoodCode : SetCode(i, d) /\ d.name = SelectedCodes[i + 1].name
  BY DEF SetsOne
<1>2. PICK d \in GoodCode : SetCode(i, d) /\ d.name = SelectedCodes[i + 1].name
  BY <1>1, Zenon
<1>3. /\ selected_entry \in [list : Lists, title : Title, code_count : Nat]
      /\ selected_entry # NoEntry /\ SelectedCodes \in Seq(GoodCode)
  BY OpenGame DEF SetsOne
<1>4. /\ SelectedCodes' = [SelectedCodes EXCEPT ![i + 1] = d]
      /\ \A l \in Lists, t \in Title :
           l # selected_entry.list \/ t # selected_entry.title => codes'[l][t] = codes[l][t]
  BY <1>1, <1>2, <1>3, CodeSet DEF DataInv, SetsOne
<1>5. PICK L \in Lists, T \in Title : L = selected_entry.list /\ T = selected_entry.title
  BY <1>3
<1>6. /\ SelectedCodes = codes[L][T] /\ SelectedCodes' = codes'[L][T]
      /\ list' = list
  BY <1>3, <1>5 DEF SelectedCodes, SetsOne
<1> HIDE DEF GoodCode
<1>7. /\ DOMAIN codes'[L][T] = DOMAIN codes[L][T]
      /\ \A y \in DOMAIN codes[L][T] : codes'[L][T][y].name = codes[L][T][y].name
  BY <1>1, <1>2, <1>3, <1>4, <1>6
<1>8. Differ(codes[L][T]) => Differ(codes'[L][T])
  BY <1>7 DEF Differ
<1>9. codes'[L][T] # <<>> => codes[L][T] # <<>>
  BY <1>1, <1>6
<1>10. \A l \in Lists, t \in Title : Differ(codes'[l][t])
  BY <1>4, <1>5, <1>8 DEF OnceInv
<1>11. \A l \in Lists, t \in Title : codes'[l][t] # <<>> => t \in Range(list'[l])
  BY <1>4, <1>5, <1>6, <1>9 DEF OnceInv
<1> QED BY <1>6, <1>10, <1>11 DEF OnceInv

\* Every step keeps it.
LEMMA OnceNext ==
  ASSUME NamesOnce, MenusInv, OnceInv, [Next]_vars
  PROVE  OnceInv'
<1>1. NavInv /\ DataInv /\ ListsType /\ RestType /\ NullInv
  BY DEF MenusInv, DataInv
<1>2. ASSUME UNCHANGED listVars PROVE OnceInv'
  BY <1>2, SameOnce DEF listVars
<1>3. ASSUME NEW id, SetMenu(id) PROVE OnceInv'
  BY <1>1, <1>3, SetMenuOnce
<1>4. CASE UNCHANGED vars
  BY <1>2, <1>4 DEF vars
<1>5. CASE Start \/ ExitToXMB \/ sort_callback
  BY <1>2, <1>5, Zenon DEF Start, ExitToXMB, sort_callback, Undefined
<1>6. CASE BackToMain \/ (\E id \in ListMenus \cup {3, 4} : MainCross(id)) \/ CodesLeave
           \/ CodesTriangle \/ ViewCircle
  BY <1>2, <1>3, <1>6, Zenon
  DEF BackToMain, MainCross, CodesLeave, CodesTriangle, ViewCircle, Undefined
<1>7. ASSUME NEW m \in ListMenus,
             ListMove(m) \/ ListLetter(m) \/ ListCross(m) \/ ListTriangle(m) \/ ListSquare(m)
               \/ ListCircle(m)
      PROVE  OnceInv'
  <2>1. ListOf[m] \in Lists
    BY DEF ListMenus
  <2>2. CASE ListMove(m) \/ ListLetter(m)
    BY <1>2, <2>2, Zenon DEF ListMove, ListLetter, PointTo, Undefined
  <2>3. CASE ListCross(m)
    BY <1>1, <2>3, CrossOnce
  <2>4. CASE ListTriangle(m)
    BY <1>1, <2>1, <2>4, TriangleOnce, Zenon DEF ListTriangle
  <2>5. CASE ListSquare(m)
    BY <1>1, <2>1, <2>5, ReloadOnce, Zenon DEF ListSquare
  <2>6. CASE ListCircle(m)
    BY <1>3, <2>6, Zenon DEF ListCircle
  <2> QED BY <1>7, <2>2, <2>3, <2>4, <2>5, <2>6
<1>8. CASE CodesMove \/ ViewMove \/ OptionMove
  BY <1>2, <1>8, Zenon DEF CodesMove, ViewMove, OptionMove, PointTo
<1>9. CASE CodesCross \/ CodesSquare \/ OptionCircle \/ OptionCross
  BY <1>1, <1>2, <1>9, GameStepSets, SetsOneOnce
<1> QED BY <1>4, <1>5, <1>6, <1>7, <1>8, <1>9, Zenon DEF Next

\* After the export nothing happens: what was exported stays what is on.
WrittenInv == (art.written => close_art) /\ ExportsAllShown

\* Only "Start" writes, and no step follows it.
LEMMA WritesOnce ==
  ASSUME Next
  PROVE  ~close_art /\ (Start \/ UNCHANGED art)
<1>1. ASSUME NEW s, PointTo(s) PROVE UNCHANGED art
  BY <1>1 DEF PointTo, endVars
<1>2. ASSUME NEW w, Undefined(w) PROVE UNCHANGED art
  BY <1>2 DEF Undefined, endVars
<1>3. ASSUME NEW m \in ListMenus,
             ListMove(m) \/ ListLetter(m) \/ ListCross(m) \/ ListTriangle(m) \/ ListSquare(m)
               \/ ListCircle(m)
      PROVE  ~close_art /\ UNCHANGED art
  BY <1>1, <1>2, <1>3, Zenon
  DEF ListMove, ListLetter, ListCross, ListTriangle, ListSquare, ListCircle, InMenu, endVars
<1>4. CASE Start \/ ExitToXMB \/ BackToMain \/ sort_callback
             \/ \E id \in ListMenus \cup {3, 4} : MainCross(id)
  BY <1>4, Zenon DEF Start, ExitToXMB, BackToMain, sort_callback, MainCross, InMenu, endVars
<1>5. CASE CodesMove \/ CodesCross \/ CodesSquare \/ CodesTriangle \/ CodesLeave
  BY <1>1, <1>2, <1>5, Zenon
  DEF CodesMove, CodesCross, CodesSquare, CodesTriangle, CodesLeave, InMenu, endVars
<1>6. CASE ViewMove \/ ViewCircle \/ OptionMove \/ OptionCircle \/ OptionCross
  BY <1>1, <1>6, Zenon
  DEF ViewMove, ViewCircle, OptionMove, OptionCircle, OptionCross, InMenu, endVars
<1> QED BY <1>3, <1>4, <1>5, <1>6, Zenon DEF Next

\* No step changes what was written, and what is written is right.
LEMMA WrittenNext ==
  ASSUME MenusInv, OnceInv, WrittenInv, [Next]_vars
  PROVE  WrittenInv'
<1>1. CASE UNCHANGED vars
  <2>1. UNCHANGED <<list, count, codes, art, close_art>>
    BY <1>1 DEF vars, listVars, endVars
  <2>2. Exported' = Exported /\ \A l \in Lists : ActivatedOf(l)' = ActivatedOf(l)
    BY <2>1 DEF Exported, ActivatedOf
  <2> QED BY <2>1, <2>2 DEF WrittenInv, ExportsAllShown
<1>2. CASE Next
  <2>1. ~close_art /\ ~art.written /\ (Start \/ UNCHANGED art)
    BY <1>2, WritesOnce DEF WrittenInv
  <2>2. CASE ~art'.written
    BY <2>2, Zenon DEF WrittenInv, ExportsAllShown
  <2>3. CASE art'.written
    <3>1. Start /\ art' # art
      BY <2>1, <2>3
    <3>2. close_art' /\ UNCHANGED <<list, count>>
      BY <3>1, Zenon DEF Start, Undefined, endVars, listVars
    <3>3. ExportsAllShown'
      <4>1. CASE \A l \in Lists : list[l] = <<>> \/ count[l] = Len(list[l])
        BY <2>1, <2>3, <3>1, <4>1, StartExports DEF MenusInv, DataInv
      <4>2. CASE ~\A l \in Lists : list[l] = <<>> \/ count[l] = Len(list[l])
        BY <3>2, <4>2, Zenon DEF ExportsAllShown
      <4> QED BY <4>1, <4>2
    <3> QED BY <3>2, <3>3 DEF WrittenInv
  <2> QED BY <2>2, <2>3
<1> QED BY <1>1, <1>2

\* Where no file gives two codes the same name, and both lists are shown in full, the
\* export holds what is on, each code once (ParseActivatedGameList, AppendCode).
THEOREM AlwaysExportsAllShown ==
  ASSUME NamesOnce
  PROVE  Spec => []ExportsAllShown
<1> DEFINE Inv == OnceInv /\ WrittenInv
<1>1. Init => Inv
  <2> SUFFICES ASSUME Init PROVE Inv
    OBVIOUS
  <2>1. OnceInv
    BY DEF Init, OnceInv, Differ, IsInjective
  <2>2. ~art.written
    BY DEF Init, Unwritten
  <2> QED BY <2>1, <2>2, Zenon DEF WrittenInv, ExportsAllShown
<1>2. MenusInv /\ Inv /\ [Next]_vars => Inv'
  BY OnceNext, WrittenNext
<1>3. Inv => ExportsAllShown
  BY DEF WrittenInv
<1> QED BY <1>1, <1>2, <1>3, MenusAlways, PTL DEF Spec

-----------------------------------------------------------------------------
(* Where the lists keep their length.                                      *)

\* N[l] is the number of games every reading of list l finds, or it finds none.
FolderFits(N) ==
  \A l \in Lists :
    /\ \A f \in world.folder[l] : f.others = 0 /\ Len(f.games) \in {0, N[l]}
    /\ \A i \in StackInts : i <= N[l]

\* No more games are counted than there are, but for a list that is NULL.
ListsFit(N) ==
  \A l \in Lists : Len(list[l]) \in {0, N[l]} /\ count[l] <= N[l] /\ filter[l] <= N[l]

\* The cursor of a list is above its end, even if it is not on an entry; the one of
\* a game with codes is on one of them.
CursorFits(N) ==
  /\ \A m \in ListMenus : menu_old_sel[m] < N[ListOf[m]]
  /\ menu_id \in ListMenus => menu_sel < N[ListOf[menu_id]]
  /\ menu_id = 5 /\ selected_entry.code_count > 0 => menu_sel \in 0 .. selected_entry.code_count - 1
  /\ menu_id \in {6, 7} => menu_old_sel[5] \in 0 .. selected_entry.code_count - 1

\* The list in view has nothing to show, or the open game no code.
NothingThere ==
  \/ /\ menu_id \in ListMenus
     /\ count[ListOf[menu_id]] <= 0 \/ list[ListOf[menu_id]] = <<>> \/ menu_sel < 0
  \/ menu_id = 5 /\ selected_entry.code_count = 0

Fits(N) ==
  /\ FolderFits(N) /\ ListsFit(N) /\ CursorFits(N)
  /\ ub \notin {"none", "export"} => NothingThere

\* Drawing goes wrong only where nothing is there.
LEMMA DrawnThere ==
  ASSUME NavInv', DataInv', NEW N \in [Lists -> Nat \ {0}], ListsFit(N)'
  PROVE  /\ Draw' # "none" => NothingThere'
         /\ \A doAni \in BOOLEAN : DrawEntry(doAni)' # "none" => NothingThere'
<1>1. ASSUME NEW l \in Lists, list'[l] # <<>>, NEW x \in 0 .. count'[l] - 1
      PROVE  x < Len(list'[l])
  <2>1. list'[l] \in Seq(Title) /\ count'[l] \in Int /\ N[l] \in Nat
    BY DEF DataInv, ListsType
  <2>2. Len(list'[l]) \in {0, N[l]} /\ count'[l] <= N[l] /\ Len(list'[l]) # 0
    BY <1>1, <2>1 DEF ListsFit
  <2> QED BY <2>1, <2>2
<1>2. ASSUME menu_id' \in {5, 6, 7}, NEW x \in 0 .. selected_entry'.code_count - 1
      PROVE  /\ x < Len(SelectedCodes')
             /\ SelectedCodes'[x + 1] \in GoodCode
  <2>1. selected_entry' \in [list : Lists, title : Title, code_count : Nat]
    BY <1>2 DEF DataInv, SelectedType, OpenInv, SelectedLive
  <2>2. codes'[selected_entry'.list][selected_entry'.title] \in Seq(GoodCode)
    BY <2>1 DEF DataInv, ListsType
  <2>3. SelectedCodes' \in Seq(GoodCode) /\ selected_entry'.code_count = Len(SelectedCodes')
    BY <1>2, <2>2 DEF SelectedCodes, DataInv, OpenInv, SelectedLive
  <2> HIDE DEF GoodCode
  <2> QED BY <2>3
<1>3. ASSUME NEW c \in GoodCode, c.activated, NEW i \in DOMAIN c.options
      PROVE  c.options[i] < c.sizes[i]
  <2>1. c.options \in Seq(Int) /\ c.sizes \in Seq(Nat \ {0})
    BY DEF GoodCode, Code
  <2>2. c.options # <<>>
    BY <1>3, <2>1
  <2>3. /\ Len(c.options) = Len(c.sizes)
        /\ \A j \in 1 .. Len(c.sizes) : c.options[j] \in 0 .. c.sizes[j] - 1
    BY <2>2 DEF GoodCode
  <2>4. i \in 1 .. Len(c.sizes) /\ c.sizes[i] \in Nat
    BY <1>3, <2>1, <2>3
  <2>5. c.options[i] \in 0 .. c.sizes[i] - 1
    BY <2>3, <2>4
  <2> QED BY <2>4, <2>5
<1>4. ASSUME menu_id' \in {5, 6, 7}, NEW x \in 0 .. selected_entry'.code_count - 1
      PROVE  /\ x < Len(SelectedCodes')
             /\ LET c == SelectedCodes'[x + 1] IN
                c.activated => \A i \in DOMAIN c.options : c.options[i] < c.sizes[i]
  BY <1>2, <1>3, <1>4, Zenon
<1>5. ASSUME menu_id' \in {5, 6, 7}, NEW S, S \subseteq 0 .. selected_entry'.code_count - 1
      PROVE  \A x \in S : /\ x < Len(SelectedCodes')
                          /\ LET c == SelectedCodes'[x + 1] IN
                             c.activated => \A i \in DOMAIN c.options : c.options[i] < c.sizes[i]
  BY <1>4, <1>5, Zenon
<1>6. \A sel, n : DrawnEntries(sel, n) \subseteq 0 .. n - 1
  BY DEF DrawnEntries
<1>7. ASSUME menu_id' \in {5, 6, 7} PROVE Draw_CheatsMenu_Selection(menu_sel)'
  BY <1>5, <1>6, <1>7, Zenon DEF Draw_CheatsMenu_Selection
<1>8. ASSUME menu_id' \in {6, 7} PROVE Draw_CheatsMenu_View'
  BY <1>5, <1>6, <1>8, Zenon DEF Draw_CheatsMenu_Selection, Draw_CheatsMenu_View
<1>9. ASSUME menu_id' = 7 PROVE Draw_CheatsMenu_Options'
  <2>1. option_index' < Len(Viewed'.options)
    <3>1. Viewed' \in GoodCode
      <4>1. selected_centry' + 1 \in DOMAIN SelectedCodes' /\ selected_centry' \in Nat
            /\ selected_entry'.code_count = Len(SelectedCodes')
        BY <1>9 DEF DataInv, OpenInv, SelectedType, SelectedLive
      <4>2. codes'[selected_entry'.list][selected_entry'.title] \in Seq(GoodCode)
        BY <1>9 DEF DataInv, ListsType, SelectedType, OpenInv, SelectedLive
      <4>3. SelectedCodes' \in Seq(GoodCode)
        BY <1>9, <4>2 DEF SelectedCodes, DataInv, OpenInv, SelectedLive
      <4> HIDE DEF GoodCode
      <4> QED BY <4>1, <4>3 DEF Viewed
    <3>2. option_index' + 1 \in DOMAIN Viewed'.options /\ option_index' \in Nat
      BY <1>9 DEF DataInv, OpenInv, SelectedType
    <3>3. Viewed'.options \in Seq(Int)
      BY <3>1 DEF GoodCode, Code
    <3> QED BY <3>2, <3>3
  <2> QED BY <1>8, <1>9, <2>1, Zenon DEF Draw_CheatsMenu_View, Draw_CheatsMenu_Options
<1>10. ASSUME menu_id' \in ListMenus, list'[ListOf[menu_id']] # <<>>
       PROVE  Draw_UserCheatsMenu(ListOf[menu_id], menu_sel)'
  <2>1. ListOf[menu_id'] \in Lists
    BY <1>10 DEF ListMenus
  <2> QED BY <1>1, <1>6, <1>10, <2>1, Zenon DEF Draw_UserCheatsMenu
<1>11. ASSUME menu_id' = 2, menu_id' \in ListMenus, list'["online"] # <<>>
       PROVE  Draw_UserCheatsMenu("online", menu_old_sel[1])'
  <2>1. "online" \in Lists
    BY <1>11 DEF ListMenus, ListOf
  <2> QED BY <1>1, <1>6, <1>11, <2>1, Zenon DEF Draw_UserCheatsMenu
<1>12. ASSUME Draw' # "none" PROVE NothingThere'
  <2>1. \/ menu_id' \in ListMenus /\ ~Draw_UserCheatsMenu(ListOf[menu_id], menu_sel)'
        \/ menu_id' = 5 /\ ~Draw_CheatsMenu_Selection(menu_sel)'
        \/ menu_id' = 6 /\ ~Draw_CheatsMenu_View'
        \/ menu_id' = 7 /\ ~Draw_CheatsMenu_Options'
    BY <1>12, Zenon DEF Draw
  <2> QED BY <2>1, <1>7, <1>8, <1>9, <1>10, Zenon DEF NothingThere
<1>13. ASSUME NEW doAni \in BOOLEAN, DrawEntry(doAni)' # "none" PROVE NothingThere'
  <2>1. Draw' # "none" \/ (menu_id' = 2 /\ ~Draw_UserCheatsMenu("online", menu_old_sel[1])')
    BY <1>13, Zenon DEF DrawEntry
  <2>2. CASE menu_id' = 2 /\ ~Draw_UserCheatsMenu("online", menu_old_sel[1])'
    <3>1. menu_id' \in ListMenus
      BY <2>2 DEF NavInv
    <3>2. list'["online"] = <<>> /\ ListOf[menu_id'] = "online"
      BY <2>2, <3>1, <1>11 DEF ListOf
    <3> QED BY <3>1, <3>2 DEF NothingThere
  <2> QED BY <2>1, <2>2, <1>12
<1> QED BY <1>12, <1>13

\* A frame that goes wrong where nothing is there, or in the export.
LEMMA UndefinedFits ==
  ASSUME NEW N, Fits(N), NEW where, Undefined(where), where # "export" => NothingThere
  PROVE  Fits(N)'
PROOF BY DEF Undefined, Fits, FolderFits, ListsFit, CursorFits, NothingThere, listVars, navVars,
             selVars

\* A frame that moves the cursor over what there is.
LEMMA PointFits ==
  ASSUME NEW N \in [Lists -> Nat \ {0}], Fits(N), NavInv', DataInv', NEW s, PointTo(s),
         menu_id \in ListMenus => s < N[ListOf[menu_id]],
         menu_id = 5 /\ selected_entry.code_count > 0 => s \in 0 .. selected_entry.code_count - 1
  PROVE  Fits(N)'
<1>1. /\ menu_sel' = s /\ ub' = Draw'
      /\ UNCHANGED <<world, list, count, filter, menu_id, menu_old_sel, selected_entry>>
  BY Zenon DEF PointTo, listVars, selVars
<1>2. FolderFits(N)' /\ ListsFit(N)' /\ CursorFits(N)'
  BY <1>1 DEF Fits, FolderFits, ListsFit, CursorFits
<1>3. ub' # "none" => NothingThere'
  BY <1>1, <1>2, DrawnThere
<1> QED BY <1>2, <1>3 DEF Fits

\* Entering a menu outside the game, the game from a view of a code, or such a view
\* from a code.
LEMMA EnterFits ==
  ASSUME CursorsType, NEW N \in [Lists -> Nat \ {0}], CursorFits(N), NEW id, EnterMenu(id),
         UNCHANGED selected_entry,
         \/ id \in ListMenus \cup {0, 3, 4}
         \/ id = 5 /\ menu_id \in {6, 7}
         \/ id \in {6, 7} /\ menu_id = 5 /\ menu_sel \in 0 .. selected_entry.code_count - 1
  PROVE  CursorFits(N)'
<1> DEFINE reset == IF id = 5 /\ menu_id \in {1, 2} THEN [menu_old_sel EXCEPT ![5] = 0]
                    ELSE menu_old_sel
<1>1. ListMenus \subseteq {1, 2} /\ menu_old_sel \in [{1, 2, 5} -> Int]
  BY DEF ListMenus, CursorsType
<1>2. reset = menu_old_sel
  BY <1>1
<1>3. /\ menu_old_sel' = IF menu_id \in {1, 2, 5} THEN [reset EXCEPT ![menu_id] = menu_sel]
                         ELSE reset
      /\ menu_id' = id
      /\ menu_sel' = IF id \in {1, 2, 5} THEN menu_old_sel'[id] ELSE 0
  BY Zenon DEF EnterMenu
<1> HIDE DEF reset
<1>4. \A m \in ListMenus : menu_old_sel'[m] < N[ListOf[m]]
  <2> SUFFICES ASSUME NEW m \in ListMenus PROVE menu_old_sel'[m] < N[ListOf[m]]
    OBVIOUS
  <2>1. CASE menu_id = m
    BY <1>1, <1>2, <1>3, <2>1 DEF CursorFits
  <2>2. CASE menu_id # m
    BY <1>1, <1>2, <1>3, <2>2 DEF CursorFits
  <2> QED BY <2>1, <2>2
<1>5. CASE id \in ListMenus \cup {0, 3, 4}
  BY <1>1, <1>3, <1>4, <1>5 DEF CursorFits
<1>6. CASE id = 5 /\ menu_id \in {6, 7}
  BY <1>1, <1>2, <1>3, <1>4, <1>6 DEF CursorFits
<1>7. CASE id \in {6, 7} /\ menu_id = 5 /\ menu_sel \in 0 .. selected_entry.code_count - 1
  BY <1>1, <1>2, <1>3, <1>4, <1>7 DEF CursorFits
<1> QED BY <1>5, <1>6, <1>7

\* Reading a list finds as many games as ever, or none.
LEMMA ReloadFits ==
  ASSUME DataInv, NEW N \in [Lists -> Nat \ {0}], Fits(N), NEW l \in Lists,
         NEW doAni \in BOOLEAN, Reload(l, doAni), UNCHANGED <<world, filter>>
  PROVE  /\ FolderFits(N)' /\ ListsFit(N)'
         /\ ub' = DrawEntry(doAni)' \/ list'[l] = <<>>
<1>1. PICK r \in UNION {ReadList(found) : found \in world.folder[l]} :
        /\ \E games \in (IF doSort THEN QSortGameList(r.games, r.count) ELSE {r.games}) :
             list' = [list EXCEPT ![l] = games]
        /\ count' = [count EXCEPT ![l] = r.count]
        /\ ub' = CASE UnloadsWild(l) -> "unload"
                   [] ~UnloadsWild(l) /\ doSort /\ SortsWild(r.games, r.count) -> "sort"
                   [] OTHER -> DrawEntry(doAni)'
  BY Zenon DEF Reload
<1>2. PICK found \in world.folder[l] : r \in ReadList(found)
  BY Zenon
<1>3. found.games \in Seq(Title) /\ found.others = 0 /\ Len(found.games) \in {0, N[l]}
      /\ N[l] \in Nat \ {0} /\ \A i \in StackInts : i <= N[l]
  BY WorldHas DEF Folder, DataInv, Fits, FolderFits
<1>4. /\ r.games \in Seq(Title) /\ r.count \in Int /\ r.count <= N[l]
      /\ Len(r.games) = 0 \/ (Len(r.games) = N[l] /\ r.count = N[l])
  BY <1>2, <1>3, BoundsAssumption DEF ReadList
<1>5. PICK games \in (IF doSort THEN QSortGameList(r.games, r.count) ELSE {r.games}) :
        list' = [list EXCEPT ![l] = games]
  BY <1>1
<1>6. games \in Seq(Title) /\ Len(games) = Len(r.games)
  BY <1>4, <1>5, Sorted, Zenon
<1>7. ListsFit(N)'
  BY <1>1, <1>4, <1>5, <1>6 DEF Fits, ListsFit, DataInv, ListsType
<1>8. ~UnloadsWild(l)
  <2>1. list[l] \in Seq(Title) /\ Len(list[l]) \in {0, N[l]} /\ count[l] <= N[l] /\ count[l] \in Int
    BY DEF Fits, ListsFit, DataInv, ListsType
  <2> QED BY <1>3, <2>1 DEF UnloadsWild
<1>9. SortsWild(r.games, r.count) => Len(r.games) = 0
  BY <1>3, <1>4 DEF SortsWild
<1>10. ub' = DrawEntry(doAni)' \/ SortsWild(r.games, r.count)
  BY <1>1, <1>8, Zenon
<1>11. Len(r.games) = 0 => list'[l] = <<>>
  BY <1>5, <1>6 DEF DataInv, ListsType
<1>12. FolderFits(N)'
  BY DEF Fits, FolderFits
<1> QED BY <1>7, <1>9, <1>10, <1>11, <1>12

\* Entering these menus, with the list of a list menu read if it has to be.
LEMMA SetMenuFits ==
  ASSUME DataInv, NEW N \in [Lists -> Nat \ {0}], Fits(N), NavInv', DataInv', NEW id, SetMenu(id),
         UNCHANGED <<world, filter, selected_entry>>,
         \/ id \in ListMenus \cup {0, 3, 4}
         \/ id = 5 /\ menu_id \in {6, 7}
         \/ id \in {6, 7} /\ menu_id = 5 /\ menu_sel \in 0 .. selected_entry.code_count - 1
  PROVE  Fits(N)'
<1>1. EnterMenu(id) /\ menu_id' = id
  BY Zenon DEF SetMenu, EnterMenu
<1>2. CursorFits(N)'
  BY <1>1, EnterFits DEF DataInv, Fits
<1>3. CASE \E doAni \in BOOLEAN : UNCHANGED listVars /\ ub' = DrawEntry(doAni)'
  <2>1. FolderFits(N)' /\ ListsFit(N)'
    BY <1>3 DEF Fits, FolderFits, ListsFit, listVars
  <2> QED BY <1>2, <1>3, <2>1, DrawnThere DEF Fits
<1>4. ASSUME id \in ListMenus, NEW doAni \in BOOLEAN, Reload(ListOf[id], doAni) PROVE Fits(N)'
  <2>1. ListOf[id] \in Lists
    BY <1>4 DEF ListMenus
  <2>2. /\ FolderFits(N)' /\ ListsFit(N)'
        /\ ub' = DrawEntry(doAni)' \/ list'[ListOf[id]] = <<>>
    BY <1>4, <2>1, ReloadFits, Zenon
  <2>3. ub' # "none" => NothingThere'
    <3>1. CASE ub' = DrawEntry(doAni)'
      BY <2>2, <3>1, DrawnThere
    <3>2. CASE list'[ListOf[id]] = <<>>
      BY <1>1, <1>4, <3>2, Zenon DEF NothingThere
    <3> QED BY <2>2, <3>1, <3>2
  <2> QED BY <1>2, <2>2, <2>3 DEF Fits
<1> QED BY <1>3, <1>4, Zenon DEF SetMenu

\* Moving about in a list.
LEMMA ListMoveFits ==
  ASSUME NavInv, DataInv, NEW N \in [Lists -> Nat \ {0}], Fits(N), NavInv', DataInv',
         NEW m \in ListMenus, ListMove(m) \/ ListLetter(m)
  PROVE  Fits(N)'
<1> DEFINE l == ListOf[m]
<1>1. /\ menu_id = m /\ l \in Lists /\ N[l] \in Nat \ {0}
      /\ menu_sel \in Int /\ menu_sel < N[l]
      /\ list[l] \in Seq(Title) /\ Len(list[l]) \in {0, N[l]}
      /\ count[l] \in Int /\ count[l] <= N[l]
  <2>1. menu_id = m /\ l \in Lists
    BY DEF ListMove, ListLetter, InMenu, ListMenus
  <2> QED BY <2>1 DEF Fits, CursorFits, ListsFit, DataInv, CursorsType, ListsType
<1>2. m # 5
  BY DEF ListMenus
<1>3. ASSUME NEW s \in Int, s < N[l], PointTo(s) PROVE Fits(N)'
  BY <1>1, <1>2, <1>3, PointFits
<1>4. CASE ListMove(m)
  <2>1. PICK steps \in {1, 5, 25} :
          \/ PointTo(move_selection_back(menu_sel, count[l], steps))
          \/ PointTo(move_selection_fwd(menu_sel, count[l], steps))
    BY <1>4, Zenon DEF ListMove
  <2>0. steps \in Int /\ menu_sel \in Int /\ count[l] \in Int
    BY <1>1
  <2> HIDE DEF l
  <2>2. /\ move_selection_back(menu_sel, count[l], steps) \in Int
        /\ move_selection_fwd(menu_sel, count[l], steps) \in Int
    BY <2>0, CursorType, Zenon
  <2>3. /\ move_selection_back(menu_sel, count[l], steps) < N[l]
        /\ move_selection_fwd(menu_sel, count[l], steps) < N[l]
    BY <1>1, CursorBelow
  <2> QED BY <1>3, <2>1, <2>2, <2>3, Zenon
<1>5. CASE ListLetter(m)
  <2>1. CASE OnEntry(l) /\ count[l] <= Len(list[l])
    <3>1. \/ PointTo(move_letter_back(list[l], Letter, menu_sel))
          \/ PointTo(move_letter_fwd(list[l], Letter, menu_sel, count[l]))
      BY <1>5, <2>1, Zenon DEF ListLetter
    <3>2. menu_sel \in Nat
      BY <1>1, <2>1 DEF OnEntry
    <3> HIDE DEF l
    <3>3. /\ move_letter_back(list[l], Letter, menu_sel) \in 0 .. menu_sel
          /\ move_letter_fwd(list[l], Letter, menu_sel, count[l]) \in Int
          /\ \/ move_letter_fwd(list[l], Letter, menu_sel, count[l]) = menu_sel
             \/ move_letter_fwd(list[l], Letter, menu_sel, count[l]) < count[l]
      BY <1>1, <3>2, LetterJumps
    <3>4. /\ move_letter_back(list[l], Letter, menu_sel) \in Int
          /\ move_letter_back(list[l], Letter, menu_sel) < N[l]
          /\ move_letter_fwd(list[l], Letter, menu_sel, count[l]) < N[l]
      BY <1>1, <3>2, <3>3
    <3> QED BY <1>3, <3>1, <3>3, <3>4, Zenon
  <2>2. CASE ~(OnEntry(l) /\ count[l] <= Len(list[l]))
    <3>1. Undefined("list")
      BY <1>5, <2>2, Zenon DEF ListLetter
    <3>2. list[l] = <<>> \/ menu_sel < 0
      BY <1>1, <2>2 DEF OnEntry
    <3>3. NothingThere
      BY <1>1, <3>2 DEF NothingThere
    <3> QED BY <3>1, <3>3, UndefinedFits
  <2> QED BY <2>1, <2>2
<1> QED BY <1>4, <1>5

\* Opening a game: the cursor is on its first code, if it has one.
LEMMA ListCrossFits ==
  ASSUME NavInv, DataInv, NEW N \in [Lists -> Nat \ {0}], Fits(N), NavInv', DataInv',
         NEW m \in ListMenus, ListCross(m)
  PROVE  Fits(N)'
<1> DEFINE l == ListOf[m]
           t == list[l][menu_sel + 1]
<1>1. /\ menu_id = m /\ m \in {1, 2} /\ l \in Lists /\ N[l] \in Nat \ {0}
      /\ menu_sel \in Int /\ menu_sel < N[l]
      /\ list[l] \in Seq(Title) /\ Len(list[l]) \in {0, N[l]}
  <2>1. menu_id = m /\ l \in Lists
    BY DEF ListCross, InMenu, ListMenus
  <2> QED BY <2>1 DEF Fits, CursorFits, ListsFit, DataInv, CursorsType, ListsType, ListMenus
<1>2. CASE ~OnEntry(l)
  <2>1. Undefined("list")
    BY <1>2, Zenon DEF ListCross
  <2>2. list[l] = <<>> \/ menu_sel < 0
    BY <1>1, <1>2 DEF OnEntry
  <2>3. NothingThere
    BY <1>1, <2>2 DEF NothingThere
  <2> QED BY <2>1, <2>3, UndefinedFits
<1>3. CASE OnEntry(l)
  <2>1. UNCHANGED <<world, list, count, filter>> /\ EnterMenu(5) /\ ub' = Draw'
    BY <1>3, Zenon DEF ListCross
  <2>2. menu_id' = 5 /\ menu_sel' = menu_old_sel'[5]
        /\ menu_old_sel' = [[menu_old_sel EXCEPT ![5] = 0] EXCEPT ![m] = menu_sel]
    BY <1>1, <2>1 DEF EnterMenu
  <2>3. menu_old_sel \in [{1, 2, 5} -> Int]
    BY DEF DataInv, CursorsType
  <2>4. /\ menu_sel' = 0
        /\ \A k \in {1, 2} : menu_old_sel'[k] = IF k = m THEN menu_sel ELSE menu_old_sel[k]
    BY <1>1, <2>2, <2>3
  <2>5. selected_entry'.code_count \in Nat
    BY <2>2 DEF DataInv, SelectedType, OpenInv, SelectedLive
  <2>6. FolderFits(N)' /\ ListsFit(N)'
    BY <2>1 DEF Fits, FolderFits, ListsFit
  <2>7. \A k \in ListMenus : menu_old_sel'[k] < N[ListOf[k]]
    <3>1. ListMenus \subseteq {1, 2}
      BY DEF ListMenus
    <3> QED BY <1>1, <2>4, <3>1 DEF Fits, CursorFits
  <2>8. CursorFits(N)'
    <3>1. 5 \notin ListMenus
      BY DEF ListMenus
    <3>2. selected_entry'.code_count > 0 => menu_sel' \in 0 .. selected_entry'.code_count - 1
      BY <2>4, <2>5
    <3>3. menu_id' = 5
      BY <2>2
    <3> QED BY <2>7, <3>1, <3>2, <3>3 DEF CursorFits
  <2> QED BY <2>1, <2>6, <2>8, DrawnThere DEF Fits
<1> QED BY <1>2, <1>3

\* Filtering takes games from those that are counted, or gives them back.
LEMMA ListTriangleFits ==
  ASSUME NavInv, DataInv, NEW N \in [Lists -> Nat \ {0}], Fits(N), NavInv', DataInv',
         NEW m \in ListMenus, ListTriangle(m)
  PROVE  Fits(N)'
<1> DEFINE l == ListOf[m]
<1>1. /\ menu_id = m /\ m \in {1, 2} /\ l \in Lists /\ N[l] \in Nat \ {0}
      /\ list \in [Lists -> Seq(Title)] /\ Len(list[l]) \in {0, N[l]}
      /\ count \in [Lists -> Int] /\ count[l] <= N[l]
      /\ filter \in [Lists -> Int] /\ filter[l] <= N[l]
  <2>1. menu_id = m /\ l \in Lists
    BY DEF ListTriangle, InMenu, ListMenus
  <2> QED BY <2>1 DEF Fits, ListsFit, DataInv, ListsType, RestType, ListMenus
<1>2. UNCHANGED <<world, menu_id, menu_old_sel, selected_entry>> /\ menu_sel' = 0
      /\ (Unfilter(l) \/ Filter(l))
  BY Zenon DEF ListTriangle, selVars
<1>3. FolderFits(N)' /\ CursorFits(N)'
  BY <1>1, <1>2 DEF Fits, FolderFits, CursorFits
<1>4. ASSUME NEW games \in Seq(Title), NEW n \in Int, NEW k \in Int,
             list' = [list EXCEPT ![l] = games], count' = [count EXCEPT ![l] = n],
             filter' = [filter EXCEPT ![l] = k],
             Len(games) \in {0, N[l]}, n <= N[l], k <= N[l],
             ub' = Draw' \/ n <= 0 \/ Len(games) = 0
      PROVE  Fits(N)'
  <2>1. ListsFit(N)'
    BY <1>1, <1>4 DEF Fits, ListsFit
  <2>2. count'[l] = n /\ list'[l] = games /\ menu_id' = m
    BY <1>1, <1>2, <1>4
  <2>3. (n <= 0 \/ Len(games) = 0) => NothingThere'
    BY <1>4, <2>2 DEF NothingThere
  <2>4. ub' = Draw' => (ub' # "none" => NothingThere')
    BY <2>1, DrawnThere
  <2>5. ub' \notin {"none", "export"} => NothingThere'
    BY <1>4, <2>3, <2>4
  <2> QED BY <1>3, <2>1, <2>5 DEF Fits
<1>5. CASE Unfilter(l)
  <2>1. PICK games \in (IF doSort THEN QSortGameList(list[l], filter[l]) ELSE {list[l]}) :
          list' = [list EXCEPT ![l] = games]
    BY <1>5, Zenon DEF Unfilter
  <2>2. /\ count' = [count EXCEPT ![l] = filter[l]] /\ filter' = [filter EXCEPT ![l] = 0]
        /\ ub' = Draw' \/ SortsWild(list[l], filter[l])
    BY <1>5, Zenon DEF Unfilter
  <2>3. games \in Seq(Title) /\ Len(games) = Len(list[l])
    BY <1>1, <2>1, Sorted, Zenon
  <2>4. SortsWild(list[l], filter[l]) => filter[l] <= 0 \/ Len(games) = 0
    BY <1>1, <2>3 DEF SortsWild
  <2> HIDE DEF l
  <2>5. /\ Len(games) \in {0, N[l]} /\ filter[l] \in Int /\ filter[l] <= N[l]
        /\ 0 \in Int /\ 0 <= N[l]
    BY <1>1, <2>3
  <2>6. ub' = Draw' \/ filter[l] <= 0 \/ Len(games) = 0
    BY <2>2, <2>4, Zenon
  <2> QED BY <1>4, <2>1, <2>2, <2>3, <2>5, <2>6, Zenon
<1>6. CASE Filter(l)
  <2> DEFINE n == count[l]
             result == FilterInstalledGameList(list[l], n, installed')
  <2>1. filter' = [filter EXCEPT ![l] = n]
    BY <1>6, Zenon DEF Filter
  <2>2. CASE n > 1 /\ n > Len(list[l])
    <3>1. ub' = "list" /\ list' = list /\ count' = count
      BY <1>6, <2>2, Zenon DEF Filter
    <3>2. list' = [list EXCEPT ![l] = list[l]] /\ count' = [count EXCEPT ![l] = n]
      BY <1>1, <3>1
    <3>3. Len(list[l]) = 0 /\ list[l] \in Seq(Title) /\ n \in Int
      BY <1>1, <2>2
    <3> HIDE DEF l, n
    <3> QED BY <1>1, <1>4, <2>1, <3>2, <3>3 DEF n
  <2>3. CASE ~(n > 1 /\ n > Len(list[l]))
    <3>1. /\ count' = [count EXCEPT ![l] = result.b]
          /\ \E games \in (IF doSort THEN QSortGameList(result.games, result.b)
                           ELSE {result.games}) :
               list' = [list EXCEPT ![l] = games]
          /\ ub' = Draw' \/ SortsWild(result.games, result.b)
      BY <1>6, <2>3, Zenon DEF Filter
    <3>2. list[l] \in Seq(Title) /\ n \in Int /\ (n > 1 => n <= Len(list[l])) /\ n <= N[l]
      BY <1>1, <2>3
    <3>3. result \in Filtering(Title, list[l], n)
      BY <3>2, Filtered
    <3> HIDE DEF result, n, l
    <3>4. result.games \in Seq(Title) /\ Len(result.games) = Len(list[l]) /\ result.b \in Int
          /\ result.b < n
      BY <3>3 DEF Filtering
    <3>5. PICK games \in (IF doSort THEN QSortGameList(result.games, result.b)
                        ELSE {result.games}) :
            list' = [list EXCEPT ![l] = games]
      BY <3>1
    <3>6. games \in Seq(Title) /\ Len(games) = Len(result.games)
      BY <3>4, <3>5, Sorted, Zenon
    <3>7. SortsWild(result.games, result.b) => result.b <= 0 \/ Len(games) = 0
      BY <1>1, <3>2, <3>4, <3>6 DEF SortsWild
    <3>8. result.b <= N[l]
      BY <1>1, <3>2, <3>4
    <3> QED BY <1>1, <1>4, <2>1, <3>1, <3>2, <3>4, <3>5, <3>6, <3>7, <3>8
  <2> QED BY <2>2, <2>3
<1> QED BY <1>2, <1>5, <1>6

\* Reading a list again: the cursor and the filter count stay.
LEMMA ListSquareFits ==
  ASSUME NavInv, DataInv, NEW N \in [Lists -> Nat \ {0}], Fits(N), NavInv', DataInv',
         NEW m \in ListMenus, ListSquare(m)
  PROVE  Fits(N)'
<1>1. /\ menu_id = m /\ ListOf[m] \in Lists /\ Reload(ListOf[m], FALSE)
      /\ UNCHANGED <<world, filter, menu_id, menu_sel, menu_old_sel, selected_entry>>
  <2>1. ListOf[m] \in Lists
    BY DEF ListMenus
  <2> QED BY <2>1, Zenon DEF ListSquare, InMenu, navVars, selVars
<1>2. /\ FolderFits(N)' /\ ListsFit(N)'
      /\ ub' = DrawEntry(FALSE)' \/ list'[ListOf[m]] = <<>>
  BY <1>1, ReloadFits
<1>3. CursorFits(N)'
  BY <1>1 DEF Fits, CursorFits
<1>4. ub' # "none" => NothingThere'
  <2>1. CASE ub' = DrawEntry(FALSE)'
    BY <1>2, <2>1, DrawnThere
  <2>2. CASE list'[ListOf[m]] = <<>>
    BY <1>1, <2>2, Zenon DEF NothingThere
  <2> QED BY <1>2, <2>1, <2>2
<1> QED BY <1>2, <1>3, <1>4 DEF Fits

\* Steps that lead to a menu the way SetMenu does, or that do without the lists.
LEMMA MainFits ==
  ASSUME NavInv, DataInv, NEW N \in [Lists -> Nat \ {0}], Fits(N), NavInv', DataInv',
         \/ Start \/ ExitToXMB \/ BackToMain \/ sort_callback \/ CodesLeave \/ ViewCircle
         \/ \E id \in ListMenus \cup {3, 4} : MainCross(id)
         \/ \E m \in ListMenus : ListCircle(m)
  PROVE  Fits(N)'
<1>1. CASE Start
  <2>1. CASE \E l \in Lists : list[l] # <<>> /\ count[l] > Len(list[l])
    <3>1. PICK l \in Lists : list[l] # <<>> /\ count[l] > Len(list[l])
      BY <2>1
    <3>2. list[l] \in Seq(Title) /\ count[l] \in Int /\ N[l] \in Nat
      BY DEF DataInv, ListsType
    <3>3. Len(list[l]) \in {0, N[l]} /\ count[l] <= N[l]
      BY DEF Fits, ListsFit
    <3> QED BY <3>1, <3>2, <3>3
  <2>2. CASE Undefined("export")
    BY <2>2, UndefinedFits
  <2>3. CASE UNCHANGED <<world, listVars, filter, navVars, selVars, ub>>
    BY <2>3 DEF Fits, FolderFits, ListsFit, CursorFits, NothingThere, listVars, navVars, selVars
  <2> QED BY <1>1, <2>1, <2>2, <2>3, Zenon DEF Start
<1>2. CASE ExitToXMB \/ sort_callback
  <2>1. UNCHANGED <<world, listVars, filter, navVars, selVars, ub>>
    BY <1>2, Zenon DEF ExitToXMB, sort_callback
  <2> QED BY <2>1
    DEF Fits, FolderFits, ListsFit, CursorFits, NothingThere, listVars, navVars, selVars
<1>3. CASE BackToMain \/ (\E id \in ListMenus \cup {3, 4} : MainCross(id))
           \/ (\E m \in ListMenus : ListCircle(m))
  <2>1. PICK id \in ListMenus \cup {0, 3, 4} : SetMenu(id) /\ UNCHANGED <<world, filter, selVars>>
    BY <1>3, Zenon DEF BackToMain, MainCross, ListCircle
  <2> QED BY <2>1, SetMenuFits DEF selVars
<1>4. CASE CodesLeave \/ ViewCircle
  <2>1. CASE CodesLeave
    <3>1. PICK id \in {0, last_menu_id[5]} : SetMenu(id)
      BY <2>1, Zenon DEF CodesLeave
    <3>2. menu_id = 5 /\ UNCHANGED <<world, filter, selVars>>
      BY <2>1, Zenon DEF CodesLeave, InMenu
    <3>3. id \in ListMenus \cup {0, 3, 4}
      BY <3>1, <3>2 DEF NavInv, BackGoesToOwner
    <3> QED BY <3>1, <3>2, <3>3, SetMenuFits DEF selVars
  <2>2. CASE ViewCircle
    <3>1. menu_id = 6 /\ UNCHANGED <<world, filter, selVars>> /\ SetMenu(last_menu_id[6])
      BY <2>2, Zenon DEF ViewCircle, InMenu
    <3>2. last_menu_id[6] = 5
      BY <3>1 DEF NavInv, BackGoesToOwner
    <3>3. SetMenu(5)
      BY <3>1, <3>2
    <3> QED BY <3>1, <3>3, SetMenuFits DEF selVars
  <2> QED BY <1>4, <2>1, <2>2
<1> QED BY <1>1, <1>2, <1>3, <1>4

\* Moving about in the menus of a game.
LEMMA GameMoveFits ==
  ASSUME NavInv, DataInv, NEW N \in [Lists -> Nat \ {0}], Fits(N), NavInv', DataInv',
         CodesMove \/ ViewMove \/ OptionMove
  PROVE  Fits(N)'
<1>1. menu_id \in {5, 6, 7} /\ menu_id \notin ListMenus
  BY DEF CodesMove, ViewMove, OptionMove, InMenu, ListMenus
<1>2. CASE CodesMove
  <2> DEFINE n == selected_entry.code_count
  <2>1. PICK steps \in {1, 5} : \/ PointTo(move_selection_back(menu_sel, n, steps))
                                \/ PointTo(move_selection_fwd(menu_sel, n, steps))
    BY <1>2, Zenon DEF CodesMove
  <2>2. n \in Nat /\ steps \in Nat \ {0}
    BY <1>1 DEF DataInv, SelectedType, OpenInv, SelectedLive
  <2>3. menu_id = 5 /\ n > 0 => menu_sel \in 0 .. n - 1
    BY DEF Fits, CursorFits
  <2>4. ASSUME menu_id = 5 /\ n > 0
        PROVE  /\ move_selection_back(menu_sel, n, steps) \in 0 .. n - 1
               /\ move_selection_fwd(menu_sel, n, steps) \in 0 .. n - 1
    <3>1. n \in Nat \ {0} /\ menu_sel \in 0 .. n - 1
      BY <2>2, <2>3, <2>4
    <3> HIDE DEF n
    <3> QED BY <2>2, <3>1, CursorKept, Zenon
  <2>5. ASSUME NEW s, PointTo(s), menu_id = 5 /\ n > 0 => s \in 0 .. n - 1 PROVE Fits(N)'
    BY <1>1, <2>5, PointFits
  <2> HIDE DEF n
  <2> QED BY <2>1, <2>4, <2>5, Zenon
<1>3. CASE ViewMove \/ OptionMove
  <2>1. menu_id # 5
    BY <1>3 DEF ViewMove, OptionMove, InMenu
  <2>2. \E s : PointTo(s)
    BY <1>3, Zenon DEF ViewMove, OptionMove
  <2> QED BY <1>1, <2>1, <2>2, PointFits
<1> QED BY <1>2, <1>3

\* Steps in the menus of a game that leave it.
LEMMA GameFits ==
  ASSUME NavInv', DataInv', NEW N \in [Lists -> Nat \ {0}], Fits(N),
         UNCHANGED <<world, list, count, filter>>, CursorFits(N)', ub' = Draw'
  PROVE  Fits(N)'
<1>1. FolderFits(N)' /\ ListsFit(N)'
  BY DEF Fits, FolderFits, ListsFit
<1> QED BY <1>1, DrawnThere DEF Fits

\* CROSS, SQUARE and TRIANGLE on a code, or on none.
LEMMA CodesFit ==
  ASSUME NavInv, DataInv, NEW N \in [Lists -> Nat \ {0}], Fits(N), NavInv', DataInv',
         CodesCross \/ CodesSquare \/ CodesTriangle
  PROVE  Fits(N)'
<1>1. menu_id = 5
  BY DEF CodesCross, CodesSquare, CodesTriangle, InMenu
<1>2. /\ selected_entry.code_count \in Nat /\ selected_entry.code_count = Len(SelectedCodes)
      /\ selected_entry.code_count > 0 => menu_sel \in 0 .. selected_entry.code_count - 1
  BY <1>1 DEF DataInv, SelectedType, OpenInv, SelectedLive, Fits, CursorFits
<1>3. CASE ~OnCode
  <2>1. Undefined("codes")
    BY <1>3, Zenon DEF CodesCross, CodesSquare, CodesTriangle
  <2>2. NothingThere
    BY <1>1, <1>2, <1>3 DEF OnCode, NothingThere
  <2> QED BY <2>1, <2>2, UndefinedFits
<1>4. CASE OnCode
  <2>1. menu_sel \in 0 .. selected_entry.code_count - 1
    BY <1>2, <1>4 DEF OnCode
  <2>2. CASE CodesTriangle
    <3>1. SetMenu(6) /\ UNCHANGED <<world, filter, selected_entry>>
      BY <1>4, <2>2, Zenon DEF CodesTriangle
    <3> QED BY <1>1, <2>1, <3>1, SetMenuFits
  <2>3. CASE CodesCross \/ CodesSquare
    <3>1. /\ UNCHANGED <<world, list, count, filter, selected_entry>> /\ ub' = Draw'
          /\ EnterMenu(7) \/ UNCHANGED navVars
      BY <1>4, <2>3, Zenon DEF CodesCross, CodesSquare, Activate, Deactivate, selVars
    <3>2. CASE EnterMenu(7)
      <4>1. CursorFits(N)'
        BY <1>1, <2>1, <3>1, <3>2, EnterFits DEF DataInv, Fits
      <4> QED BY <3>1, <4>1, GameFits
    <3>3. CASE UNCHANGED navVars
      <4>1. CursorFits(N)'
        BY <3>1, <3>3 DEF Fits, CursorFits, navVars
      <4> QED BY <3>1, <4>1, GameFits
    <3> QED BY <3>1, <3>2, <3>3
  <2> QED BY <2>2, <2>3
<1> QED BY <1>3, <1>4

\* A choice, or none.
LEMMA OptionFits ==
  ASSUME NavInv, DataInv, NEW N \in [Lists -> Nat \ {0}], Fits(N), NavInv', DataInv',
         OptionCircle \/ OptionCross
  PROVE  Fits(N)'
<1>1. menu_id = 7 /\ last_menu_id[7] = 5
  BY DEF OptionCircle, OptionCross, InMenu, NavInv, BackGoesToOwner
<1>2. /\ UNCHANGED <<world, list, count, filter, selected_entry>> /\ ub' = Draw'
      /\ EnterMenu(last_menu_id[7]) \/ UNCHANGED <<menu_id, menu_old_sel>>
  BY Zenon DEF OptionCircle, OptionCross, selVars
<1>3. CASE EnterMenu(last_menu_id[7])
  <2>1. EnterMenu(5)
    BY <1>1, <1>3
  <2>2. CursorFits(N)'
    BY <1>1, <1>2, <2>1, EnterFits DEF DataInv, Fits
  <2> QED BY <1>2, <2>2, GameFits
<1>4. CASE UNCHANGED <<menu_id, menu_old_sel>>
  <2>1. 7 \notin ListMenus
    BY DEF ListMenus
  <2>2. CursorFits(N)'
    BY <1>1, <1>2, <1>4, <2>1 DEF Fits, CursorFits
  <2> QED BY <1>2, <2>2, GameFits
<1> QED BY <1>2, <1>3, <1>4

\* Every step keeps it.
LEMMA FitsNext ==
  ASSUME MenusInv, [Next]_vars, NEW N \in [Lists -> Nat \ {0}], Fits(N)
  PROVE  Fits(N)'
<1>1. NavInv /\ DataInv /\ NavInv' /\ DataInv'
  BY NavNext, DataNext DEF MenusInv
<1>2. CASE UNCHANGED vars
  BY <1>2
  DEF vars, Fits, FolderFits, ListsFit, CursorFits, NothingThere, listVars, navVars, selVars
<1>3. CASE \/ Start \/ ExitToXMB \/ BackToMain \/ sort_callback \/ CodesLeave \/ ViewCircle
           \/ \E id \in ListMenus \cup {3, 4} : MainCross(id)
           \/ \E m \in ListMenus : ListCircle(m)
  BY <1>1, <1>3, MainFits
<1>4. ASSUME NEW m \in ListMenus,
             ListMove(m) \/ ListLetter(m) \/ ListCross(m) \/ ListTriangle(m) \/ ListSquare(m)
      PROVE  Fits(N)'
  BY <1>1, <1>4, ListMoveFits, ListCrossFits, ListTriangleFits, ListSquareFits
<1>5. CASE CodesMove \/ ViewMove \/ OptionMove
  BY <1>1, <1>5, GameMoveFits
<1>6. CASE CodesCross \/ CodesSquare \/ CodesTriangle
  BY <1>1, <1>6, CodesFit
<1>7. CASE OptionCircle \/ OptionCross
  BY <1>1, <1>7, OptionFits
<1> QED BY <1>2, <1>3, <1>4, <1>5, <1>6, <1>7, Zenon DEF Next

\* In the beginning no list has been read.
LEMMA FitsInit ==
  ASSUME FixedFolders, Init
  PROVE  \E N \in [Lists -> Nat \ {0}] : Fits(N)
<1> DEFINE Size(l, n) ==
             /\ n \in Nat \ {0}
             /\ \A f \in world.folder[l] : f.others = 0 /\ Len(f.games) \in {0, n}
             /\ \A i \in StackInts : i <= n
           N == [l \in Lists |-> CHOOSE n \in Nat \ {0} : Size(l, n)]
<1>1. world \in Worlds /\ world \in WorldType
  BY WorldsAssumption DEF Init
<1>2. ASSUME NEW l \in Lists PROVE \E n \in Nat \ {0} : Size(l, n)
  <2>1. PICK n \in {Len(f.games) : f \in world.folder[l]} \cup {1} :
          /\ n # 0
          /\ \A f \in world.folder[l] : f.others = 0 /\ Len(f.games) \in {0, n}
          /\ \A i \in StackInts : i <= n
    BY <1>1, Zenon DEF FixedFolders
  <2>2. world.folder \in [Lists -> SUBSET Folder]
    BY <1>1, Zenon DEF WorldType
  <2>3. world.folder[l] \subseteq Folder
    BY <2>2, Zenon
  <2>4. \A f \in world.folder[l] : f.games \in Seq(Title)
    BY <2>3 DEF Folder
  <2>5. n \in Nat
    BY <2>1, <2>4
  <2> QED BY <2>1, <2>5
<1>3. \A l \in Lists : N[l] \in Nat \ {0} /\ Size(l, N[l])
  <2> SUFFICES ASSUME NEW l \in Lists PROVE N[l] \in Nat \ {0} /\ Size(l, N[l])
    OBVIOUS
  <2> HIDE DEF Size
  <2> QED BY <1>2, Zenon
<1>4. N \in [Lists -> Nat \ {0}]
  BY <1>3, Zenon
<1>5. FolderFits(N)
  <2> HIDE DEF N
  <2> QED BY <1>3, Zenon DEF FolderFits
<1> HIDE DEF N
<1>6. ListsFit(N)
  BY <1>4 DEF Init, ListsFit
<1>7. CursorFits(N)
  <2>1. ListMenus \subseteq {1, 2} /\ 0 \notin ListMenus /\ \A m \in ListMenus : ListOf[m] \in Lists
    BY DEF ListMenus
  <2> QED BY <1>4, <2>1 DEF Init, CursorFits
<1>8. ub = "none"
  BY DEF Init
<1> QED BY <1>4, <1>5, <1>6, <1>7, <1>8 DEF Fits

\* What is never read or written wrongly: where every reading of a list finds as many
\* games or none, only a list that shows no game, the negative cursor such a list has
\* left, and a game without codes make the program go wrong, besides an export that is
\* too long (Draw_UserCheatsMenu, Draw_CheatsMenu_Selection, UnloadGameList, qsort).
THEOREM UndefinedAlwaysOnlyOnEmpty ==
  ASSUME FixedFolders
  PROVE  Spec => []UndefinedOnlyOnEmpty
<1> DEFINE Bounded == \E N \in [Lists -> Nat \ {0}] : Fits(N)
           BoundInv == MenusInv /\ Bounded
<1>1. Init => BoundInv
  BY NavInit, DataInit, FitsInit DEF MenusInv
<1>2. BoundInv /\ [Next]_vars => BoundInv'
  <2> SUFFICES ASSUME BoundInv, [Next]_vars PROVE BoundInv'
    OBVIOUS
  <2>1. MenusInv'
    BY NavNext, DataNext DEF MenusInv
  <2>2. PICK N \in [Lists -> Nat \ {0}] : Fits(N)
    OBVIOUS
  <2>3. Fits(N)'
    BY <2>2, FitsNext
  <2> QED BY <2>1, <2>3
<1>3. BoundInv => UndefinedOnlyOnEmpty
  BY DEF Fits, NothingThere, UndefinedOnlyOnEmpty
<1> HIDE DEF BoundInv
<1> QED BY <1>1, <1>2, <1>3, PTL DEF Spec
=============================================================================
