------------------------------ MODULE ArtMenus ------------------------------
(***************************************************************************)
(* The GUI's main loop (main.c, drawScene): the two game lists, the games' *)
(* code tables, the menus and their cursors.  One action is one frame in   *)
(* which a button is pressed.  A frame that reads memory the program never *)
(* filled in, or writes beyond a block, has no defined outcome: ub says    *)
(* where that happened, and nothing is modelled after it.                  *)
(*                                                                         *)
(* A game is a number, the place of its title in the order of the names,   *)
(* and names its code table too: there is no game twice in a list.  The    *)
(* cursor of the main, about and options menus is not modelled (it is 0),  *)
(* and neither are menu_old_sel of the menus that reset it on entry.       *)
(***************************************************************************)
EXTENDS GameList, FiniteSets

CONSTANTS
  Lists,     \* "user" and "online", or one of them
  Title,     \* the games
  Worlds,    \* what the folder and the server may hold: see WorldType
  StackInts, \* what an integer nobody has set may hold
  Letter,    \* the first letter of each game's name
  RetCap,    \* how many codes the 5000 bytes of ParseActivatedGameList hold
  LeastCount \* the bound: a list whose count is below it is not filtered again

\* A code in a file: its place in the order of names, the constant-write mark,
\* the number of choices of each of its options, the ends of lines in its text.
FileCode == [name : Nat, cwrite : BOOLEAN, sizes : Seq(Nat \ {0}), lines : Nat]

\* What reading a list may find: games, each once, and, in a directory, a number of
\* other entries.  An empty directory and a failed download have neither, and a directory
\* that holds other entries only is not modelled: <<>> stands for NULL alone.
Folder ==
  {f \in [games : Seq(Title), others : Nat] :
     (f.games = <<>> => f.others = 0) /\ IsInjective(f.games)}

\* folder[l]: the directories, or the game lists of the server, that reading list
\* l may find.  ncl[l][t]: the code files game t may have, <<>> for none.  ids: the
\* sets of games that may be installed.  A player who never opens list l has
\* folder[l] empty, one who never filters ids.
WorldType ==
  [folder : [Lists -> SUBSET Folder],
   ncl    : [Lists -> [Title -> SUBSET Seq(FileCode)]],
   ids    : SUBSET SUBSET Title]

ASSUME ListsAssumption == Lists \subseteq {"user", "online"}
ASSUME TitleAssumption == Title \subseteq Nat
ASSUME WorldsAssumption == Worlds \subseteq WorldType
ASSUME BoundsAssumption == StackInts \subseteq Int /\ RetCap \in Nat /\ LeastCount \in Int

VARIABLES
  world,            \* the member of Worlds the program runs in
  menu_id,
  menu_sel,
  menu_old_sel,     \* of menus 1, 2 and 5
  last_menu_id,
  list,             \* user_game_list and online_game_list; <<>> is NULL
  count,            \* user_game_count and online_game_count
  filter,           \* filter_user_count and filter_online_count
  codes,            \* the code tables the games of each list point to; <<>> is NULL
  code_sorted,      \* the games whose code_sorted is set
  installed,        \* user_installed_titleids
  doSort,
  selected_entry,   \* its list, title and code_count
  selected_centry,  \* the index of the code it is a copy of
  option_index,
  art,              \* what this run has written to art.txt
  close_art,
  ub

listVars == <<list, count, codes, code_sorted>>
navVars == <<menu_id, menu_sel, menu_old_sel, last_menu_id>>
selVars == <<selected_entry, selected_centry, option_index>>
endVars == <<art, close_art>>
vars == <<world, listVars, filter, installed, doSort, navVars, selVars, endVars, ub>>

Unscanned == {-1}
Unwritten == [written |-> FALSE, codes |-> <<>>]
NoEntry == [list |-> "none", title |-> 0, code_count |-> 0]
ListOf == [m \in {1, 2} |-> IF m = 1 THEN "user" ELSE "online"]
ListMenus == {m \in {1, 2} : ListOf[m] \in Lists}

\* The table selected_entry.codes points to.
SelectedCodes ==
  IF selected_entry = NoEntry THEN <<>> ELSE codes[selected_entry.list][selected_entry.title]

\* The code the option menu works on (main.c:1787, 1793).
OptionTarget == menu_old_sel[last_menu_id[7]]

Init ==
  /\ world \in Worlds
  /\ menu_id = 0 /\ menu_sel = 0
  /\ menu_old_sel = [m \in {1, 2, 5} |-> 0]
  /\ last_menu_id = [m \in 0 .. 7 |-> 0]
  /\ list = [l \in Lists |-> <<>>]
  /\ count = [l \in Lists |-> 0]
  /\ filter = [l \in Lists |-> 0]
  /\ codes = [l \in Lists |-> [t \in Title |-> <<>>]]
  /\ code_sorted = [l \in Lists |-> {}]
  /\ installed = Unscanned
  /\ doSort \in BOOLEAN
  /\ selected_entry = NoEntry /\ selected_centry = 0 /\ option_index = 0
  /\ art = Unwritten /\ close_art = FALSE
  /\ ub = "none"

-----------------------------------------------------------------------------
(* Reading and drawing                                                     *)

\* Draw_UserCheatsMenu with the cursor at sel finds the games of list l it draws.
Draw_UserCheatsMenu(l, sel) == \A x \in DrawnEntries(sel, count[l]) : x < Len(list[l])

\* DrawCheatsList with the cursor at sel finds the codes it draws and, behind the
\* names of those that are on, the names of the choices made.
Draw_CheatsMenu_Selection(sel) ==
  \A x \in DrawnEntries(sel, selected_entry.code_count) :
    /\ x < Len(SelectedCodes)
    /\ LET c == SelectedCodes[x + 1] IN
       c.activated => \A i \in DOMAIN c.options : c.options[i] < c.sizes[i]

\* The code in view and the code whose option is asked for: a copy, with the text
\* and the options of the one in the table.
Viewed == SelectedCodes[selected_centry + 1]

\* The lines of the code the view draws; what follows the last end of a line is none.
DrawCodes == DrawnLines(menu_sel, Viewed.lines)

\* The choices of the open option that are drawn.
DrawOptions == DrawnLines(menu_sel, Viewed.sizes[option_index + 1])

\* The view and the option slide in over the codes of the game, which stay behind
\* them as long as they are open and while they slide out.
Draw_CheatsMenu_View == Draw_CheatsMenu_Selection(menu_old_sel[5])
Draw_CheatsMenu_Options ==
  Draw_CheatsMenu_Selection(menu_old_sel[5]) /\ option_index < Len(Viewed.options)

\* Whether drawing the menu the frame ends in reads what is not there.
Draw ==
  LET there == CASE menu_id \in ListMenus -> Draw_UserCheatsMenu(ListOf[menu_id], menu_sel)
                 [] menu_id = 5 -> Draw_CheatsMenu_Selection(menu_sel)
                 [] menu_id = 6 -> Draw_CheatsMenu_View
                 [] menu_id = 7 -> Draw_CheatsMenu_Options
                 [] OTHER -> TRUE
  IN  IF there THEN "none" ELSE "draw"

\* An animation draws what the menu draws next, but for the one of the online list:
\* it has the cursor of the user's.
DrawEntry(doAni) ==
  IF doAni /\ menu_id = 2 /\ ~Draw_UserCheatsMenu("online", menu_old_sel[1])
  THEN "draw" ELSE Draw

\* A frame that goes wrong at the named place.
Undefined(where) ==
  /\ ub' = where
  /\ UNCHANGED <<world, listVars, filter, installed, doSort, navVars, selVars, endVars>>

InMenu(m) == menu_id = m /\ ub = "none" /\ ~close_art

\* ReadUserList and ReadOnlineList: the games, and the count for the caller: all
\* entries, games or not.  Of nothing they make NULL, and leave the count unset.
ReadList(found) ==
  LET entries == Len(found.games) + found.others
  IN  {[games |-> found.games, count |-> n] : n \in IF entries = 0 THEN StackInts ELSE {entries}}

\* UnloadGameList frees the first count entries of a list that is not NULL, and
\* with them their code tables: this is when it comes to one nobody filled in.
UnloadsWild(l) == list[l] # <<>> /\ count[l] > Len(list[l])

\* ReloadUserCheats and ReloadOnlineCheats.
Reload(l, doAni) ==
  \E r \in UNION {ReadList(found) : found \in world.folder[l]} :
    /\ \E games \in (IF doSort THEN QSortGameList(r.games, r.count) ELSE {r.games}) :
         list' = [list EXCEPT ![l] = games]
    /\ count' = [count EXCEPT ![l] = r.count]
    /\ codes' = [codes EXCEPT ![l] = [t \in Title |-> <<>>]]
    /\ code_sorted' = [code_sorted EXCEPT ![l] = {}]
    /\ ub' = CASE UnloadsWild(l) -> "unload"
               [] ~UnloadsWild(l) /\ doSort /\ SortsWild(r.games, r.count) -> "sort"
               [] OTHER -> DrawEntry(doAni)'

\* Mutated: going back counts as coming from.
EnterMenu_AlwaysRemembers(id) ==
  LET reset == IF id = 5 /\ menu_id \in {1, 2} THEN [menu_old_sel EXCEPT ![5] = 0]
               ELSE menu_old_sel
  IN  /\ menu_old_sel' = IF menu_id \in {1, 2, 5} THEN [reset EXCEPT ![menu_id] = menu_sel]
                         ELSE reset
      /\ last_menu_id' = [last_menu_id EXCEPT ![id] = menu_id]
      /\ menu_id' = id
      /\ menu_sel' = IF id \in {1, 2, 5} THEN menu_old_sel'[id] ELSE 0

\* The bookkeeping of SetMenu.
EnterMenu(id) ==
  LET reset == IF id = 5 /\ menu_id \in {1, 2} THEN [menu_old_sel EXCEPT ![5] = 0]
               ELSE menu_old_sel
  IN  /\ menu_old_sel' = IF menu_id \in {1, 2, 5} THEN [reset EXCEPT ![menu_id] = menu_sel]
                         ELSE reset
      /\ last_menu_id' = IF last_menu_id[menu_id] # id
                         THEN [last_menu_id EXCEPT ![id] = menu_id] ELSE last_menu_id
      /\ menu_id' = id
      /\ menu_sel' = IF id \in {1, 2, 5} THEN menu_old_sel'[id] ELSE 0

\* A list that is NULL is read on the way into its menu.
SetMenu(id) ==
  /\ EnterMenu(id)
  /\ \E doAni \in BOOLEAN :
       \/ /\ id \in ListMenus
          /\ list[ListOf[id]] = <<>>
          /\ Reload(ListOf[id], doAni)
       \/ /\ id \in ListMenus => list[ListOf[id]] # <<>>
          /\ UNCHANGED listVars
          /\ ub' = DrawEntry(doAni)'

-----------------------------------------------------------------------------
(* Main, about and options menus                                           *)

\* The activated codes of a game, as AppendCode writes them.
AppendCodes(l, t) ==
  LET table == codes[l][t]
      upto[y \in 0 .. Len(table)] ==
        IF y = 0 THEN <<>>
        ELSE upto[y - 1] \o (IF table[y].activated
                             THEN <<[list |-> l, title |-> t, name |-> table[y].name,
                                     cwrite |-> table[y].cwrite, options |-> table[y].options]>>
                             ELSE <<>>)
  IN  upto[Len(table)]

\* The codes of the first n games of a list.
CodesOfFirst(l, n) ==
  LET upto[x \in 0 .. n] == IF x = 0 THEN <<>> ELSE upto[x - 1] \o AppendCodes(l, list[l][x])
  IN  IF list[l] = <<>> \/ n <= 0 THEN <<>> ELSE upto[n]

\* Mutated: the last game is left out.
ParseActivatedGameList_SkipsLast(l) == CodesOfFirst(l, count[l] - 1)

\* What ParseActivatedGameList puts into its buffer, for the first count games.
ParseActivatedGameList(l) == CodesOfFirst(l, count[l])

\* "Start": export both lists, the user's first, and leave.
Start ==
  /\ InMenu(0)
  /\ IF \E l \in Lists : list[l] # <<>> /\ count[l] > Len(list[l]) THEN Undefined("list")
     ELSE IF \E l \in Lists : Len(ParseActivatedGameList(l)) > RetCap THEN Undefined("export")
     ELSE /\ art' = [written |-> TRUE,
                     codes |-> (IF "user" \in Lists THEN ParseActivatedGameList("user") ELSE <<>>)
                            \o (IF "online" \in Lists THEN ParseActivatedGameList("online") ELSE <<>>)]
          /\ close_art' = TRUE
          /\ UNCHANGED <<world, listVars, filter, installed, doSort, navVars, selVars, ub>>

MainCross(id) ==
  /\ InMenu(0)
  /\ UNCHANGED <<world, filter, installed, doSort, selVars, endVars>>
  /\ SetMenu(id)

ExitToXMB ==
  /\ InMenu(0)
  /\ close_art' = TRUE
  /\ UNCHANGED <<world, listVars, filter, installed, doSort, navVars, selVars, art, ub>>

\* CIRCLE in the about and options menus.
BackToMain ==
  /\ InMenu(3) \/ InMenu(4)
  /\ UNCHANGED <<world, filter, installed, doSort, selVars, endVars>>
  /\ SetMenu(0)

\* "Sort Cheats" in the options menu.
sort_callback ==
  /\ InMenu(4)
  /\ doSort' = ~doSort
  /\ UNCHANGED <<world, listVars, filter, installed, navVars, selVars, endVars, ub>>

-----------------------------------------------------------------------------
(* The two list menus, m = 1 and m = 2                                     *)

\* The cursor is moved to s.
PointTo(s) ==
  /\ menu_sel' = s
  /\ UNCHANGED <<world, listVars, filter, installed, doSort, menu_id, menu_old_sel, last_menu_id,
                 selVars, endVars>>
  /\ ub' = Draw'

\* UP, DOWN, LEFT, RIGHT, L1 and R1.
ListMove(m) ==
  /\ InMenu(m)
  /\ \E steps \in {1, 5, 25} :
       \/ PointTo(move_selection_back(menu_sel, count[ListOf[m]], steps))
       \/ PointTo(move_selection_fwd(menu_sel, count[ListOf[m]], steps))

\* The cursor is on an entry of the array.
OnEntry(l) == menu_sel \in 0 .. Len(list[l]) - 1

\* L2 and R2.
ListLetter(m) ==
  LET l == ListOf[m] IN
  /\ InMenu(m)
  /\ IF OnEntry(l) /\ count[l] <= Len(list[l])
     THEN \/ PointTo(move_letter_back(list[l], Letter, menu_sel))
          \/ PointTo(move_letter_fwd(list[l], Letter, menu_sel, count[l]))
     ELSE Undefined("list")

\* A table as read from a file: nothing is activated, no option is read.
FreshTable(file) ==
  [y \in 1 .. Len(file) |->
    [name |-> file[y].name, cwrite |-> file[y].cwrite, sizes |-> file[y].sizes,
     lines |-> file[y].lines, activated |-> FALSE, options |-> <<>>]]

\* Mutated: a table that is there is read again.
LoadedTable_ReadsAgain(l, t) ==
  {FreshTable(file) : file \in world.ncl[l][t]}

\* The tables a game may have when CROSS has found its codes pointer NULL or not.
LoadedTable(l, t) ==
  IF codes[l][t] = <<>> THEN {FreshTable(file) : file \in world.ncl[l][t]} ELSE {codes[l][t]}

QSortCodeList(table) ==
  {[y \in DOMAIN table |-> table[p[y]]] :
     p \in Arrangements([y \in DOMAIN table |-> table[y].name])}

\* The orders a table may be in once CROSS has sorted it, or not.
SortedTable(l, t, table) ==
  IF doSort /\ t \notin code_sorted[l] THEN QSortCodeList(table) ELSE {table}

\* Mutated: the sorted game is named by its place.
ListCross_MarksCursor(m) ==
  LET l == ListOf[m]
      t == list[l][menu_sel + 1]
  IN  /\ InMenu(m)
      /\ IF OnEntry(l)
         THEN \E table \in UNION {SortedTable(l, t, table) : table \in LoadedTable(l, t)} :
           /\ codes' = [codes EXCEPT ![l][t] = table]
           /\ code_sorted' = IF doSort THEN [code_sorted EXCEPT ![l] = @ \cup {menu_sel}] ELSE code_sorted
           /\ selected_entry' = [list |-> l, title |-> t, code_count |-> Len(table)]
           /\ UNCHANGED <<world, list, count, filter, installed, doSort, selected_centry,
                          option_index, endVars>>
           /\ EnterMenu(5)
           /\ ub' = Draw'
         ELSE Undefined("list")

\* Mutated: the game is copied before its codes are read.
ListCross_CopiesFirst(m) ==
  LET l == ListOf[m]
      t == list[l][menu_sel + 1]
  IN  /\ InMenu(m)
      /\ IF OnEntry(l)
         THEN \E table \in UNION {SortedTable(l, t, table) : table \in LoadedTable(l, t)} :
           /\ codes' = [codes EXCEPT ![l][t] = table]
           /\ code_sorted' = IF doSort THEN [code_sorted EXCEPT ![l] = @ \cup {t}] ELSE code_sorted
           /\ selected_entry' = [list |-> l, title |-> t, code_count |-> Len(codes[l][t])]
           /\ UNCHANGED <<world, list, count, filter, installed, doSort, selected_centry,
                          option_index, endVars>>
           /\ EnterMenu(5)
           /\ ub' = Draw'
         ELSE Undefined("list")

\* CROSS: the game's codes are read unless they have been, sorted unless they
\* have been, and its menu is entered with a copy of the game.
ListCross(m) ==
  LET l == ListOf[m]
      t == list[l][menu_sel + 1]
  IN  /\ InMenu(m)
      /\ IF OnEntry(l)
         THEN \E table \in UNION {SortedTable(l, t, table) : table \in LoadedTable(l, t)} :
           /\ codes' = [codes EXCEPT ![l][t] = table]
           /\ code_sorted' = IF doSort THEN [code_sorted EXCEPT ![l] = @ \cup {t}] ELSE code_sorted
           /\ selected_entry' = [list |-> l, title |-> t, code_count |-> Len(table)]
           /\ UNCHANGED <<world, list, count, filter, installed, doSort, selected_centry,
                          option_index, endVars>>
           /\ EnterMenu(5)
           /\ ub' = Draw'
         ELSE Undefined("list")

\* TRIANGLE: FilterUserGames or FilterOnlineGames, then the cursor goes home.
\* A filter count that is not 0 says that the list is filtered.
Unfilter(l) ==
  /\ filter[l] # 0
  /\ count' = [count EXCEPT ![l] = filter[l]]
  /\ filter' = [filter EXCEPT ![l] = 0]
  /\ \E games \in (IF doSort THEN QSortGameList(list[l], filter[l]) ELSE {list[l]}) :
       list' = [list EXCEPT ![l] = games]
  /\ UNCHANGED installed
  /\ ub' = IF doSort /\ SortsWild(list[l], filter[l]) THEN "sort" ELSE Draw'

\* The titles LoadGames finds, or has found.
LoadGames == IF installed = Unscanned THEN world.ids ELSE {installed}

\* The GUI's own title is always found, so that LoadGames scans once.
\* Filtering a list of no games takes 1 from its count each time.
Filter(l) ==
  LET n == count[l] IN
  /\ filter[l] = 0
  /\ n >= LeastCount
  /\ installed' \in LoadGames
  /\ filter' = [filter EXCEPT ![l] = n]
  /\ IF n > 1 /\ n > Len(list[l])
     THEN ub' = "list" /\ UNCHANGED <<list, count>>
     ELSE LET result == FilterInstalledGameList(list[l], n, installed') IN
          /\ count' = [count EXCEPT ![l] = result.b]
          /\ \E games \in (IF doSort THEN QSortGameList(result.games, result.b)
                           ELSE {result.games}) :
               list' = [list EXCEPT ![l] = games]
          /\ ub' = IF doSort /\ SortsWild(result.games, result.b) THEN "sort" ELSE Draw'

ListTriangle(m) ==
  /\ InMenu(m)
  /\ UNCHANGED <<world, codes, code_sorted, doSort, menu_id, menu_old_sel, last_menu_id, selVars, endVars>>
  /\ menu_sel' = 0
  /\ Unfilter(ListOf[m]) \/ Filter(ListOf[m])

\* SQUARE: read the list again; the cursor and the filter count stay.
ListSquare(m) ==
  /\ InMenu(m)
  /\ UNCHANGED <<world, filter, installed, doSort, navVars, selVars, endVars>>
  /\ Reload(ListOf[m], FALSE)

ListCircle(m) ==
  /\ InMenu(m)
  /\ UNCHANGED <<world, filter, installed, doSort, selVars, endVars>>
  /\ SetMenu(0)

-----------------------------------------------------------------------------
(* The codes of a game, menu 5                                             *)

\* The cursor is on a code of the table.
OnCode == menu_sel \in 0 .. Len(SelectedCodes) - 1

\* The code at index i of the table becomes c.
SetCode(i, c) ==
  codes' = [codes EXCEPT ![selected_entry.list][selected_entry.title][i + 1] = c]

\* UP, DOWN, LEFT and RIGHT.
CodesMove ==
  /\ InMenu(5)
  /\ \E steps \in {1, 5} :
       \/ PointTo(move_selection_back(menu_sel, selected_entry.code_count, steps))
       \/ PointTo(move_selection_fwd(menu_sel, selected_entry.code_count, steps))

\* What ReadOptions sets: the first choice of each option.
ReadOptions(c) ==
  IF c.options = <<>> THEN [i \in 1 .. Len(c.sizes) |-> 0] ELSE c.options

\* CROSS on a code that is off: it is on, and if it has options its menu is
\* entered with a copy of it.
Activate ==
  LET c == SelectedCodes[menu_sel + 1]
      on == [c EXCEPT !.activated = TRUE, !.options = ReadOptions(c)]
  IN  /\ ~c.activated
      /\ SetCode(menu_sel, on)
      /\ IF on.options # <<>>
         THEN /\ selected_centry' = menu_sel
              /\ option_index' = 0
              /\ EnterMenu(7)
         ELSE UNCHANGED <<selected_centry, option_index, navVars>>

\* CROSS on a code that is on.
Deactivate ==
  /\ SelectedCodes[menu_sel + 1].activated
  /\ SetCode(menu_sel, [SelectedCodes[menu_sel + 1] EXCEPT !.activated = FALSE])
  /\ UNCHANGED <<selected_centry, option_index, navVars>>

CodesCross ==
  /\ InMenu(5)
  /\ IF OnCode
     THEN /\ Activate \/ Deactivate
          /\ UNCHANGED <<world, list, count, code_sorted, filter, installed, doSort,
                         selected_entry, endVars>>
          /\ ub' = Draw'
     ELSE Undefined("codes")

\* SQUARE: constant or once, for a code that is on.
CodesSquare ==
  LET c == SelectedCodes[menu_sel + 1] IN
  /\ InMenu(5)
  /\ IF OnCode
     THEN /\ c.activated
          /\ SetCode(menu_sel, [c EXCEPT !.cwrite = ~@])
          /\ UNCHANGED <<world, list, count, code_sorted, filter, installed, doSort, navVars,
                         selVars, endVars>>
          /\ ub' = Draw'
     ELSE Undefined("codes")

\* TRIANGLE: view a copy of the code.
CodesTriangle ==
  /\ InMenu(5)
  /\ IF OnCode
     THEN /\ selected_centry' = menu_sel
          /\ UNCHANGED <<world, filter, installed, doSort, selected_entry, option_index, endVars>>
          /\ SetMenu(6)
     ELSE Undefined("codes")

\* CIRCLE goes back to the menu the game was chosen in, START to the main menu.
CodesLeave ==
  /\ InMenu(5)
  /\ UNCHANGED <<world, filter, installed, doSort, selVars, endVars>>
  /\ \E id \in {0, last_menu_id[5]} : SetMenu(id)

-----------------------------------------------------------------------------
(* The view of a code, menu 6, and the options of a code, menu 7           *)

ViewMove ==
  LET max == IF Viewed.lines = 0 THEN 1 ELSE Viewed.lines IN
  /\ InMenu(6)
  /\ \/ PointTo(move_selection_back(menu_sel, max, 1))
     \/ PointTo(move_selection_fwd(menu_sel, max, 1))

ViewCircle ==
  /\ InMenu(6)
  /\ UNCHANGED <<world, filter, installed, doSort, selVars, endVars>>
  /\ SetMenu(last_menu_id[6])

OptionMove ==
  LET max == Viewed.sizes[option_index + 1] IN
  /\ InMenu(7)
  /\ \/ PointTo(move_selection_back(menu_sel, max, 1))
     \/ PointTo(move_selection_fwd(menu_sel, max, 1))

\* CIRCLE gives the code up.  Menu 7 is only entered from menu 5, so that
\* last_menu_id[7] is no list to read.
OptionCircle ==
  /\ InMenu(7)
  /\ SetCode(OptionTarget, [SelectedCodes[OptionTarget + 1] EXCEPT !.activated = FALSE])
  /\ UNCHANGED <<world, list, count, code_sorted, filter, installed, doSort, selVars, endVars>>
  /\ EnterMenu(last_menu_id[7])
  /\ ub' = Draw'

\* Mutated: there is one option more.
OptionCross_OneTooMany ==
  LET c == SelectedCodes[OptionTarget + 1] IN
  /\ InMenu(7)
  /\ SetCode(OptionTarget, [c EXCEPT !.options[option_index + 1] = menu_sel])
  /\ option_index' = option_index + 1
  /\ IF option_index + 1 > Len(c.options) THEN EnterMenu(last_menu_id[7])
     ELSE /\ menu_sel' = 0
          /\ UNCHANGED <<menu_id, menu_old_sel, last_menu_id>>
  /\ UNCHANGED <<world, list, count, code_sorted, filter, installed, doSort,
                 selected_entry, selected_centry, endVars>>
  /\ ub' = Draw'

\* CROSS takes a choice and goes on to the next option, or back after the last.
OptionCross ==
  LET c == SelectedCodes[OptionTarget + 1] IN
  /\ InMenu(7)
  /\ SetCode(OptionTarget, [c EXCEPT !.options[option_index + 1] = menu_sel])
  /\ option_index' = option_index + 1
  /\ IF option_index + 1 >= Len(c.options) THEN EnterMenu(last_menu_id[7])
     ELSE /\ menu_sel' = 0
          /\ UNCHANGED <<menu_id, menu_old_sel, last_menu_id>>
  /\ UNCHANGED <<world, list, count, code_sorted, filter, installed, doSort,
                 selected_entry, selected_centry, endVars>>
  /\ ub' = Draw'

-----------------------------------------------------------------------------
Next ==
  \/ Start \/ ExitToXMB \/ BackToMain \/ sort_callback
  \/ \E id \in ListMenus \cup {3, 4} : MainCross(id)
  \/ \E m \in ListMenus :
       ListMove(m) \/ ListLetter(m) \/ ListCross(m) \/ ListTriangle(m) \/ ListSquare(m) \/ ListCircle(m)
  \/ CodesMove \/ CodesCross \/ CodesSquare \/ CodesTriangle \/ CodesLeave
  \/ ViewMove \/ ViewCircle \/ OptionMove \/ OptionCircle \/ OptionCross

Spec == Init /\ [][Next]_vars
=============================================================================
