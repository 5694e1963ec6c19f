--------------------------- MODULE ArtMenusProps ---------------------------
(* What the GUI's menus promise.                                           *)
EXTENDS ArtMenus

\* Every variable has its type; a cursor and a count are any integers.
Code == [name : Nat, cwrite : BOOLEAN, sizes : Seq(Nat \ {0}), lines : Nat,
         activated : BOOLEAN, options : Seq(Int)]
TypeOK ==
  /\ world \in Worlds
  /\ menu_id \in 0 .. 7 /\ menu_sel \in Int
  /\ menu_old_sel \in [{1, 2, 5} -> Int]
  /\ last_menu_id \in [0 .. 7 -> 0 .. 7]
  /\ list \in [Lists -> Seq(Title)]
  /\ count \in [Lists -> Int] /\ filter \in [Lists -> Int]
  /\ codes \in [Lists -> [Title -> Seq(Code)]]
  /\ code_sorted \in [Lists -> SUBSET Title]
  /\ installed \in (SUBSET Title) \cup {Unscanned}
  /\ doSort \in BOOLEAN
  /\ selected_entry \in [list : Lists, title : Title, code_count : Nat] \cup {NoEntry}
  /\ selected_centry \in Nat /\ option_index \in Nat
  /\ close_art \in BOOLEAN /\ art.written \in BOOLEAN
  /\ ub \in {"none", "draw", "sort", "unload", "list", "codes", "export"}

\* Going back leads where the player came from: while a game is open,
\* last_menu_id[5] is the menu of the list it was chosen in, however often the
\* views of its codes have been entered and left (SetMenu).
BackGoesToOwner ==
  /\ menu_id \in {5, 6, 7} => /\ last_menu_id[5] \in ListMenus
                              /\ selected_entry.list = ListOf[last_menu_id[5]]
  /\ menu_id \in {6, 7} => last_menu_id[menu_id] = 5

\* The copy selected_entry shares its code table with the list: while a game is
\* open its table has not been freed and has the length the copy remembers.
SelectedLive ==
  menu_id \in {5, 6, 7} => /\ selected_entry # NoEntry
                           /\ selected_entry.title \in Range(list[selected_entry.list])
                           /\ selected_entry.code_count = Len(SelectedCodes)

\* The option menu shows the copy selected_centry and writes to the table through
\* the saved cursor of menu 5: both are the same code.
OptionSameCode == menu_id = 7 => OptionTarget = selected_centry

\* Every choice recorded names one of the values of its option (ParseOptionsCode).
ChoicesInRange ==
  \A l \in Lists, t \in Title : \A y \in 1 .. Len(codes[l][t]) :
    LET c == codes[l][t][y] IN
    c.options # <<>> => /\ Len(c.options) = Len(c.sizes)
                        /\ \A i \in 1 .. Len(c.sizes) : c.options[i] \in 0 .. c.sizes[i] - 1

\* What is more, the code is on, the option asked for is one it has, and every choice
\* on record is a value of its option: the export takes the value by it.  And the
\* choice or the line the cursor is on is one of those on the screen, so that CROSS
\* takes what is seen (DrawOptions, DrawCodes).
OptionOnSelected ==
  /\ OptionSameCode
  /\ ChoicesInRange
  /\ menu_id = 7 =>
    /\ SelectedCodes[OptionTarget + 1].activated
    /\ option_index < Len(SelectedCodes[OptionTarget + 1].options)
    /\ menu_sel \in DrawOptions
  /\ menu_id = 6 /\ Viewed.lines > 0 => menu_sel \in DrawCodes

\* What a list is read from has each time as many games and nothing else, or is
\* empty, and an integer nobody has set holds no greater number.
FixedFolders ==
  \A w \in Worlds, l \in Lists : \E n \in {Len(f.games) : f \in w.folder[l]} \cup {1} :
    /\ n # 0
    /\ \A f \in w.folder[l] : f.others = 0 /\ Len(f.games) \in {0, n}
    /\ \A i \in StackInts : i <= n

\* No file gives two codes the same name.
NamesOnce ==
  \A w \in Worlds, l \in Lists, t \in Title : \A file \in w.ncl[l][t] :
    \A y, z \in DOMAIN file : file[y].name = file[z].name => y = z

\* Under FixedFolders an undefined read or write has one of four causes: a list that
\* shows no game, the negative cursor such a list has left, a game without codes, or
\* more codes than the export buffer holds.
UndefinedOnlyOnEmpty ==
  ub \notin {"none", "export"} =>
    \/ /\ menu_id \in ListMenus
       /\ count[ListOf[menu_id]] <= 0 \/ list[ListOf[menu_id]] = <<>> \/ menu_sel < 0
    \/ menu_id = 5 /\ selected_entry.code_count = 0

\* Which codes of list l are activated.
ActivatedOf(l) ==
  UNION {{[list |-> l, title |-> t, name |-> codes[l][t][y].name] :
            y \in {y \in 1 .. Len(codes[l][t]) : codes[l][t][y].activated}} : t \in Title}

\* A step switches at most one code, one of the open game; or it reads a list
\* again and forgets all of that list.  Sorting, filtering and moving about
\* switch nothing.
SwitchesOne ==
  \A l \in Lists : ActivatedOf(l)' # ActivatedOf(l) =>
    \/ menu_id \in ListMenus /\ ListOf[menu_id] = l /\ \A t \in Title : codes'[l][t] = <<>>
    \/ /\ menu_id \in {5, 7} /\ selected_entry.list = l
       /\ \E y \in 1 .. Len(SelectedCodes) :
            LET c == [list |-> l, title |-> selected_entry.title, name |-> SelectedCodes[y].name] IN
            ActivatedOf(l)' \in {ActivatedOf(l) \cup {c}, ActivatedOf(l) \ {c}}
OneCodeAtATime == [][SwitchesOne]_vars

\* The codes art.txt was made of.
Exported ==
  {[list |-> art.codes[i].list, title |-> art.codes[i].title, name |-> art.codes[i].name] :
     i \in DOMAIN art.codes}

\* With both lists shown in full, what is exported is what is activated, each
\* code once, however the lists and the tables were sorted, filtered and read
\* again before (ParseActivatedGameList).  A code is told by its name.
ExportsAllShown ==
  art.written /\ (\A l \in Lists : list[l] = <<>> \/ count[l] = Len(list[l])) =>
    /\ Exported = UNION {ActivatedOf(l) : l \in Lists}
    /\ Len(art.codes) = Cardinality(Exported)

\* codes.c:1598 says of ParseActivatedGameList that it parses the selected codes:
\* what is activated is exported.
ExportsSelected == art.written => \A l \in Lists : ActivatedOf(l) \subseteq Exported
=============================================================================
