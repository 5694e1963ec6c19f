# Artemis PS3 in TLA+

Artemis PS3 applies cheat codes to games running on a PlayStation 3. The
repository holds two programs that meet in one file:

* **ArtemisPS3-GUI**, a homebrew application. It reads code lists (`.ncl` files
  of the user, and a database downloaded from the network), lets the player
  choose codes, and on "Start" writes the chosen ones to
  `/dev_hdd0/tmp/art.txt` and loads the plugin into the console's shell.
* **ArtemisPS3-PRX**, the plugin. Its thread waits for a game, attaches to it
  when the player holds START, loads `art.txt` and writes the codes into the
  game's memory; the constant ones again and again until SELECT, the end of the
  game or a shutdown.

This directory models them, checks the models with TLC and proves theorems about
them with TLAPS. `PROJECT.json` maps every definition to the lines it models.

## Inventory

| Component | Source | State | Operations | Hard behaviour |
|---|---|---|---|---|
| Plugin thread | PRX `main.c` 958-1235 | `attachedPID`, `userCodes`, `doForceWrite`, `exitThread`, turnoff counter, chosen syscall | poll, check turnoff, announce, attach, load, pass, detach, stop | games start and end between polls, `art.txt` is rewritten, the pad moves, `art_stop` runs in another thread |
| Plugin heap | PRX `mem.c` | `heap_mem`, `prx_heap` | create, destroy, reset, alloc | allocation failure is ignored; pointers into a freed block survive |
| Code engine | PRX `main.c` 136-895 | position, `lineNum`, `lineBuf`, `skip`, `ptrAddr`, `typeA_*`, `isConstantWrite` | one per code type | state shared by all codes of a list; the game runs meanwhile |
| Memory syscalls | PRX `ps3mapi_ps3_lib.c` | none | get and set process memory | three APIs, each may be missing or fail |
| Code lists | GUI `codes.c` | game and code arrays, options | read, sort, filter, unload, export | malformed input, counts that disagree with arrays |
| Menus | GUI `main.c`, `menu_*.c` | `menu_id`, `menu_sel`, `menu_old_sel`, selected game and code | move, enter, leave, activate, reload, filter | indices into lists that are replaced or empty |
| Online database | GUI `http.c`, `unzip.c`, `main.c` | local `games.txt` and zip with their age | download, unpack, install | interrupted or failed steps, a file younger than a day |
| Dialogs, loading screen | GUI `dialog.c`, `draw.c` | `msg_dialog_action`, `please_wait` | show, wait, callback, start and stop the thread | two threads, a callback |
| Options | GUI `menu_options.c`, `main.c` | selections, what is in force, the options file, the plugin linked and the one loaded | callbacks, menu, save, load, link, start, `readPad` | the console goes down between two steps, a disk that is full, repeats of a held button |
| Text rendering | GUI `ttf_render.c`, `ttf_fonts.c`, `libfont.c` | glyph cache, fonts | cut, look up, give up a slot, render, draw, flip | names cut within a character, the cache at its limit, fonts that are missing |
| UTF-8, file names | GUI `utf8_utils.c`, `codes.c` | none | decode, measure, take a name apart | boundaries, ill-formed strings |

Interaction: GUI and plugin share `art.txt` (written by `writeFile`, read by
`art_process`) and the `turnoff` flag (removed by `sys_shutdown` and `sys_reboot`);
the plugin and the game share the game's memory; the shell calls `art_stop`; the
GUI's callbacks run from `drawScene`.

What makes each part correct:

* Plugin thread: one press of START applies one fresh list to one process, and the
  very same list goes on being written to the very same process until the session
  ends; it ends on SELECT, exit, turnoff and stop; nothing is left behind.
* Heap: what the kernel counts and what the plugin believes agree; no write outside
  the block.
* Engine: a pass does to the game's memory what the list means, no more.
* Code lists, menus: an index in use always names an element; what is activated is
  what is exported, and the text exported is the text its author meant.
* Options: what is shown is in force, and survives the program as far as the file does.
* Online database: what is installed is whole; a failed update leaves a usable state.
* Text: every string is drawn, as far as it fits, from the pictures of its own characters.

## Modules

`PrxHeap` <- `ArtPlugin` <- `ArtPluginProps` <- `MCArtPlugin`, `ArtPluginProofs`;
`ArtSession` is the abstract specification `ArtPluginProps` instantiates.
`CodeEngine` <- `CodeEngineProps` <- `MCCodeEngine`, `CodeEngineProofs`; `MCCodeEngine`
instantiates `CodeMeaning`, the meaning of a list stated without the engine.
`GameList` <- `ArtMenus` <- `ArtMenusProps` <- `MCArtMenus`, `ArtMenusProofs`.
`ArtOnline` <- `ArtOnlineProps` <- `MCArtOnline`, `ArtOnlineProofs`.
`ArtOptions` <- `ArtOptionsProps` <- `MCArtOptions`, `ArtOptionsProofs`.
`NclText`, `GameName` <- `NclPath` <- `NclPathProps` <- `MCNclPath`, `NclPathProofs`.
`Utf8` <- `TextDraw` <- `TextDrawProps` <- `MCTextDraw`, `TextDrawProofs`.
`NatLemmas` has what the proofs need about numbers: least and greatest members, induction, and
that a recursive function, over them upwards or downwards or over what they measure, is there at
all; and about texts that are put together or cut.

### PrxHeap (mem.c)

Pure operators on a heap value: `heap_mem` and `prx_heap` are the two globals,
`mapped` the kernel's own count of the plugin's blocks. `create_heap` is
set-valued: any free address, and, when `AllocMayFail`, the old `heap_mem` taken
for a block.

### ArtPlugin (art_thread, art_process, art_stop)

`pc` says where `art_thread` is; an action is one stretch of the code between two
points at which the console can change what is read next (`poll` reads the running
process, `turnoff` the flag, `pad` the pad, `size` and `read` the two opens of
`art.txt`). `EndIteration` is the bottom of the loop. `StartPressed` contains
everything from the button to the first open of the file, `check_syscall_api`
included. The text at `userCodes` is abstracted to which list it is and how many
bytes of it were read. Delays and notifications are left out. The console is four actions: processes come and go, the pad
moves, the GUI rewrites the file (it is emptied first), the flag comes and goes.
`seen` and `wrote` are history.

`ArtSession` is what the player is promised. The refinement maps `session` to the
attached process and the loaded text from the end of the forced pass on.

### CodeEngine (ConvertCodes, ParseLine)

A list is a sequence of lines; a line keeps its first character and the three numbers
of a code. `pos`, `lineNum` and `fresh` are the loop's `x`, `lineNum` and
`lineCharInd = 0`. ParseLine returns the index of the newline and the loop steps over
it without counting it, so `fresh` stays false after a parsed line and the lines
behind it are taken for codes by an old `lineBuf`: `Parseable` says that. Left out, and in no list
of the runs: lines that pass for a code of a type the switch has no case for, "#" within a line, a
line of one or two characters that begins as a code does, and a code of two lines whose second one
is no code (the source takes its numbers from the text behind it, main.c:544-576; here they are 0).
Each code type is an action: it takes its address (`addr`: the pointer if there is
one), changes memory, and through `Execute` says how many lines to skip and which
pointer it leaves. Combining and copying codes read and write in two steps; the
game may run between. Memory is made of words: a code of four bytes is one word,
and a word-sized match stands for find-and-replace over bytes.

`CodeMeaning` compiles structured programs (a condition holds the statements it
guards, a pointer the statement it serves) to lines and gives their meaning by
recursion over the structure; `MatchesMeaning` compares it with the engine.

### GameList, ArtMenus (codes.c, main.c of the GUI)

`GameList` holds the operations on an array of games (sorting, the in-place filter)
and the cursor arithmetic of the list menus. `ArtMenus` is `drawScene`: an action is one
frame in which a button is pressed, from the handler through `SetMenu`, the reading of a
list and the callback it runs to the drawing that ends the frame. The lists are arrays with
a separate `count`, as in the code, because the two disagree: `ReadUserList` counts every
directory entry and fills in only the lists, and the filter lowers the count. A frame that
reads an entry nobody filled in, frees one, or exports more than the buffer holds has no
defined outcome; `ub` records where, and nothing is modelled after it. A folder is its games
and the number of its other entries; one with other entries and no game is not modelled.
Sorting is any arrangement in order: `qsort` need not keep equal games in theirs.
Drawing is there as far as it reads the lists: which entries, lines and choices a frame draws
around the cursor (`DrawnEntries`, `DrawnLines`), in the menu itself and in the one that stays
behind a view or an option sliding in. The online list slides in with the cursor of the user's
list (`doAni`). A code of one line without an end of line draws no line in the view.
`selected_entry` is a copy that shares its code table with the list, so the table is looked
up and only `code_count` is remembered. `world` (one of `Worlds`) says what reading the
folder, the server, a code file and the installed games may yield; every read chooses anew.
An option's values are its number of choices; a code's text is its number of lines.
Left out: the cursor of the main and about menus (the options menu is in `ArtOptions`), and
what `parseVTID` does to a title (in `GameName`).

### ArtOnline (http.c, unzip.c, dialog.c, the loading screen of draw.c)

The cache on the disk, the folder of local lists and the options file outlive the program;
`Stop` (the console is turned off, or the program left through the console's menu) may come
between any two steps and resets everything else. `stage` is where `main` is: in one of its
three steps at the start (a zip left over is unpacked, then the saved options' callbacks run in
their order) or in its loop; `pc` is where the running operation is. A download or an
extraction is several actions, because what is on the disk in between is what the next start
finds: a file is emptied, then in part, then whole there, and `old` when it is older than a day.
`Downloaded` holds what the three callers of `http_download` do with its result. Errors are
actions too: an entry of the zip is passed over (`SkipEntry`), or ends the extraction
(`FileNotOpened`, `EntryNotRead`). So is what is no error to the program: a full disk, which
tears a list while the extraction goes on and returns 1 (`EndEntryOnFullDisk`; `fwrite` is not
looked at, unzip.c:83), or leaves a download short, as an empty answer does (`DownloadFallsShort`).
The main thread is alone but for `loading_screen_thread` and the console's dialog callback.
`Names` are the lists in the zip, `Served` those the online list names. `cut` and `broken` are
history: the files of which less is there than the program takes for granted, and the entries that
were not written to their end when an extraction last came to them. `SaveOptions` and `LoadOptions` are atomic.
Left out: the check for a new version of the program (in `ArtOptions`), and what is shown.

### ArtOptions (the options of main.c, menu_options.c, readPad)

`main` loads the options file and runs every option's callback in the table's order (`stage`
"boot"); afterwards the options menu runs the callback of the option that is changed. The
callbacks are actions: switches, margins, the plugin's, whose `unlink` and `link` are two steps
(`pc` "link" in between), the version check with its dialog, and the calls (update, clear
cache), which are set while they run. CIRCLE empties the file and then writes it: `Write`
leaves what a full disk or the end of the console leaves, every prefix of the lines, a name
without a number, or a number that lost digits. `LoadOptions` reads that as `fscanf` does.
`sprx` is the plugin linked where "Start" loads it from, `vsh` the one the console's shell runs,
which outlives the GUI and goes only when it is unloaded or the console is turned off; "Start"
loads none while one runs, whichever it is (`isArtemisLoaded`).
`readPad` keeps one state for each half of the pad, the directions and the other buttons. It is
modelled at the screen that says the fonts are missing, the only one that waits for the pad and
does nothing else; everywhere else an action is a button it let through. Only an error of
FreeType itself leads to that screen: the errors of `FT_New_Face` are positive, and
`TTFLoadFont` looks for negative ones.
`saved`, `due` and `hold` are history: the selections written last, the calls somebody asked
for, the frames a button has been held.

### NclText, GameName, NclPath (codes.c)

The text of a list, character by character, over an alphabet of the characters the code tells
apart. `ListFile` is what `ReadUserList` makes of a file name (`parseVTID`); `Open` is
`readFileBuffered` with the byte behind the buffer it looks at (`Behind`); the actions of
`ReadNCL` are its branches on one character (`EndCode`, `OpenCode`, `NextLine`, `ReadName`,
`ReadMark`, `PassOver`, `ReadCodes`); `Export` is `AppendCode` on one code: the chosen options
filled in (`ParseOptionsCode`, in a buffer that is read while it is written), comments stripped,
lines kept that are valid. `ChooseOptions` is the player turning a code on: the options are read
of its text as `ReadOptions` does, which counts end tags, takes as many tags from the first on, and
starts the text of one where the length of its ID puts it (`ReadOption`), and each is set to one of
its elements (`sel`). Names and values written behind their memory end the model (`Overruns`,
`pc` "lost"). `Said` in the properties is what a reader of the manual takes the same text for. A file is given by what its author meant (`blocks`), from which its
text is made in either form; the properties compare what the reader finds, and what the export
writes, with that.

### Utf8, TextDraw (utf8_utils.c, ttf_render.c, ttf_fonts.c, libfont.c)

`Utf8` has the decoders: `utf8_decode`, which steps over whatever follows a leading byte, the
one in `display_ttf_string`, which looks at every byte, and `WidthFromUTF8`. A byte is one of
nine kinds. In `TextDraw` a string is asked for, cut to the room there is (by bytes in the
header, by characters in the list, one round an action) and drawn one character an action, from
the cache or, in the list, without it. `sent` are the characters asked for, `drawn` those of them
the RSX has a picture of: some font has them, and `DrawUTF8String` hands ASCII to `DrawChar`,
which draws nothing without a bitmap font. The pictures of a frame are read when it is flipped;
`frame` is history and says what each character was drawn from in the cache, `freed` which were
drawn from memory that is gone by then. Three placeholders of `Utf8`: "a" is every ASCII character
but the blank, a lead alone counts as ASCII in `display_ttf_string` (its code is below 32), and
what is broken off further on is a character of its own (a few such codes are ASCII, too). Only
ill-formed strings have either.

## Runs

| Run | Question | Result | States, time |
|---|---|---|---|
| plugin | 2 processes, a heap of 2 addresses that may run out, 1 list rewritten at will: heap ledger, load safety, stop, freshness, whole lists, refinement of ArtSession; under fairness, stop returns, turnoff detaches, START activates | holds | 328 560, 2 min |
| engine | every list of the grammar in MCCodeEngine over a quiet game, once or one after another, and 4 lists over a game that writes: the result is the meaning, conditions guard their lines exactly, pointers stay in their code | holds | 361 514, 15 s |
| engine_float | a float is written whole and alone (main.c:638) | violated | |
| menus | three worlds (options; two lists and failing downloads; three games and the filter): navigation, open game, options, what is on the screen, counts, export | holds | 684 431, 1 min |
| menus_export | what is selected is exported (codes.c:1598) | violated | |
| online | the cache, the update and the loading screen, ended at any step: left-over zips and torn lists, failed downloads, a full disk, one drawing thread, the end of loading | holds | 1 236 680, 50 s |
| online_null | a failed ReadOnlineList returns null (codes.c:1091) | violated | |
| options | three tables of options, changed, saved, loaded, with the console turned off or the disk full at any step; the pad held, let go and unplugged at will | holds | 4 004 516, 1.5 min |
| ncl | every file of up to three codes in both forms and every name of up to three words: read, split and exported as meant | holds | 44 799, 7 s |
| ncl_ids | any ID is one (INSTALLATION.md:51): the values of a tag are the ones written behind it | violated | |
| ncl_tags | a tag may stand anywhere in the code (INSTALLATION.md:57) | violated | |
| text | whole and broken strings, cut and drawn through a cache of two slots set up as its header asks: what is asked for, which pictures are drawn, and from which slots | holds | 36 809, 20 s |

Bounds of the plugin. `CheckTurnoffDelayMax = 1` (10 in the code) keeps both sides of the
counter: one call that does not look and one that does. Two processes are what it takes for a
stale attachment; two addresses for a block that moves; `HeapSize = 4` is the smallest
block that holds a list of two bytes and its two bytes of end but not two of them,
so that a bump pointer that is not rewound overflows.

The engine has three words of four bits: enough for a pointer, its target and a neighbour, for
wrap-around, and with words well above the offsets (as in a real game, where nothing is mapped
below 64 KB). The grammar nests conditions twice and chains pointers twice; passing over all
programs of two codes covers the state that survives a code. Over a quiet game START is pressed
once (twice for every 37th list) and repeated passes are not bounded; the four lists over a game
that writes are loaded twice. `loads` is the only counter bound.

The menus have three worlds because one with everything in it would multiply what does not
interact: options need one game with two codes out of order and options of two sizes (the
cursor of the wide one is out of range for the narrow one); leaving and entering lists needs
two lists and a download that fails; the filter needs three games, so that its loop
exchanges, skips and stops early. `StackInts` is {0, 1}: an unset count that happens to be
right and one that is not. `RetCap = 1`: the second exported code overflows. `LeastCount`
stops a list that shows nothing from being filtered again and again, each time one lower.

The online database needs two lists in the zip, so that an extraction can end between them, and
one of them in the online list; nothing in it counts, and the state space is finite without a
bound.

The options run over parts of the table in its order, each with the plugin last, so that there
are options before it in the file. `MaxMargin = 2` and `Base = 2` (100 and 10) leave numbers
that can be exceeded on both sides and cut to a shorter one. The pad has waits of 3, 2 and 1
frames and gets faster after 3 and 7 (20, 5, 2 and 60, 180): the same arithmetic in a state
space of a few hundred counters; `MaxHold` is twice the frames until the fastest wait. Two
plugins, of which one may be missing, are what a stale link takes.

The lists of `ncl` meet every branch of the reader and of the export: bodies with and without
tags of one to four letters, with and without their end, one after the other and within each other,
values as long as the tag, longer and shorter, elements without a value or with two, comments that span
lines, that do not close, or close before they open, lines of every kind, and three line ends. The strings of `text` are all of one or two
characters of every length, seven that are ill formed, and `Room = 2`, so that a wide character
just fits and two do not. Two slots and four characters make every frame run into the limit of
the cache; two flips, the bound `frames`, put a picture's age on both sides of another's.

`CHECK_DEADLOCK FALSE` where the program or the model ends: the player leaves the menus, nothing
follows what is undefined, and a file once exported is done with.

Fairness. `plugin`: weak fairness of the plugin thread (it sleeps and yields, nothing
disables it for ever) and of the caller of `art_stop`. The player and the games are free; each
liveness property states the condition on them it needs ("START is let go of for good", "the
process is gone for good"). `online`: weak fairness of reading the list, of the two halves of
`stop_loading_screen` and of the loading screen's thread, all of them code that waits for
nobody. The network is not fair (no time limit is set on a transfer, only on the connection),
nor is the player; that the thread's creation succeeds is assumed. `text`: weak fairness of the
loops that cut and draw, which are plain code of one thread. No other run assumes any.

## What is proved

`ArtPluginProofs` proves, for any processes, lists, block addresses and sizes that
satisfy the three named assumptions (`HeapAssumption`, `PluginAssumption`, and
`ListsFitAssumption`: a list fits one block, as the GUI's 5000-byte buffers ensure):

* `TypeCorrect`, `HeapLedgerExact`, `ListStaysMapped`, `NeverCrashes`,
  `StopLeavesNothing`: the invariants of run `plugin`;
* `ActivationsFresh`, `ListsAppliedWhole`: the action properties;
* `PluginImplementsSession`: the refinement of `ArtSession`.

None of the invariants is inductive alone: that the list lies in the block while it
is being applied depends on what SELECT, exit and turnoff left in `prx_heap` and
`userCodes` long before. `IInv` adds `HeapInv` (bump pointer and `heap_mem` agree),
`LoadInv` (what is true where a list is loaded: the pointer is at the block's start,
an attachment has a list), `ControlInv` (which locations belong to an attachment and
to a forced pass), `FreshInv` (the list read is one that was seen) and `StopInv`
(the `exitThread` handshake). There is one lemma per action or group of actions.

`CodeEngineProofs` proves, for any lists, games, addresses and width of a word
(`EngineAssumption`; `ListsAssumption`: a list that is not empty ends in a line "#", as those
`writeFile` makes do):

* `EngineAlways`: the inductive invariant `EngineInv`, and from it `TypeCorrect` and
  `GuardsAlwaysExact`, for any nesting of conditions and any lines between codes;
* `PointerAlwaysScoped`, where no code of the lists ends in a pointer (`PointersUsed`, which
  TLC checks of the run's lists). Without it the property is false: the pointer of a code that
  ends in one serves the next code, which is why the hypothesis is there.

`GuardsExact` speaks of the lines executed so far, and the next one depends on `skip`. `GuardInv`
says what `skip` is: what the guard that reaches furthest has left, counted in the lines parsed
since. `PlaceInv` ties `lineNum` and `isConstantWrite` to the start of the code the loop is in.
`PointerInv` says that a pointer waits only where nothing is skipped, the code is to be written
and another of its lines is to come.

`ArtMenusProofs` proves, for any lists, games, worlds and bounds that satisfy the assumptions of
`ArtMenus` (`ListsAssumption`, `TitleAssumption`, `WorldsAssumption`: what reading yields has the
shape `Folder` and `FileCode` say; `BoundsAssumption`):

* `BackAlwaysGoesToOwner`: back leads to the list the open game was chosen in;
* `OptionAlwaysSameCode`: the option menu writes to the code it shows;
* `MenusAlways`: the inductive invariant `MenusInv`, and from it `TypeCorrect`,
  `SelectedAlwaysLive` (the open game's code table is never freed under it),
  `OptionAlwaysOnSelected` and the action property `OneCodeAlwaysAtATime`;
* `UndefinedAlwaysOnlyOnEmpty`, where every reading of a list finds as many games or none
  (`FixedFolders`, which TLC checks of the run's worlds).

The navigation half is `NavInv`: choosing a game in menu m records m in `last_menu_id[5]` only if
`last_menu_id[m]` is not 5, so one needs to know that the entries of the outer menus stay 0,
which rests in turn on every way into them: from the main menu, or back from menu 5 to
`last_menu_id[5]` itself. In menu 7 the saved cursor of menu 5 is `selected_centry`. `DataInv` is
the other half: a list that is NULL has no code tables, and the cursor of an inner menu is on a
line or choice the open game has. They need each other: a list is unloaded only from menus that
`NavInv` keeps apart from the open game. For the last theorem `Fits(N)` adds the number of games
N each folder has: arrays, counts and saved cursors are below it, or the list shows nothing.
There is one lemma per way of changing menu. Two more results are about the arrays themselves:

* `Filtered`, for any array: the in-place filter leaves games only and lowers the count;
* `AlwaysExportsAllShown`: with both lists shown in full the export has every code that is on,
  once, where no file gives two codes the same name (TLC checks this hypothesis of the run's worlds
  as `MCNamesOnce`; it is needed because the selected codes are told apart by their names).

For the second `OnceInv` adds that a list has each game once and a table each code once, whatever
was sorted and filtered before. The export is a fold over the lists: `Pieces` says what it is
made of piece by piece, and pieces of different games have no code in common.

`ArtOptionsProofs` proves, for any tables of options with one "plugin" in each
(`TablesAssumption`), in the order the code's table has (`OrderAssumption`: the line before a
switch, or before "clearcache", is a switch or call, so that a cut line gives it one of its values),
any plugins and any folder:

* `ShownAlwaysLinked`: the plugin that is shown is the one "Start" loads, and what is loaded is
  a plugin that is there (`ShownIsLinked`, the second half of `ShownIsInForce`);
* `OptionsAlways`: the inductive invariant `OptionsInv`, and from it `TypeCorrect`,
  `ShownIsInForceAlways` and `OptionsKeptAlways`;
* `AlwaysRepeatsInTime`: a held button acts at the frames its waits make due and at no others.

`ShownIsLinked` says nothing while callbacks run. `LinkInv` adds what they keep: between
`unlink` and `link` nothing is linked; the link follows the selection from the end of the
plugin's callback on, in the callbacks behind it at the start and in every other option's in the
menu; and it is old only from a press in the menu, or from the start, to that callback.
`ValueInv` says the same of every other option's value, `FileInv` what of the last selections a
file holds that was cut anywhere, and `DueInv` that a call that is set was asked for. For the last
theorem `IsActs` lists the acts of a held button, and `PadInv` says of each half of the pad which of
them was the last: the frames since then and the time left make up its wait (`InWait`).

`ArtOnlineProofs` proves, for any lists in the zip and any the server names
(`NamesAssumption`, `ServedAssumption`):

* `TypeCorrect`, `OneDrawerAlways`, `NullReadCauseAlways` and `UpdateFinishedAlways`: the
  invariants of run `online`.

`Typed` says in which stage of `main` each operation runs; `ZipInv`, that a zip is on the disk
only while it is downloaded or unpacked, or between the end of a run and the first step of the
next, and that a torn list no error and no full disk explains is one the extraction is still to come to,
for which the zip is whole; `ScreenInv`, where the loading screen's thread runs; `NullInv`, that an empty
file is one being downloaded or one whose download fell short.

`TextDrawProofs` proves, for any texts, any fonts present or missing and any number of slots
(`ScreensAssumption`, `NumbersAssumption`, `CallsAssumption`):

* `TypeCorrect`: buffers keep their end, and no two slots of the cache have one character;
* `KeptInFrameAlways`: no picture of a frame is overwritten before the flip, for a program that
  calls `reset_ttf_frame` if it calls `init_ttf_table` (the GUI calls neither);
* `InBufferAlways`: a well-formed string of any length is never read behind its buffer;
* `CutAsFitsAlways`: what is asked to be drawn of a well-formed string is whole characters of it, in
  order, as many as fit, and in the list one at least; and the RSX gets a picture of exactly those
  that have one. That the pictures of the list are still there at the flip is false.

`FrameInv` is what makes the second inductive: as long as a frame asked for no more characters
than there are slots, every picture in it is in a slot that is in use, and every slot in use holds
a character that was asked for. `VictimFree` says that the loop over the slots finds one that is
not in use if there is one (by induction over its rounds); if there is none, the characters of
the slots and the new one are more than there are slots, by the pigeonhole principle. For the
third, `ReadInv` says that a cut only overwrites bytes with NULs, and that the place of
`utf8_decode` in a well-formed text is the first byte of a character, or behind the last: so the
bytes it steps over, NUL or not, end where a character of the text ends. `utf8_is_valid` and
`Decoded` are recursive functions over the rest of a string; `ValidIs` and `DecodedFrom` prove
that they are what their definitions say, by induction from the end of the string. For the
fourth, `FitInv` says what the cuts have done so far: behind the first NUL no character begins that
is not cut off (`CutClean`), what was cut had no room (`CutFits`), and what has been sent are the
characters before it (`DrawnFits`). `PicturesInv` says which of those
the RSX has a picture of, and `MadeInv` that a slot with a picture holds a character some font has, so
that what comes from the cache and what is made anew agree. `Spelled` lists the characters that begin in the first bytes of
a text, and `MeasuredIs` says that `WidthFromUTF8` measures those before the NUL, although it may
step over it.

`NclPathProofs` proves, for any files in the forms of `docs/codes`, of any number of codes and lines
of any lengths, any line ends and any byte behind the buffer (`FilesAssumption`, `TextsAssumption`),
under names of any words (`NamesAssumption`):

* `TypeCorrect`: ReadNCL stays within the file and the table (`TypeInv`);
* `AlwaysReadAsWritten`: each code is read as it was written, at its place;
* `AlwaysSplitAsNamed`: the words of a file name are dealt out to name, version and title id, and
  none is lost;
* `AlwaysExportedAsMeant`: a code that is plain (no tag, no end tag, or one tag that is read right,
  with a value as long as its ID; comments in order) reaches `art.txt` as the file means it, with the
  value the tag gives to the chosen element. A tag is read right if its ID is two letters, or if
  another element than the first is chosen and starts behind what is passed over; the others are
  finding 5.

The second needs to know where everything is. `FileIsRead` says that the text read is the lines of
the file, each with one "\n"; `LinePlaced`, `RowPlaced` and `BodyPlaced` say where each line, each
part of a code and each body lies in it; `BreaksAre`, that the marks that end the codes are
among those the table is made for. `Stage` is the place of the reader, `StageStep` takes it from one to
the next, and `ReadInv` says what the table holds at each. For the third, `WordsAt` says where the
words of a text are. Whatever is found lies within one word (`WithinWord`), so that the first word
with a version or a title id in it is what is found (`FindsVersion`, `FindsTitle`); to cut it out
leaves the others (`CutKeepsWords`); and they are what is read of the rest (`WordsKept`).

The fourth states what the functions of the code that work on its text one after the other come
to, with other functions, each defined for a reader and not by the loop. Both are recursive functions on
texts, and an induction over data is carried out as one over numbers: `MeasureRecursion` and
`TailRecursion` (in `NatLemmas`) say that a function that leaves less of its text each time is what
its definition says, and the lemmas follow it by the length of what is left. `FillRight` says that
`Filled` puts the value into the places of the tag and nowhere else, and `LoopRight` the same of the loop
of `replace_str_id`, whose state is described by `SoFar`: done before the place it is at, untouched
from there on, and never within a place of the tag. A text is fixed by that (`RightOne`), so
they are equal (`FilledIs`). `StripsAll` says that rounds that take out the first comment end in
what `Uncommented` keeps in one pass, if the comments are in order; `ShrunkClosed`, with `SameValid`, that
the lines `ShrinkLines` keeps are those the plugin takes, and `AppendedIs` puts the parts together.
`ExportInv` says that the codes in `art` are those of the table, in order, with the options their
texts give (`Chosen`); `TagRead` that what is read of a tag that fits is what it says, wherever its
text begins, and `NullIs` that no such value is missing.

Only model-checked:

* the liveness properties (`StopReturns` and the others of `plugin`, `LoadingEnds`,
  `EveryTextDrawn`): liveness under fairness and ENABLED are out of the prover's reach;
* `MatchesMeaning`: the meaning of a program is a recursion over its structure, stated with
  operators that are RECURSIVE and with the bits of a word, both out of the prover's reach.

## Findings

1. A float code writes as many bytes as its text has characters (`engine_float`).
2. Codes switched on in a game the filter hides are not exported, and the filter hides
   installed games too: it returns the index its loop stopped at (`menus_export`).
3. A games list older than a day is emptied before its new download begins and removed when
   that fails; the result is ignored, and the list is read through a null pointer
   (`online_null`).
4. A tag longer than the value chosen for it stays in the code that is exported: whether a
   match is the tag is decided by the character at the length of the value (`ncl_tags`).
5. The values of a tag are read from a place that is right for IDs of two letters only: the first
   value of a tag [Z] begins with its bracket, and those of longer IDs lose characters (`ncl_ids`).

Seen while reading or modelling, and in no run of its own:

* `art.txt` is opened twice, for its size and for its bytes (PRX main.c:979-990); a rewrite in
  between makes the plugin apply the head of the new list, where main.c:954 says "an entire
  codelist" (`WholeUnlessRewritten` excepts it).
* The GUI never calls `init_ttf_table` or `reset_ttf_frame`: the slots of the glyph cache have no
  textures, and the first character is rendered at address 0 (ttf_render.c:238-275; `pc` "no
  texture"). The run `text` says what the library does for a caller that makes both calls.
* Names in the list have no ASCII characters on the screen: the GUI adds no bitmap font after
  `ResetFont` (main.c:837), without which `DrawChar` draws nothing (libfont.c:507), and the advance
  is divided by that font's width of 0 (libfont.c:707). Their wide characters are drawn from memory
  that is freed before the flip (libfont.c:795; `freed`).
* A find-and-replace with a limit and falling addresses replaces nothing: the swap leaves
  an address in the counter (PRX main.c:723).
* A pointer that cannot be read leaves the offset in its buffer, and the next line goes to twice
  the offset (PRX main.c:671).
* The count of the user's list is the number of directory entries, so entries nobody
  filled in are sorted, drawn and freed (codes.c:1037).
* A game first seen by the poll that finds the turnoff flag missing is never announced (PRX
  main.c:1175 is reached without showing the message).
* `clearcache_callback` leaves its option set when the folder cannot be opened, so that a saved
  option clears the cache at the next start.
* A plugin that runs is kept when another is chosen and "Start" pressed: `isArtemisLoaded`
  (main.c:460-479) does not ask which it is.
* A code of the newer form behind one of the older has its name and mark exchanged
  (`ReadAsWritten` excepts it).
* A comment that closes before it opens keeps the export busy until memory is full
  (`NeverStripped`).
* A comment that is not closed takes the rest of the text with it, the end of its own line too, and
  what is left of that line is exported unexamined, as is any last line that is not ended
  (`WellWritten` excepts it). The plugin looks at its lines again.
* A value shorter than its tag is never filled in: the letter behind the value's length is one of
  the tag (`Plain` excepts it; the run of finding 4 is such a code).

`UndefinedOnlyOnEmpty` tells what else the model says of undefined accesses: where the number of
lists is fixed they start from a list that shows nothing (whose cursor UP leaves at -1) or
whose count was never set, or from a game without codes.

## Not modelled, and what is left

* Geometry, colours, windows, backgrounds and sound: output only. Of `libfont.c` the bitmap
  fonts, of `draw.c` the animations' pictures, of `menu_about.c` everything, since it has no
  state.
* `printf.c`, `libc.c` and `misc.c` of the plugin: string and printf routines without state and
  bindings to the console's exports. The headers `sdk.h`, `paf.h` and `stdc.h` declare those.
* The conversion to and from UTF-16 in `utf8_utils.c` has no caller; `utf8_fs.c` hands names to
  the file system as they are; `test_chinese.c` is a test by hand.
* The console's services, the network below `http_download`, and the code database (data).
* Whether the calls `check_syscall_api` falls back to when DEX and CCAPI do not answer, ps3mapi and
  MAMBA, are there: the model takes them to be, so it says nothing of which call is safe to use.
* Texts longer than a window, and where on the screen a character goes.
* Hexadecimal conversion and byte widths in the engine: a word stands for the four bytes a code
  writes. The text of `art.txt` as the plugin reads it is abstracted in `ArtPlugin` to which list
  it is and how much of it was read; `CodeEngine` runs lines, `NclPath` writes text.
* Three hazards of the plugin are visible in the source and in no model: `A1` copies the address
  of the list's text, which a later START replaces (main.c:689); a copy whose source cannot be
  read writes what the stack holds (main.c:780); a line of more than 99 characters runs over
  `lineBuf` (main.c:841). And `init_loading_screen` does not look at the result of `sysThreadCreate`
  (draw.c:301), without which the end of loading is waited for in vain; `LoadingEnds` assumes it.

What would come next is a composition of the writer of `art.txt` with the plugin that keeps its
text.
