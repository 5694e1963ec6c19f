----------------------------- MODULE ArtOptions -----------------------------
(***************************************************************************)
(* The GUI's options (ArtemisPS3-GUI/src/main.c): the table of options and *)
(* their callbacks, the options menu, the file that keeps the selections,  *)
(* the plugin that is linked to the place Start loads it from; and the     *)
(* pad, at the one screen that waits for it without a menu.  The console   *)
(* may be turned off between any two steps.                                *)
(*                                                                         *)
(* In the menus a button is one readPad lets through; what it lets through *)
(* is modelled at the screen that says the fonts are missing.              *)
(***************************************************************************)
EXTENDS Integers, SequencesExt

CONSTANTS
  Tables,      \* tables of options: the callback of each, in their order
  Plugins,     \* the plugins behind the first choice of "plugin", 1 to Plugins
  Installs,    \* the sets of plugins that may be in the folder
  MaxMargin,   \* 100 in the code
  Base,        \* 10 in the code, to say what is left of a number that is cut
  Waits,       \* <<20, 5, 2>> in the code: frames between repeats of a button
  Held         \* <<60, 180>> in the code: the frames waited after which it is faster

Switches == {"music", "sort", "ani", "vercheck"}
Margins == {"horm", "verm"}
Calls == {"update", "clearcache"}

ASSUME TablesAssumption ==
  /\ Tables \subseteq Seq(Switches \cup Margins \cup Calls \cup {"plugin"})
  /\ \A t \in Tables : \E i \in DOMAIN t : \A j \in DOMAIN t : t[j] = "plugin" <=> j = i
\* A switch, and "clearcache", comes first or behind a switch or a call.
ASSUME OrderAssumption ==
  \A t \in Tables : \A i \in DOMAIN t :
    i > 1 /\ t[i] \in Switches \cup {"clearcache"} => t[i - 1] \in Switches \cup Calls
ASSUME InstallsAssumption == Plugins \in Nat /\ Installs \subseteq SUBSET (1 .. Plugins)
ASSUME NumbersAssumption ==
  MaxMargin \in Nat /\ Base \in Nat \ {0, 1} /\ Waits \in [1 .. 3 -> Nat] /\ Held \in [1 .. 2 -> Nat]

VARIABLES
  callback,      \* the table: the callback of each option
  fonts,         \* whether InitPS3SystemFonts succeeds
  \* what outlives the program
  optfile,       \* the options file: its lines, <<option, value>>, the last perhaps cut
  present,       \* the plugins in the folder
  sprx,          \* the one linked to artemis_ps3.sprx, or 0
  vsh,           \* the one Start had the console load, or 0: it runs until that is turned off
  \* the program
  pc, stage,     \* where it is; "boot" while main() calls every callback
  at,            \* the option whose callback runs, or that is marked: menu_sel
  selections,    \* menu_options_selections
  inForce,       \* what the callbacks have made of them
  dpad, rest,    \* the two halves of readPad's state
  \* history
  saved,         \* the selections when they were saved last
  due,           \* the calls asked for and not yet carried out, or saved as such;
                 \* and one whose name was the last to be written in the file
  hold           \* the frames each half of the pad has been held without a change

fixed == <<callback, fonts, present>>
diskVars == <<fixed, optfile, sprx>>
menuVars == <<selections, inForce>>
padVars == <<dpad, rest, hold>>
vars == <<diskVars, pc, stage, at, menuVars, padVars, vsh, saved, due>>

Options == DOMAIN callback
PluginOption == CHOOSE i \in Options : callback[i] = "plugin"
Default == [i \in Options |-> IF i = PluginOption THEN 1 ELSE 0]

None == "none"
Released == [key |-> None, time |-> 0, held |-> 0, ret |-> FALSE]
Halves == {"dpad", "rest"}
NotHeld == [g \in Halves |-> 0]

Init ==
  /\ callback \in Tables /\ fonts \in BOOLEAN
  /\ optfile = <<>> /\ present \in Installs /\ sprx = 0
  /\ pc = "off" /\ stage = "boot" /\ at = 1
  /\ selections = Default /\ inForce = Default
  /\ dpad = Released /\ rest = Released
  /\ vsh = 0 /\ saved = Default /\ due = {} /\ hold = NotHeld

-----------------------------------------------------------------------------
(* The options file                                                        *)

\* What is left of the number v when its last digits are cut off.
Shorter(v) == {v \div Base, v \div (Base * Base)} \ {0, v}

\* What a write of the selections may leave in an empty file: all of it, or what had
\* got there when the disk was full or the console went down.  A line cut in its
\* name names no option, and is like none.
Writes(sel) ==
  LET lines(k) == [i \in 1 .. k |-> <<i, sel[i]>>]
  IN  {lines(k) : k \in 0 .. Len(sel)}
        \cup {Append(lines(i - 1), <<i>>) : i \in Options}
        \cup UNION {{Append(lines(i - 1), <<i, v>>) : v \in Shorter(sel[i])} : i \in Options}

\* The option whose name ends the file.
CutAt == IF optfile # <<>> /\ Len(Last(optfile)) = 1 THEN {Last(optfile)[1]} ELSE {}

\* The line that counts for an option is its last.  Behind a name without a number
\* fscanf leaves val as the last line that had one set it.
LoadOptions ==
  LET of(i) == {k \in DOMAIN optfile : optfile[k][1] = i}
      known(k) == {j \in 1 .. k : Len(optfile[j]) = 2}
      val(k) == IF known(k) = {} THEN 0 ELSE optfile[Max(known(k))][2]
  IN  [i \in Options |-> IF of(i) = {} THEN Default[i] ELSE val(Max(of(i)))]

-----------------------------------------------------------------------------
(* The pad                                                                 *)

\* The counters of held buttons only matter up to the second of Held.
Longer(n) == IF n > Held[2] THEN n ELSE n + 1
Wait(held) == IF held > Held[2] THEN Waits[3] ELSE IF held > Held[1] THEN Waits[2] ELSE Waits[1]

\* Mutated: a button let go leaves the time it was held.
readHalf_KeepsHeld(g, now) ==
  CASE now # g.key \/ now = None -> [g EXCEPT !.key = now, !.time = 0, !.ret = FALSE]
    [] now = g.key /\ now # None /\ g.time > 0 ->
         [g EXCEPT !.time = @ - 1, !.held = Longer(@), !.ret = FALSE]
    [] OTHER -> [g EXCEPT !.time = Wait(g.held), !.ret = TRUE]

\* One half of readPad: a button counts in the second frame that has it, and then
\* again and again, ever faster.
readHalf(g, now) ==
  CASE now # g.key \/ now = None -> [Released EXCEPT !.key = now]
    [] now = g.key /\ now # None /\ g.time > 0 ->
         [g EXCEPT !.time = @ - 1, !.held = Longer(@), !.ret = FALSE]
    [] OTHER -> [g EXCEPT !.time = Wait(g.held), !.ret = TRUE]

HeldOn(g, now, n) == IF now # None /\ now = g.key THEN n + 1 ELSE 0

\* readPad with the buttons d and r down.
readPad(d, r) ==
  /\ dpad' = readHalf(dpad, d) /\ rest' = readHalf(rest, r)
  /\ hold' = [dpad |-> HeldOn(dpad, d, hold.dpad), rest |-> HeldOn(rest, r, hold.rest)]

Unplugged ==
  /\ dpad' = [dpad EXCEPT !.ret = FALSE] /\ rest' = [rest EXCEPT !.ret = FALSE]
  /\ UNCHANGED hold

\* The frames a button is watched for: the bound of the model.
MaxHold == 2 * (Waits[1] + Held[2] + 2)

-----------------------------------------------------------------------------
(* Starting and ending                                                     *)

\* main() up to the loop over the callbacks; without the fonts it never gets there.
Boot ==
  /\ pc = "off"
  /\ IF fonts
     THEN pc' = "callback" /\ selections' = LoadOptions
     ELSE pc' = "no fonts" /\ UNCHANGED selections
  /\ stage' = "boot" /\ at' = 1
  /\ due' = due \cup CutAt
  /\ UNCHANGED <<diskVars, inForce, padVars, vsh, saved>>

Off ==
  /\ pc' = "off" /\ stage' = "boot" /\ at' = 1
  /\ selections' = Default /\ inForce' = Default
  /\ dpad' = Released /\ rest' = Released /\ hold' = NotHeld
  /\ UNCHANGED <<diskVars, saved, due>>

\* The player leaves, from the main menu or the XMB's, or the console is turned off.
Stop == pc # "off" /\ Off /\ vsh' \in {vsh, 0}

\* A frame of the screen without fonts: CIRCLE or START leave the program.
NoFonts ==
  /\ pc = "no fonts" /\ \A g \in Halves : hold[g] < MaxHold
  /\ \/ Unplugged
     \/ \E d \in {None, "UP", "RIGHT"}, r \in {None, "CROSS", "CIRCLE"} : readPad(d, r)
  /\ pc' = IF rest'.ret /\ rest'.key = "CIRCLE" THEN "left" ELSE pc
  /\ UNCHANGED <<diskVars, stage, at, menuVars, vsh, saved, due>>

\* The end of a callback: main() calls the next one, or the menu draws.
Return ==
  /\ pc' = CASE stage = "menu" -> "options"
             [] stage = "boot" /\ at < Len(callback) -> "callback"
             [] OTHER -> "main"
  /\ stage' = IF pc' = "main" THEN "menu" ELSE stage
  /\ at' = CASE stage = "menu" -> at
             [] stage = "boot" /\ at < Len(callback) -> at + 1
             [] OTHER -> 1

\* Start, at the top of the main menu, has the console load what is linked, unless
\* webMAN MOD does it, there is no COBRA, or one is loaded already, whichever it is
\* (isArtemisLoaded); and leaves.
Start ==
  /\ pc = "main"
  /\ \/ vsh' = IF selections[PluginOption] # 0 /\ vsh = 0 THEN sprx ELSE vsh
     \/ vsh' = vsh
  /\ Off

\* SQUARE in the main menu has it unloaded, when the player says YES.
Unload ==
  /\ pc = "main" /\ selections[PluginOption] # 0 /\ vsh # 0
  /\ vsh' = 0
  /\ UNCHANGED <<diskVars, pc, stage, at, menuVars, padVars, saved, due>>

-----------------------------------------------------------------------------
(* Callbacks                                                               *)

Calling(names) ==
  /\ pc = "callback" /\ callback[at] \in names
  /\ UNCHANGED <<fixed, optfile, padVars, vsh, saved>>

sel == selections[at]
Set(v) == selections' = [selections EXCEPT ![at] = v] /\ inForce' = [inForce EXCEPT ![at] = v]

\* music, which knows only two values, sort_callback and ani_callback.
switch_callback ==
  /\ Calling({"music", "sort", "ani"})
  /\ inForce' = [inForce EXCEPT ![at] =
       IF callback[at] # "music" THEN IF sel = 0 THEN 0 ELSE 1
       ELSE IF sel \in {0, 1} THEN sel ELSE @]
  /\ Return
  /\ UNCHANGED <<sprx, selections, due>>

\* Mutated: the callback limits the margin, and the menu keeps what it was.
margin_callback_KeepsSelection ==
  /\ Calling(Margins)
  /\ inForce' = [inForce EXCEPT ![at] = IF sel < 0 THEN 0 ELSE IF sel > MaxMargin THEN MaxMargin ELSE sel]
  /\ Return
  /\ UNCHANGED <<sprx, selections, due>>

\* horm_callback and verm_callback.
margin_callback ==
  /\ Calling(Margins)
  /\ Set(IF sel < 0 THEN 0 ELSE IF sel > MaxMargin THEN MaxMargin ELSE sel)
  /\ Return
  /\ UNCHANGED <<sprx, due>>

Chosen == IF sel < 0 THEN 0 ELSE IF sel > Plugins THEN Plugins ELSE sel

\* Mutated: the plugin linked before stays where it is.
plugin_callback_KeepsLink ==
  /\ Calling({"plugin"})
  /\ Set(Chosen)
  /\ IF Chosen = 0
     THEN Return /\ UNCHANGED sprx
     ELSE pc' = "link" /\ UNCHANGED <<sprx, stage, at>>
  /\ UNCHANGED due

\* The link to the old plugin goes first.
plugin_callback ==
  /\ Calling({"plugin"})
  /\ Set(Chosen)
  /\ IF Chosen = 0
     THEN Return /\ UNCHANGED sprx
     ELSE pc' = "link" /\ sprx' = 0 /\ UNCHANGED <<stage, at>>
  /\ UNCHANGED due

\* sysLv2FsLink makes no link where there is a file, or to none.
Link ==
  /\ pc = "link"
  /\ sprx' = IF sprx = 0 /\ sel \in present THEN sel ELSE sprx
  /\ Return
  /\ UNCHANGED <<fixed, optfile, menuVars, padVars, vsh, saved, due>>

\* vercheck_callback looks for a newer version whenever it is set to "on".
vercheck_callback ==
  /\ Calling({"vercheck"})
  /\ inForce' = [inForce EXCEPT ![at] = sel]
  /\ IF sel = 0 THEN pc' = "check" /\ UNCHANGED <<stage, at>> ELSE Return
  /\ UNCHANGED <<sprx, selections, due>>

InCheck == UNCHANGED <<diskVars, menuVars, padVars, vsh, saved, due>>

\* No answer, one without a name or an address, or the name of this version, and
\* nothing is said; otherwise the download is offered.
VersionRead ==
  /\ pc = "check" /\ InCheck
  /\ Return \/ (pc' = "offer" /\ UNCHANGED <<stage, at>>)

\* NO, or YES and a download whose end is told, as it may be.
OfferAnswered == pc = "offer" /\ InCheck /\ Return

\* update_callback, and clearcache_callback, which finds the folder or does not.
call_callback ==
  /\ Calling(Calls)
  /\ \/ sel = 0 /\ Return
     \/ sel # 0 /\ callback[at] = "clearcache" /\ Return
     \/ sel # 0 /\ pc' = "work" /\ UNCHANGED <<stage, at>>
  /\ UNCHANGED <<sprx, menuVars, due>>

\* A call carried out is still due if the options file says so.
Done == due' = IF saved[at] = 0 THEN due \ {at} ELSE due

\* Mutated: the call stays set.
Worked_KeepsSelection ==
  /\ pc = "work"
  /\ Done
  /\ Return
  /\ UNCHANGED <<diskVars, menuVars, padVars, vsh, saved>>

\* It is done, or has failed.
Worked ==
  /\ pc = "work"
  /\ selections' = [selections EXCEPT ![at] = 0] /\ Done
  /\ Return
  /\ UNCHANGED <<diskVars, inForce, padVars, vsh, saved>>

-----------------------------------------------------------------------------
(* The options menu                                                        *)

\* What the menu draws at option i for the value v: a switch, 0 for on, the name of
\* the v-th plugin, a number, or the button to press.
Drawn(i, v) ==
  CASE callback[i] \in Switches -> IF v = 0 THEN 0 ELSE 1
    [] callback[i] \in Calls -> 0
    [] OTHER -> v

\* Drawing, sliding in or not, finds the name of the plugin.
Draw_OptionsMenu == selections[PluginOption] \in 0 .. Plugins

OpenOptions ==
  /\ pc = "main" /\ pc' = "options"
  /\ UNCHANGED <<diskVars, stage, at, menuVars, padVars, vsh, saved, due>>

Pressed == pc = "options" /\ UNCHANGED <<fixed, sprx, stage, inForce, padVars, vsh>>

\* UP and DOWN.
MoveSelection ==
  /\ Pressed
  /\ at' \in {(at % Len(callback)) + 1, ((at - 2) % Len(callback)) + 1}
  /\ UNCHANGED <<optfile, pc, selections, saved, due>>

Toggled == IF sel = 0 THEN 1 ELSE 0

\* LEFT leaves a call as it is, and calls it all the same.
Left ==
  /\ Pressed /\ pc' = "callback"
  /\ selections' = [selections EXCEPT ![at] =
       CASE callback[at] \in Switches -> Toggled
         [] callback[at] = "plugin" -> IF sel > 0 THEN sel - 1 ELSE Plugins
         [] callback[at] \in Margins -> sel - 1
         [] OTHER -> sel]
  /\ UNCHANGED <<optfile, at, saved, due>>

CrossOrRight ==
  /\ Pressed /\ pc' = "callback"
  /\ selections' = [selections EXCEPT ![at] =
       CASE callback[at] \in Switches -> Toggled
         [] callback[at] = "plugin" -> IF sel < Plugins THEN sel + 1 ELSE 0
         [] callback[at] \in Margins -> sel + 1
         [] OTHER -> 1]
  /\ due' = IF callback[at] \in Calls THEN due \cup {at} ELSE due
  /\ UNCHANGED <<optfile, at, saved>>

\* CIRCLE: fopen empties the file, or fails.
Circle ==
  /\ Pressed
  /\ \/ pc' = "main" /\ UNCHANGED <<optfile, saved, due>>
     \/ /\ pc' = "save" /\ optfile' = <<>> /\ saved' = selections
        /\ due' = {i \in due : selections[i] # 0}
  /\ UNCHANGED <<at, selections>>

\* fclose writes; whether it could is not looked at.
Write ==
  /\ pc = "save" /\ pc' = "main"
  /\ optfile' \in Writes(selections)
  /\ UNCHANGED <<fixed, sprx, stage, at, menuVars, padVars, vsh, saved, due>>

Callback ==
  \/ switch_callback \/ margin_callback \/ plugin_callback \/ Link
  \/ vercheck_callback \/ VersionRead \/ OfferAnswered \/ call_callback \/ Worked
Menu ==
  OpenOptions \/ MoveSelection \/ Left \/ CrossOrRight \/ Circle \/ Write \/ Start \/ Unload
Next == Boot \/ Stop \/ NoFonts \/ Callback \/ Menu

Spec == Init /\ [][Next]_vars
=============================================================================
