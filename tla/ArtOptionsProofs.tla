-------------------------- MODULE ArtOptionsProofs --------------------------
(* For any table of options and any plugins: the plugin shown in the        *)
(* options menu is the one Start loads, what else is shown is in force, and *)
(* the options a start begins with are the ones that were saved; and for    *)
(* waits of any length a button acts at the frames it is due.               *)
EXTENDS ArtOptionsProps, NatLemmas, TLAPS

(***************************************************************************)
(* ShownIsLinked says nothing of the steps at which the link is old: while *)
(* main() has not come to the plugin's callback, and from a press in the   *)
(* menu to the end of the callback it runs.  Everywhere else, in the other *)
(* options' callbacks too, the link is that of the selection; and between  *)
(* unlink and link there is none.                                          *)
(***************************************************************************)
Linked ==
  selections[PluginOption] # 0 =>
    sprx = IF selections[PluginOption] \in present THEN selections[PluginOption] ELSE 0

Settled ==
  \/ Shown
  \/ /\ pc \in {"callback", "check", "offer", "work"}
     /\ at > PluginOption \/ (stage = "menu" /\ at # PluginOption)

LinkType ==
  /\ callback \in Tables
  /\ selections = [i \in Options |-> selections[i]]
  /\ at \in Options /\ stage \in {"boot", "menu"}
  /\ sprx # 0 => sprx \in present
  /\ vsh # 0 => vsh \in present

LinkInv ==
  /\ LinkType
  /\ pc = "link" => at = PluginOption /\ sprx = 0
  /\ pc \in {"check", "offer", "work"} => at # PluginOption
  /\ Settled => Linked

\* A table has one option for the plugin.
LEMMA OnePluginOption ==
  ASSUME callback \in Tables
  PROVE  /\ Options = 1 .. Len(callback) /\ Len(callback) \in Nat
         /\ PluginOption \in Options
         /\ \A j \in Options : callback[j] = "plugin" <=> j = PluginOption
<1>1. callback \in Seq(Switches \cup Margins \cup Calls \cup {"plugin"})
  BY TablesAssumption
<1>2. Options = 1 .. Len(callback) /\ Len(callback) \in Nat
  BY <1>1 DEF Options
<1>3. PICK i \in Options : \A j \in Options : callback[j] = "plugin" <=> j = i
  BY TablesAssumption, Zenon DEF Options
<1>4. PluginOption = i
  <2>1. callback[i] = "plugin"
    BY <1>3
  <2>2. PluginOption \in Options /\ callback[PluginOption] = "plugin"
    BY <2>1, Zenon DEF PluginOption
  <2> QED BY <2>2, <1>3
<1> QED BY <1>2, <1>3, <1>4

\* It does not come before the first.
LEMMA FirstOption ==
  ASSUME callback \in Tables
  PROVE  1 \in Options /\ ~(1 > PluginOption)
PROOF BY OnePluginOption

\* What the option of the plugin is does not change.
LEMMA SameOption ==
  ASSUME UNCHANGED callback
  PROVE  PluginOption' = PluginOption /\ Options' = Options
PROOF BY DEF PluginOption, Options

\* In the beginning nothing is linked, and nothing shown.
LEMMA LinkInit == Init => LinkInv
<1> SUFFICES ASSUME Init PROVE LinkInv
  OBVIOUS
<1>1. callback \in Tables
  BY DEF Init
<1>2. PluginOption \in Options /\ Options = 1 .. Len(callback) /\ Len(callback) \in Nat
  BY <1>1, OnePluginOption
<1>3. LinkType
  BY <1>1, <1>2 DEF Init, LinkType, Default
<1> QED
  BY <1>3 DEF Init, LinkInv, Settled, Shown

\* The end of a callback settles what is linked, or comes before the plugin's.
LEMMA LinkReturn ==
  ASSUME LinkType, UNCHANGED fixed, selections' = [i \in Options |-> selections'[i]],
         sprx' # 0 => sprx' \in present, vsh' # 0 => vsh' \in present, Return,
         Linked' \/ (stage = "boot" /\ at < PluginOption)
  PROVE  LinkInv'
<1>0. callback' = callback /\ present' = present
  BY DEF fixed
<1>1. PluginOption' = PluginOption /\ Options' = Options
  BY <1>0, SameOption
<1>2. PluginOption \in Options /\ Options = 1 .. Len(callback) /\ Len(callback) \in Nat
  BY OnePluginOption DEF LinkType
<1>3. /\ at' \in Options /\ stage' \in {"boot", "menu"}
      /\ pc' \in {"options", "callback", "main"}
  BY <1>2 DEF Return, LinkType
<1>4. LinkType'
  BY <1>0, <1>1, <1>3 DEF LinkType
<1>5. CASE Linked'
  BY <1>3, <1>4, <1>5 DEF LinkInv
<1>6. CASE stage = "boot" /\ at < PluginOption
  <2>1. pc' = "callback" /\ at' = at + 1 /\ stage' = "boot"
    BY <1>2, <1>6 DEF Return, LinkType
  <2>2. ~Settled'
    BY <2>1, <1>1, <1>2, <1>6 DEF Settled, Shown, LinkType
  <2> QED BY <2>1, <2>2, <1>4 DEF LinkInv
<1> QED BY <1>5, <1>6

\* A step within another option's callback, or past it.
LEMMA LinkOther ==
  ASSUME LinkInv, UNCHANGED <<fixed, sprx, vsh>>, at # PluginOption,
         pc \in {"callback", "check", "offer", "work"},
         selections' = [i \in Options |-> selections'[i]],
         selections'[PluginOption] = selections[PluginOption],
         Return \/ (pc' \in {"check", "offer", "work"} /\ UNCHANGED <<stage, at>>)
  PROVE  LinkInv'
<1>0. callback' = callback /\ present' = present /\ sprx' = sprx /\ vsh' = vsh
  BY DEF fixed
<1>1. PluginOption' = PluginOption /\ Options' = Options
  BY <1>0, SameOption
<1>2. PluginOption \in Options /\ Options = 1 .. Len(callback) /\ Len(callback) \in Nat
  BY OnePluginOption DEF LinkInv, LinkType
<1>3. Linked' <=> Linked
  BY <1>0, <1>1 DEF Linked
<1>4. CASE Return
  <2>1. CASE Settled
    BY <2>1, <1>0, <1>3, <1>4, LinkReturn DEF LinkInv, LinkType
  <2>2. CASE ~Settled /\ stage = "boot"
    <3>1. at < PluginOption
      BY <2>2, <1>2 DEF Settled, LinkInv, LinkType
    <3> QED BY <3>1, <2>2, <1>0, <1>4, LinkReturn DEF LinkInv, LinkType
  <2>3. CASE ~Settled /\ stage # "boot"
    BY <2>3 DEF Settled, LinkInv, LinkType
  <2> QED BY <2>1, <2>2, <2>3
<1>5. CASE pc' \in {"check", "offer", "work"} /\ UNCHANGED <<stage, at>>
  <2>1. LinkType'
    BY <1>0, <1>1, <1>5 DEF LinkInv, LinkType
  <2>2. Settled' => Settled
    BY <1>1, <1>5 DEF Settled, Shown
  <2> QED BY <2>1, <2>2, <1>1, <1>3, <1>5 DEF LinkInv
<1> QED BY <1>4, <1>5

\* A step that leaves the link and the selection of the plugin as they were.
LEMMA LinkKept ==
  ASSUME LinkInv, UNCHANGED <<fixed, sprx>>, vsh' \in {vsh, 0},
         selections' = [i \in Options |-> selections'[i]],
         selections'[PluginOption] = selections[PluginOption],
         at' \in Options, stage' = stage,
         pc' \notin {"link", "check", "offer", "work"},
         Settled' => Settled
  PROVE  LinkInv'
<1>1. callback' = callback /\ present' = present /\ PluginOption' = PluginOption /\ Options' = Options
  BY SameOption DEF fixed
<1>2. LinkType'
  BY <1>1 DEF LinkInv, LinkType
<1>3. Settled' => Linked'
  BY <1>1 DEF LinkInv, Linked
<1> QED BY <1>2, <1>3 DEF LinkInv

\* Starting and ending: main() calls the callbacks from the first.
LEMMA LinkAnew ==
  ASSUME LinkInv, UNCHANGED <<fixed, sprx>>, vsh' \in {vsh, 0, sprx},
         selections' = [i \in Options |-> selections'[i]],
         at' = 1, stage' = "boot",
         pc' \in {"off", "no fonts", "callback"}
  PROVE  LinkInv'
<1>1. callback' = callback /\ present' = present /\ PluginOption' = PluginOption /\ Options' = Options
  BY SameOption DEF fixed
<1>2. 1 \in Options /\ ~(1 > PluginOption)
  BY FirstOption DEF LinkInv, LinkType
<1>3. LinkType'
  <2>1. (sprx' # 0 => sprx' \in present') /\ (vsh' # 0 => vsh' \in present')
    BY <1>1 DEF LinkInv, LinkType
  <2> QED BY <2>1, <1>1, <1>2 DEF LinkInv, LinkType, fixed
<1>4. ~Settled'
  BY <1>1, <1>2 DEF Settled, Shown
<1> QED BY <1>3, <1>4 DEF LinkInv

\* Every step keeps it.
LEMMA LinkNext == LinkInv /\ [Next]_vars => LinkInv'
<1> SUFFICES ASSUME LinkInv, [Next]_vars PROVE LinkInv'
  OBVIOUS
<1>0. /\ callback \in Tables /\ at \in Options
      /\ Options = 1 .. Len(callback) /\ Len(callback) \in Nat
      /\ PluginOption \in Options
      /\ callback[at] = "plugin" <=> at = PluginOption
      /\ selections = [i \in Options |-> selections[i]]
  BY OnePluginOption DEF LinkInv, LinkType
<1> USE DEF diskVars, menuVars, padVars
<1>1. CASE Boot
  <2>1. selections' = [i \in Options |-> selections'[i]]
    BY <1>0, <1>1 DEF Boot, LoadOptions
  <2> QED BY <2>1, <1>1, LinkAnew DEF Boot
<1>2. CASE Stop \/ Start
  <2>1. selections' = [i \in Options |-> selections'[i]]
    BY <1>2 DEF Stop, Start, Off, Default
  <2> QED BY <2>1, <1>2, LinkAnew DEF Stop, Start, Off
<1>3. CASE NoFonts
  <2>1. ~Settled'
    BY <1>3 DEF NoFonts, Settled, Shown
  <2> QED BY <2>1, <1>0, <1>3, LinkKept DEF NoFonts
<1>4. CASE switch_callback \/ vercheck_callback \/ call_callback \/ VersionRead \/ OfferAnswered
  <2>1. at # PluginOption
    BY <1>0, <1>4 DEF switch_callback, vercheck_callback, call_callback, Calling, Calls,
       VersionRead, OfferAnswered, LinkInv
  <2>2. UNCHANGED <<fixed, sprx, vsh, selections>>
    BY <1>4 DEF switch_callback, vercheck_callback, call_callback, Calling, VersionRead,
       OfferAnswered, InCheck
  <2>3. pc \in {"callback", "check", "offer", "work"}
    BY <1>4 DEF switch_callback, vercheck_callback, call_callback, Calling, VersionRead, OfferAnswered
  <2>4. Return \/ (pc' \in {"check", "offer", "work"} /\ UNCHANGED <<stage, at>>)
    BY <1>4 DEF switch_callback, vercheck_callback, call_callback, VersionRead, OfferAnswered
  <2> QED BY <2>1, <2>2, <2>3, <2>4, <1>0, LinkOther
<1>5. CASE margin_callback \/ Worked
  <2>1. at # PluginOption
    BY <1>0, <1>5 DEF margin_callback, Calling, Margins, Worked, LinkInv
  <2>2. /\ selections' = [i \in Options |-> selections'[i]]
        /\ selections'[PluginOption] = selections[PluginOption]
    BY <2>1, <1>0, <1>5 DEF margin_callback, Set, Worked
  <2>3. UNCHANGED <<fixed, sprx, vsh>> /\ Return /\ pc \in {"callback", "work"}
    BY <1>5 DEF margin_callback, Calling, Worked
  <2> QED BY <2>1, <2>2, <2>3, LinkOther
<1>6. CASE plugin_callback
  <2>1. at = PluginOption
    BY <1>0, <1>6 DEF plugin_callback, Calling
  <2>2. UNCHANGED <<fixed, vsh>> /\ PluginOption' = PluginOption /\ Options' = Options
    BY <1>6, SameOption DEF plugin_callback, Calling, fixed
  <2>3. /\ selections' = [i \in Options |-> selections'[i]]
        /\ selections'[PluginOption] = Chosen
    BY <2>1, <1>0, <1>6 DEF plugin_callback, Set
  <2>4. CASE Chosen = 0
    <3>1. Return /\ sprx' = sprx /\ Linked'
      BY <2>2, <2>3, <2>4, <1>6 DEF plugin_callback, Linked
    <3> QED BY <3>1, <2>2, <2>3, LinkReturn DEF LinkInv, LinkType, fixed
  <2>5. CASE Chosen # 0
    <3>1. pc' = "link" /\ sprx' = 0 /\ UNCHANGED <<stage, at>>
      BY <2>5, <1>6 DEF plugin_callback
    <3>2. LinkType'
      BY <3>1, <2>2, <2>3 DEF LinkInv, LinkType, fixed
    <3>3. ~Settled'
      BY <3>1 DEF Settled, Shown
    <3> QED BY <3>1, <3>2, <3>3, <2>1, <2>2 DEF LinkInv
  <2> QED BY <2>4, <2>5
<1>7. CASE Link
  <2>1. at = PluginOption /\ sprx = 0
    BY <1>7 DEF Link, LinkInv
  <2>2. UNCHANGED <<fixed, vsh, selections>> /\ PluginOption' = PluginOption /\ present' = present
    BY <1>7, SameOption DEF Link, fixed
  <2>3. Linked'
    BY <2>1, <2>2, <1>7 DEF Link, Linked, sel
  <2>4. sprx' # 0 => sprx' \in present
    BY <2>1, <1>7 DEF Link
  <2> QED BY <2>2, <2>3, <2>4, <1>0, <1>7, LinkReturn DEF Link, LinkInv, LinkType
<1>8. CASE OpenOptions \/ Circle \/ Write \/ Unload
  <2>1. UNCHANGED <<fixed, sprx, selections, at, stage>> /\ vsh' \in {vsh, 0}
    BY <1>8 DEF OpenOptions, Circle, Write, Unload, Pressed
  <2>2. Settled /\ pc' \in {"main", "options", "save"}
    BY <1>8 DEF OpenOptions, Circle, Write, Unload, Pressed, Settled, Shown
  <2> QED BY <2>1, <2>2, <1>0, LinkKept
<1>9. CASE MoveSelection
  <2>1. at' \in Options
    BY <1>0, <1>9 DEF MoveSelection
  <2>2. UNCHANGED <<fixed, sprx, vsh, selections, stage, pc>> /\ Settled /\ pc = "options"
    BY <1>9 DEF MoveSelection, Pressed, Settled, Shown
  <2> QED BY <2>1, <2>2, <1>0, LinkKept
<1>10. CASE Left \/ CrossOrRight
  <2>1. /\ UNCHANGED <<fixed, sprx, vsh, stage, at>> /\ pc' = "callback" /\ Settled
        /\ selections' = [selections EXCEPT ![at] = selections'[at]]
    BY <1>0, <1>10 DEF Left, CrossOrRight, Pressed, Settled, Shown
  <2>2. /\ PluginOption' = PluginOption /\ Options' = Options
        /\ selections' = [i \in Options |-> selections'[i]]
    BY <2>1, <1>0, SameOption DEF fixed
  <2>3. CASE at # PluginOption
    <3>1. selections'[PluginOption] = selections[PluginOption]
      BY <2>1, <2>3, <1>0
    <3> QED BY <3>1, <2>1, <2>2, <1>0, LinkKept
  <2>4. CASE at = PluginOption
    <3>1. ~Settled'
      BY <2>1, <2>2, <2>4, <1>0 DEF Settled, Shown
    <3>2. LinkType'
      BY <2>1, <2>2, <1>0 DEF LinkInv, LinkType, fixed
    <3> QED BY <3>1, <3>2, <2>1 DEF LinkInv
  <2> QED BY <2>3, <2>4
<1>11. CASE UNCHANGED vars
  <2>1. UNCHANGED <<fixed, sprx, vsh, selections, stage, pc, at>>
    BY <1>11 DEF vars
  <2>2. PluginOption' = PluginOption /\ Options' = Options
    BY <2>1, SameOption DEF fixed
  <2> QED BY <2>1, <2>2 DEF LinkInv, LinkType, Linked, Settled, Shown, fixed
<1> QED BY <1>1, <1>2, <1>3, <1>4, <1>5, <1>6, <1>7, <1>8, <1>9, <1>10, <1>11
        DEF Next, Callback, Menu

\* LinkInv always holds.
THEOREM LinkAlways == Spec => []LinkInv
PROOF BY LinkInit, LinkNext, PTL DEF Spec

\* The plugin the menus show is the one Start loads, whatever was chosen before and
\* wherever the console was turned off (plugin_callback, main).
THEOREM ShownAlwaysLinked == Spec => []ShownIsLinked
<1>1. LinkInv => ShownIsLinked
  BY DEF LinkInv, LinkType, Settled, Linked, ShownIsLinked
<1> QED BY <1>1, LinkAlways, PTL

(***************************************************************************)
(* What is shown.  An option has come when its callback has settled its     *)
(* value: in the menus every option has; while main() calls the callbacks,  *)
(* those before the one it is at; and in a callback run from the menu, all  *)
(* but that one.  For the others only this holds: a switch, and clearcache, *)
(* whose callback does not mend another value, is 0 or 1 from the start.    *)
(***************************************************************************)
Running == {"callback", "link", "check", "offer", "work"}
Bit(i) == callback[i] \in Switches \cup {"clearcache"}

\* What is in force, f, is what is drawn for the value v, and v is a choice of the option.
Good(i, v, f) ==
  /\ Drawn(i, f) = Drawn(i, v)
  /\ v \in Kind(i)
  /\ i = PluginOption => v \in 0 .. Plugins

GoodAt(i) == Good(i, selections[i], inForce[i])

\* The callback of option i has come.
Come(i) ==
  \/ Shown
  \/ pc \in Running /\ (IF stage = "menu" THEN i # at ELSE i < at)
  \/ pc \in {"link", "check", "offer"} /\ i = at

ValueInv ==
  /\ selections \in [Options -> Int] /\ inForce \in [Options -> Int]
  /\ \A i \in Options : Bit(i) => selections[i] \in {0, 1}
  /\ \A i \in Options : Come(i) => GoodAt(i)
  /\ pc = "work" => callback[at] \in Calls
  /\ pc \in {"check", "offer"} => callback[at] = "vercheck"

\* An option is of one kind, and its place a number.
LEMMA OptionKinds ==
  ASSUME callback \in Tables, NEW i \in Options
  PROVE  /\ i \in Int /\ Len(callback) \in Nat /\ Options = 1 .. Len(callback)
         /\ callback[i] \in Switches \cup Margins \cup Calls \cup {"plugin"}
         /\ callback[i] = "plugin" <=> i = PluginOption
<1>1. callback \in Seq(Switches \cup Margins \cup Calls \cup {"plugin"})
  BY TablesAssumption
<1> QED BY <1>1, OnePluginOption DEF Options

\* No option comes before the first.
LEMMA NoneBefore ==
  ASSUME callback \in Tables, NEW i \in Options
  PROVE  i \in Nat /\ ~(i < 1)
PROOF BY OnePluginOption

\* A switch that is 0 or 1 and in force as it is, is as the menu draws it.
LEMMA GoodSwitch ==
  ASSUME callback \in Tables, NEW i \in Options, callback[i] \in Switches,
         NEW v \in {0, 1}
  PROVE  Good(i, v, v)
PROOF BY OptionKinds DEF Good, Drawn, Kind, Switches, Margins, Calls

\* And a margin within its limits,
LEMMA GoodMargin ==
  ASSUME callback \in Tables, NEW i \in Options, callback[i] \in Margins, NEW v \in 0 .. MaxMargin
  PROVE  Good(i, v, v)
PROOF BY OptionKinds DEF Good, Drawn, Kind, Switches, Margins, Calls

\* a call, whatever is made of it,
LEMMA GoodCall ==
  ASSUME callback \in Tables, NEW i \in Options, callback[i] \in Calls, NEW v \in {0, 1}, NEW f
  PROVE  Good(i, v, f)
PROOF BY OptionKinds DEF Good, Drawn, Kind, Switches, Margins, Calls

\* and the plugin, which is one there is a name for.
LEMMA GoodPlugin ==
  ASSUME callback \in Tables, NEW v \in 0 .. Plugins
  PROVE  Good(PluginOption, v, v)
<1>1. PluginOption \in Options BY OnePluginOption
<1>2. callback[PluginOption] = "plugin" BY <1>1, OptionKinds
<1> QED BY <1>2, InstallsAssumption DEF Good, Drawn, Kind, Switches, Margins, Calls

\* What is said of an option's values is said by the table.
LEMMA GoodSame ==
  ASSUME UNCHANGED callback, NEW i, Good(i, selections'[i], inForce'[i])
  PROVE  GoodAt(i)'
PROOF BY SameOption DEF GoodAt, Good, Drawn, Kind

\* Where a callback returns to.
LEMMA ReturnTo ==
  ASSUME LinkType, Return
  PROVE  \/ stage = "menu" /\ pc' = "options" /\ stage' = "menu" /\ at' = at
         \/ stage = "boot" /\ at < Len(callback) /\ pc' = "callback" /\ stage' = "boot" /\ at' = at + 1
         \/ stage = "boot" /\ at = Len(callback) /\ pc' = "main" /\ stage' = "menu" /\ at' = 1
<1>0. at \in 1 .. Len(callback) /\ Len(callback) \in Nat /\ stage \in {"boot", "menu"}
  BY OnePluginOption DEF LinkType
<1>1. CASE stage = "menu"
  BY <1>1 DEF Return
<1>2. CASE stage = "boot" /\ at < Len(callback)
  BY <1>2 DEF Return
<1>3. CASE stage = "boot" /\ at = Len(callback)
  <2>1. ~(at < Len(callback))
    BY <1>0, <1>3
  <2> QED BY <2>1, <1>3 DEF Return
<1> QED BY <1>0, <1>1, <1>2, <1>3

\* A callback that has settled its option, and returns.
LEMMA ValueReturn ==
  ASSUME ValueInv, LinkType, UNCHANGED callback, pc \in Running, Return,
         selections' \in [Options -> Int], inForce' \in [Options -> Int],
         \A i \in Options : i # at => selections'[i] = selections[i] /\ inForce'[i] = inForce[i],
         Bit(at) => selections'[at] \in {0, 1},
         Good(at, selections'[at], inForce'[at])
  PROVE  ValueInv'
<1>0. /\ Options' = Options /\ Options = 1 .. Len(callback) /\ Len(callback) \in Nat
      /\ at \in Options /\ stage \in {"boot", "menu"}
  BY SameOption, OnePluginOption DEF LinkType
<1>1. \A i \in Options : Come(i) => Good(i, selections'[i], inForce'[i])
  <2> SUFFICES ASSUME NEW i \in Options, Come(i) PROVE Good(i, selections'[i], inForce'[i])
    OBVIOUS
  <2>1. CASE i = at BY <2>1
  <2>2. CASE i # at BY <2>2 DEF ValueInv, GoodAt
  <2> QED BY <2>1, <2>2
<1>2. \A i \in Options : Come(i)' => Come(i) \/ i = at
  <2>1. CASE pc' = "options" /\ stage = "menu" /\ stage' = "menu" /\ at' = at
    BY <2>1, <1>0 DEF Come, Shown, Running
  <2>2. CASE pc' = "callback" /\ stage = "boot" /\ stage' = "boot" /\ at' = at + 1
    BY <2>2, <1>0 DEF Come, Shown, Running
  <2>3. CASE pc' = "main" /\ stage = "boot" /\ at = Len(callback)
    BY <2>3, <1>0 DEF Come, Shown, Running
  <2> QED BY <2>1, <2>2, <2>3, ReturnTo
<1>3. \A i \in Options' : Come(i)' => GoodAt(i)'
  BY <1>0, <1>1, <1>2, GoodSame
<1>4. pc' \in {"callback", "options", "main"}
  BY ReturnTo
<1>5. \A i \in Options' : Bit(i)' => selections'[i] \in {0, 1}
  BY <1>0 DEF ValueInv, Bit
<1>6. selections' \in [Options' -> Int] /\ inForce' \in [Options' -> Int]
  BY <1>0
<1> QED BY <1>3, <1>4, <1>5, <1>6 DEF ValueInv

(***************************************************************************)
(* What is kept.  The lines of the file are those of the first options, in  *)
(* order, as they were saved; the last may be cut.                          *)
(***************************************************************************)
FileOf(file, kept) ==
  /\ file \in Seq(Seq(Int)) /\ Len(file) <= Len(callback)
  /\ \A k \in DOMAIN file :
       /\ Len(file[k]) \in {1, 2} /\ file[k][1] = k
       /\ k < Len(file) => file[k] = <<k, kept[k]>>
       /\ Len(file[k]) = 2 => file[k][2] \in {kept[k]} \cup Shorter(kept[k])

FileInv ==
  /\ saved \in [Options -> Int] /\ \A i \in Options : saved[i] \in Kind(i)
  /\ FileOf(optfile, saved)
  /\ pc = "save" => saved = selections

\* The greatest of one number, and of the first k.
LEMMA Greatest ==
  ASSUME NEW k \in Nat
  PROVE  /\ Max({k}) = k
         /\ k > 0 => Max(1 .. k) = k
PROOF BY DEF Max

\* What LoadOptions makes of the file: an option behind its end is as in a first start,
\* one whose line is whole has what the line says, and one whose line is cut behind the
\* name has the value of the one before it.
LEMMA LoadedAs ==
  ASSUME LinkType, FileInv, NEW i \in Options
  PROVE  LoadOptions[i] =
           IF i > Len(optfile) THEN Default[i]
           ELSE IF Len(optfile[i]) = 2 THEN optfile[i][2]
           ELSE IF i = 1 THEN 0 ELSE saved[i - 1]
<1>0. /\ Options = 1 .. Len(callback) /\ Len(callback) \in Nat
      /\ DOMAIN optfile = 1 .. Len(optfile) /\ Len(optfile) \in Nat
      /\ i \in Nat \ {0}
  BY OnePluginOption DEF LinkType, FileInv, FileOf
<1> DEFINE of(j) == {k \in DOMAIN optfile : optfile[k][1] = j}
           known(k) == {j \in 1 .. k : Len(optfile[j]) = 2}
           val(k) == IF known(k) = {} THEN 0 ELSE optfile[Max(known(k))][2]
<1>1. LoadOptions[i] = IF of(i) = {} THEN Default[i] ELSE val(Max(of(i)))
  BY Zenon DEF LoadOptions
<1>2. \A k \in DOMAIN optfile : optfile[k][1] = k /\ Len(optfile[k]) \in {1, 2}
  BY DEF FileInv, FileOf
<1>3. \A k \in DOMAIN optfile : k < Len(optfile) => optfile[k][2] = saved[k] /\ Len(optfile[k]) = 2
  BY DEF FileInv, FileOf
<1>4. CASE i > Len(optfile)
  <2>1. of(i) = {}
    BY <1>0, <1>2, <1>4
  <2> QED BY <2>1, <1>1, <1>4
<1>5. CASE i <= Len(optfile)
  <2>1. of(i) = {i}
    BY <1>0, <1>2, <1>5
  <2>2. LoadOptions[i] = val(i)
    BY <2>1, <1>0, <1>1, Greatest
  <2>5. /\ known(i) = {} => val(i) = 0
        /\ known(i) # {} => val(i) = optfile[Max(known(i))][2]
    OBVIOUS
  <2>6. Len(optfile[i]) = 2 => known(i) = 1 .. i
    BY <1>0, <1>3, <1>5
  <2>7. Len(optfile[i]) # 2 => known(i) = 1 .. (i - 1)
    BY <1>0, <1>3, <1>5
  <2> HIDE DEF known, val
  <2>3. CASE Len(optfile[i]) = 2
    <3>1. known(i) = 1 .. i
      BY <2>3, <2>6
    <3>2. Max(1 .. i) = i
      <4>1. i \in Nat /\ i > 0
        BY <1>0
      <4> QED BY <4>1, Greatest
    <3>3. i \in known(i)
      BY <3>1, <1>0
    <3>4. LoadOptions[i] = optfile[i][2]
      BY <2>2, <2>5, <3>1, <3>2, <3>3
    <3>5. ~(i > Len(optfile))
      BY <1>0, <1>5
    <3> QED BY <2>3, <3>4, <3>5, Zenon
  <2>4. CASE Len(optfile[i]) # 2
    <3>1. known(i) = 1 .. (i - 1)
      BY <2>4, <2>7
    <3>2. CASE i = 1
      <4>1. known(i) = {}
        BY <3>1, <3>2
      <4> QED BY <4>1, <2>2, <2>4, <2>5, <3>2, <1>0, <1>5
    <3>3. CASE i # 1
      <4>1. i - 1 \in Nat /\ i - 1 > 0 /\ i - 1 < Len(optfile) /\ i - 1 \in DOMAIN optfile
        BY <1>0, <1>5, <3>3
      <4>2. Max(1 .. (i - 1)) = i - 1
        BY <4>1, Greatest
      <4>3. i - 1 \in known(i)
        BY <4>1, <3>1
      <4>4. val(i) = optfile[i - 1][2]
        BY <4>2, <4>3, <3>1, <2>5
      <4>5. val(i) = saved[i - 1]
        BY <4>1, <4>4, <1>3
      <4> QED BY <4>5, <2>2, <2>4, <3>3, <1>0, <1>5
    <3> QED BY <3>2, <3>3
  <2> QED BY <2>3, <2>4
<1> QED BY <1>0, <1>4, <1>5

\* A call that is set, in the menu or in what was saved, is due.
DueInv ==
  /\ due \subseteq Options
  /\ \A i \in Options : callback[i] \in Calls /\ saved[i] # 0 => i \in due
  /\ \A i \in Options : callback[i] \in Calls /\ selections[i] # 0 => i \in due
  /\ pc = "work" => at \in due

\* The first callback is called with what was loaded.
BootInv ==
  /\ Shown => stage = "menu"
  /\ pc = "callback" /\ stage = "boot" /\ at = 1 => selections = LoadOptions

\* What is left of a cut number is smaller, and not 0.
LEMMA LeftOf ==
  ASSUME NEW v \in Nat, NEW w \in Shorter(v)
  PROVE  w \in 1 .. v
<1>1. \A b \in Nat \ {0} : v \div b \in 0 .. v
  OBVIOUS
<1>2. Base \in Nat \ {0} /\ Base * Base \in Nat \ {0}
  BY NumbersAssumption
<1>3. w \in {v \div Base, v \div (Base * Base)} /\ w # 0
  BY DEF Shorter
<1>4. v \div Base \in 0 .. v /\ v \div (Base * Base) \in 0 .. v
  BY <1>1, <1>2, Zenon
<1> QED BY <1>3, <1>4

\* The values an option may have are numbers,
LEMMA KindNat ==
  ASSUME callback \in Tables, NEW i \in Options, NEW v \in Kind(i)
  PROVE  v \in Nat
PROOF BY OptionKinds, NumbersAssumption DEF Kind

\* and so are those of a first start, 0 for all but the plugin.
LEMMA DefaultKind ==
  ASSUME callback \in Tables
  PROVE  /\ Default \in [Options -> Int]
         /\ \A i \in Options : Default[i] \in Kind(i)
         /\ \A i \in Options : callback[i] # "plugin" => Default[i] = 0
PROOF BY OptionKinds, NumbersAssumption DEF Kind, Default, Switches, Margins, Calls

\* So are those that are loaded.
LEMMA LoadedInt ==
  ASSUME LinkType, FileInv
  PROVE  LoadOptions \in [Options -> Int]
<1>0. /\ Options = 1 .. Len(callback) /\ Len(callback) \in Nat /\ callback \in Tables
      /\ DOMAIN optfile = 1 .. Len(optfile) /\ Len(optfile) \in Nat
  BY OnePluginOption DEF LinkType, FileInv, FileOf
<1>1. LoadOptions = [i \in Options |-> LoadOptions[i]]
  BY DEF LoadOptions
<1>2. ASSUME NEW i \in Options PROVE LoadOptions[i] \in Int
  <2>1. CASE i > Len(optfile)
    BY <2>1, <1>0, LoadedAs, DefaultKind
  <2>2. CASE i <= Len(optfile) /\ Len(optfile[i]) = 2
    <3>1. i \in DOMAIN optfile /\ ~(i > Len(optfile))
      BY <1>0, <2>2
    <3>2. optfile[i] \in Seq(Int) /\ 2 \in 1 .. Len(optfile[i])
      BY <3>1, <2>2 DEF FileInv, FileOf
    <3>3. optfile[i][2] \in Int
      BY <3>2
    <3> QED BY <3>1, <3>3, <2>2, LoadedAs
  <2>3. CASE i <= Len(optfile) /\ Len(optfile[i]) # 2
    <3>1. ~(i > Len(optfile)) /\ (i # 1 => i - 1 \in Options)
      BY <1>0, <2>3
    <3> QED BY <3>1, <2>3, LoadedAs DEF FileInv, FileOf
  <2> QED BY <1>0, <2>1, <2>2, <2>3
<1> QED BY <1>1, <1>2

\* Where a loaded value comes from: it is another option's only at the cut end of the file.
LEMMA LoadedFrom ==
  ASSUME LinkType, FileInv, NEW i \in Options
  PROVE  \/ LoadOptions[i] = Default[i]
         \/ LoadOptions[i] = saved[i]
         \/ LoadOptions[i] \in Shorter(saved[i])
         \/ LoadOptions[i] = 0
         \/ i # 1 /\ i - 1 \in Options /\ LoadOptions[i] = saved[i - 1] /\ CutAt = {i}
<1>0. /\ Options = 1 .. Len(callback) /\ Len(callback) \in Nat /\ callback \in Tables
      /\ DOMAIN optfile = 1 .. Len(optfile) /\ Len(optfile) \in Nat
  BY OnePluginOption DEF LinkType, FileInv, FileOf
<1>1. CASE i > Len(optfile)
  BY <1>1, LoadedAs
<1>2. CASE i <= Len(optfile) /\ Len(optfile[i]) = 2
  <2>1. i \in DOMAIN optfile /\ ~(i > Len(optfile))
    BY <1>0, <1>2
  <2>2. optfile[i][2] \in {saved[i]} \cup Shorter(saved[i])
    BY <2>1, <1>2 DEF FileInv, FileOf
  <2> QED BY <2>1, <2>2, <1>2, LoadedAs
<1>3. CASE i <= Len(optfile) /\ Len(optfile[i]) # 2 /\ i # 1
  <2>1. i \in DOMAIN optfile /\ ~(i > Len(optfile)) /\ i - 1 \in Options
    BY <1>0, <1>3
  <2>2. Len(optfile[i]) = 1 /\ optfile[i][1] = i /\ ~(i < Len(optfile))
    <3>1. i < Len(optfile) => Len(optfile[i]) = 2
      BY <2>1 DEF FileInv, FileOf
    <3> QED BY <3>1, <2>1, <1>3 DEF FileInv, FileOf
  <2>3. i = Len(optfile) /\ optfile # <<>>
    BY <2>1, <2>2, <1>0
  <2>4. Last(optfile) = optfile[i]
    BY <2>3 DEF Last
  <2>5. CutAt = {i}
    BY <2>2, <2>3, <2>4 DEF CutAt
  <2> QED BY <2>1, <2>5, <1>3, LoadedAs
<1>4. CASE i = 1 /\ i <= Len(optfile) /\ Len(optfile[i]) # 2
  <2>1. ~(i > Len(optfile))
    BY <1>0, <1>4
  <2> QED BY <2>1, <1>4, LoadedAs
<1> QED BY <1>0, <1>1, <1>2, <1>3, <1>4

\* Before the start no callback has come.
LEMMA ValueInit == Init => ValueInv
<1> SUFFICES ASSUME Init PROVE ValueInv
  OBVIOUS
<1>1. callback \in Tables /\ pc = "off" /\ selections = Default /\ inForce = Default
  BY DEF Init
<1>2. Default \in [Options -> Int] /\ \A i \in Options : Bit(i) => Default[i] = 0
  BY <1>1, DefaultKind DEF Bit, Switches
<1>3. \A i \in Options : ~Come(i)
  BY <1>1 DEF Come, Shown, Running
<1> QED BY <1>1, <1>2, <1>3 DEF ValueInv

\* Starting and ending: no callback has run.
LEMMA ValueAnew ==
  ASSUME ValueInv, UNCHANGED callback,
         selections' \in [Options -> Int], inForce' \in [Options -> Int],
         \A i \in Options : Bit(i) => selections'[i] \in {0, 1},
         at' = 1, stage' = "boot", pc' \in {"off", "no fonts", "left", "callback"},
         callback \in Tables
  PROVE  ValueInv'
<1>1. Options' = Options /\ Options = 1 .. Len(callback) /\ Len(callback) \in Nat
  BY SameOption, OnePluginOption
<1>2. ASSUME NEW i \in Options PROVE ~Come(i)'
  <2>1. ~(i < 1)
    BY NoneBefore, Zenon
  <2>2. ~(i < at')
    BY <2>1, Zenon
  <2> QED BY <2>2 DEF Come, Shown, Running
<1>3. selections' \in [Options' -> Int] /\ inForce' \in [Options' -> Int]
  BY <1>1
<1>4. \A i \in Options' : Bit(i)' => selections'[i] \in {0, 1}
  BY <1>1 DEF Bit
<1>5. \A i \in Options' : Come(i)' => GoodAt(i)'
  BY <1>1, <1>2
<1> QED BY <1>3, <1>4, <1>5 DEF ValueInv

\* A step that leaves the values, and the options that have come.
LEMMA ValueKept ==
  ASSUME ValueInv, UNCHANGED <<callback, menuVars>>,
         \A i \in Options : Come(i)' => Come(i),
         pc' = "work" => callback[at'] \in Calls,
         pc' \in {"check", "offer"} => callback[at'] = "vercheck"
  PROVE  ValueInv'
<1>1. Options' = Options /\ selections' = selections /\ inForce' = inForce
  BY SameOption DEF menuVars
<1>2. \A i \in Options : Come(i)' => GoodAt(i)'
  <2> SUFFICES ASSUME NEW i \in Options, Come(i)' PROVE GoodAt(i)'
    OBVIOUS
  <2>1. Good(i, selections'[i], inForce'[i])
    BY <1>1 DEF ValueInv, GoodAt
  <2> QED BY <2>1, GoodSame
<1> QED BY <1>1, <1>2 DEF ValueInv, Bit

\* A switch is loaded as 0 or 1 because of its place in the table: all that a cut line
\* could give it is a switch's value, or a call's.
LEMMA ValueBoot == ASSUME LinkType, ValueInv, FileInv, Boot PROVE ValueInv'
<1>0. callback \in Tables /\ callback' = callback
  BY DEF LinkType, Boot, diskVars, fixed
<1>1. \A i \in Options : Bit(i) => LoadOptions[i] \in {0, 1}
  <2> SUFFICES ASSUME NEW i \in Options, Bit(i) PROVE LoadOptions[i] \in {0, 1}
    OBVIOUS
  <2>1. \A j \in Options : callback[j] \in Switches \cup Calls => saved[j] \in {0, 1}
    <3> SUFFICES ASSUME NEW j \in Options, callback[j] \in Switches \cup Calls PROVE Kind(j) = {0, 1}
      BY DEF FileInv
    <3> QED BY DEF Kind, Switches, Calls, Margins
  <2>2. callback[i] \in Switches \cup Calls /\ callback[i] # "plugin"
    BY DEF Bit, Switches, Calls
  <2>3. saved[i] \in {0, 1} /\ Default[i] = 0
    BY <2>1, <2>2, <1>0, DefaultKind
  <2>4. \A w \in Shorter(saved[i]) : w \in {0, 1}
    BY <2>3, LeftOf
  <2>5. i # 1 /\ i - 1 \in Options => saved[i - 1] \in {0, 1}
    <3> SUFFICES ASSUME i # 1, i - 1 \in Options PROVE saved[i - 1] \in {0, 1}
      OBVIOUS
    <3>1. i > 1 /\ i \in DOMAIN callback
      BY <1>0, OnePluginOption DEF Options
    <3>2. callback[i - 1] \in Switches \cup Calls
      BY <3>1, <1>0, OrderAssumption DEF Bit
    <3> QED BY <3>2, <2>1
  <2> QED BY <2>3, <2>4, <2>5, LoadedFrom
<1>2. \A i \in Options : Bit(i) => selections'[i] \in {0, 1}
  BY <1>1 DEF Boot, ValueInv
<1>3. selections' \in [Options -> Int] /\ inForce' \in [Options -> Int]
  BY LoadedInt DEF Boot, ValueInv
<1>4. at' = 1 /\ stage' = "boot" /\ pc' \in {"no fonts", "callback"}
  BY DEF Boot
<1> QED BY <1>0, <1>2, <1>3, <1>4, ValueAnew

\* A callback that has settled its option, and goes on; or is to do what it was called for.
LEMMA ValueGoes ==
  ASSUME LinkType, ValueInv, UNCHANGED <<callback, stage, at>>, pc \in Running,
         selections' \in [Options -> Int], inForce' \in [Options -> Int],
         \A i \in Options : i # at => selections'[i] = selections[i] /\ inForce'[i] = inForce[i],
         Bit(at) => selections'[at] \in {0, 1},
         \/ pc' \in {"link", "check", "offer"} /\ Good(at, selections'[at], inForce'[at])
         \/ pc' = "work" /\ callback[at] \in Calls,
         pc' \in {"check", "offer"} => callback[at] = "vercheck"
  PROVE  ValueInv'
<1>1. Options' = Options /\ at \in Options /\ stage' = stage /\ at' = at /\ callback' = callback
  BY SameOption DEF LinkType
<1>2. \A i \in Options : Come(i)' => i = at \/ Come(i)
  BY <1>1 DEF Come, Running, Shown
<1>3. pc' = "work" => ~Come(at)'
  <2>1. ~(at < at)
    BY OnePluginOption DEF LinkType
  <2> QED BY <2>1, <1>1 DEF Come, Running, Shown
<1>4. ASSUME NEW i \in Options, Come(i)' PROVE GoodAt(i)'
  <2>1. CASE i = at
    <3>1. Good(i, selections'[i], inForce'[i])
      BY <2>1, <1>3, <1>4
    <3> QED BY <3>1, GoodSame
  <2>2. CASE i # at
    <3>1. Good(i, selections'[i], inForce'[i])
      BY <2>2, <1>2, <1>4 DEF ValueInv, GoodAt
    <3> QED BY <3>1, GoodSame
  <2> QED BY <2>1, <2>2
<1>5. \A i \in Options : Bit(i)' => selections'[i] \in {0, 1}
  BY <1>1 DEF ValueInv, Bit
<1>6. /\ pc' = "work" => callback'[at'] \in Calls
      /\ pc' \in {"check", "offer"} => callback'[at'] = "vercheck"
  BY <1>1
<1> QED BY <1>1, <1>4, <1>5, <1>6 DEF ValueInv

\* The callbacks, one by one: music, sort_callback and ani_callback,
LEMMA ValueSwitch == ASSUME LinkType, ValueInv, switch_callback PROVE ValueInv'
<1>0. callback \in Tables /\ at \in Options /\ callback' = callback /\ pc \in Running /\ Return
  BY DEF LinkType, switch_callback, Calling, fixed, Running
<1>1. callback[at] \in Switches /\ selections' = selections /\ selections \in [Options -> Int]
  BY DEF switch_callback, Calling, Switches, ValueInv
<1>2. selections[at] \in {0, 1}
  BY <1>0, <1>1 DEF ValueInv, Bit
<1>3. inForce' = [inForce EXCEPT ![at] = selections[at]]
  BY <1>2 DEF switch_callback, sel
<1>4. inForce' \in [Options -> Int] /\ inForce'[at] = selections[at]
  BY <1>0, <1>1, <1>3 DEF ValueInv
<1>5. \A i \in Options : i # at => inForce'[i] = inForce[i]
  BY <1>3 DEF ValueInv
<1>6. Good(at, selections'[at], inForce'[at])
  BY <1>0, <1>1, <1>2, <1>4, GoodSwitch
<1> QED BY <1>0, <1>1, <1>2, <1>4, <1>5, <1>6, ValueReturn

\* (what Set changes)
LEMMA SetEffect ==
  ASSUME LinkType, ValueInv, NEW v \in Int, Set(v)
  PROVE  /\ selections' \in [Options -> Int] /\ inForce' \in [Options -> Int]
         /\ selections'[at] = v /\ inForce'[at] = v
         /\ \A i \in Options : i # at => selections'[i] = selections[i] /\ inForce'[i] = inForce[i]
PROOF BY DEF LinkType, ValueInv, Set

\* horm_callback and verm_callback,
LEMMA ValueMargin == ASSUME LinkType, ValueInv, margin_callback PROVE ValueInv'
<1>0. callback \in Tables /\ at \in Options /\ callback' = callback /\ pc \in Running /\ Return
  BY DEF LinkType, margin_callback, Calling, fixed, Running
<1>1. callback[at] \in Margins /\ ~Bit(at)
  BY DEF margin_callback, Calling, Margins, Switches, Bit
<1>2. PICK v \in 0 .. MaxMargin : Set(v)
  <2>1. selections[at] \in Int /\ MaxMargin \in Nat
    BY <1>0, NumbersAssumption DEF ValueInv
  <2> QED BY <2>1 DEF margin_callback, sel
<1>3. Good(at, v, v)
  BY <1>0, <1>1, GoodMargin
<1>4. v \in Int
  BY NumbersAssumption
<1> QED BY <1>0, <1>1, <1>2, <1>3, <1>4, SetEffect, ValueReturn

\* plugin_callback,
LEMMA ValuePlugin == ASSUME LinkType, ValueInv, plugin_callback PROVE ValueInv'
<1>0. callback \in Tables /\ at \in Options /\ callback' = callback /\ pc \in Running
  BY DEF LinkType, plugin_callback, Calling, fixed, Running
<1>1. at = PluginOption /\ ~Bit(at)
  BY <1>0, OnePluginOption DEF plugin_callback, Calling, Switches, Bit
<1>2. Set(Chosen) /\ Chosen \in 0 .. Plugins /\ Chosen \in Int
  <2>1. selections[at] \in Int /\ Plugins \in Nat
    BY <1>0, InstallsAssumption DEF ValueInv
  <2> QED BY <2>1 DEF plugin_callback, sel, Chosen
<1>3. Good(at, Chosen, Chosen)
  BY <1>0, <1>1, <1>2, GoodPlugin
<1>4. /\ selections' \in [Options -> Int] /\ inForce' \in [Options -> Int]
      /\ \A i \in Options : i # at => selections'[i] = selections[i] /\ inForce'[i] = inForce[i]
      /\ Good(at, selections'[at], inForce'[at])
  BY <1>2, <1>3, SetEffect
<1>5. CASE Return
  BY <1>0, <1>1, <1>4, <1>5, ValueReturn
<1>6. CASE pc' = "link" /\ UNCHANGED <<stage, at>>
  BY <1>0, <1>1, <1>4, <1>6, ValueGoes
<1> QED BY <1>5, <1>6 DEF plugin_callback

\* its link,
LEMMA ValueLink == ASSUME LinkInv, ValueInv, Link PROVE ValueInv'
<1>0. /\ LinkType /\ callback' = callback /\ selections' = selections /\ inForce' = inForce
      /\ at \in Options /\ pc = "link" /\ pc \in Running /\ Return
  BY DEF LinkInv, LinkType, Link, fixed, menuVars, Running
<1>1. Good(at, selections'[at], inForce'[at])
  BY <1>0 DEF ValueInv, Come, GoodAt
<1>2. Bit(at) => selections'[at] \in {0, 1}
  BY <1>0 DEF ValueInv
<1> QED BY <1>0, <1>1, <1>2, ValueReturn DEF ValueInv

\* vercheck_callback,
LEMMA ValueVercheck == ASSUME LinkType, ValueInv, vercheck_callback PROVE ValueInv'
<1>0. /\ callback \in Tables /\ at \in Options /\ callback' = callback /\ pc \in Running
      /\ callback[at] = "vercheck" /\ callback[at] \in Switches
      /\ selections' = selections /\ inForce' = [inForce EXCEPT ![at] = selections[at]]
  BY DEF LinkType, vercheck_callback, Calling, fixed, Running, Switches, sel
<1>1. selections[at] \in {0, 1}
  BY <1>0 DEF ValueInv, Bit
<1>2. /\ selections' \in [Options -> Int] /\ inForce' \in [Options -> Int]
      /\ inForce'[at] = selections[at]
      /\ \A i \in Options : i # at => selections'[i] = selections[i] /\ inForce'[i] = inForce[i]
  BY <1>0, <1>1 DEF ValueInv
<1>3. Good(at, selections'[at], inForce'[at])
  BY <1>0, <1>1, <1>2, GoodSwitch
<1>4. CASE Return
  BY <1>0, <1>1, <1>2, <1>3, <1>4, ValueReturn
<1>5. CASE pc' = "check" /\ UNCHANGED <<stage, at>>
  BY <1>0, <1>1, <1>2, <1>3, <1>5, ValueGoes
<1> QED BY <1>4, <1>5 DEF vercheck_callback

\* its check and its offer,
LEMMA ValueCheck == ASSUME LinkType, ValueInv, VersionRead \/ OfferAnswered PROVE ValueInv'
<1>0. /\ callback' = callback /\ selections' = selections /\ inForce' = inForce
      /\ at \in Options /\ pc \in {"check", "offer"} /\ pc \in Running
  BY DEF LinkType, VersionRead, OfferAnswered, InCheck, diskVars, fixed, menuVars, Running
<1>1. /\ Good(at, selections'[at], inForce'[at]) /\ callback[at] = "vercheck"
      /\ Bit(at) => selections'[at] \in {0, 1}
      /\ selections' \in [Options -> Int] /\ inForce' \in [Options -> Int]
  BY <1>0 DEF ValueInv, Come, GoodAt
<1>2. CASE Return
  BY <1>0, <1>1, <1>2, ValueReturn
<1>3. CASE pc' = "offer" /\ UNCHANGED <<stage, at>>
  BY <1>0, <1>1, <1>3, ValueGoes
<1> QED BY <1>2, <1>3 DEF VersionRead, OfferAnswered

\* update_callback and clearcache_callback,
LEMMA ValueCall == ASSUME LinkType, ValueInv, call_callback PROVE ValueInv'
<1>0. /\ callback \in Tables /\ at \in Options /\ callback' = callback /\ pc \in Running
      /\ callback[at] \in Calls
      /\ selections' = selections /\ inForce' = inForce
      /\ selections' \in [Options -> Int] /\ inForce' \in [Options -> Int]
  BY DEF LinkType, call_callback, Calling, fixed, menuVars, Running, ValueInv
<1>1. Bit(at) => selections'[at] \in {0, 1}
  BY <1>0 DEF ValueInv
<1>2. CASE Return /\ selections[at] \in {0, 1}
  <2>1. Good(at, selections'[at], inForce'[at])
    BY <1>0, <1>2, GoodCall
  <2> QED BY <2>1, <1>0, <1>1, <1>2, ValueReturn
<1>3. CASE pc' = "work" /\ UNCHANGED <<stage, at>>
  BY <1>0, <1>1, <1>3, ValueGoes
<1>4. callback[at] = "clearcache" => selections[at] \in {0, 1}
  BY <1>0 DEF ValueInv, Bit
<1> QED BY <1>2, <1>3, <1>4 DEF call_callback, sel

\* and their ends.
LEMMA ValueWorked == ASSUME LinkType, ValueInv, Worked PROVE ValueInv'
<1>0. /\ callback \in Tables /\ at \in Options /\ callback' = callback /\ pc \in Running /\ Return
      /\ callback[at] \in Calls
      /\ selections' = [selections EXCEPT ![at] = 0] /\ inForce' = inForce
  BY DEF LinkType, Worked, diskVars, fixed, Running, ValueInv
<1>1. /\ selections' \in [Options -> Int] /\ inForce' \in [Options -> Int] /\ selections'[at] = 0
      /\ \A i \in Options : i # at => selections'[i] = selections[i] /\ inForce'[i] = inForce[i]
  BY <1>0 DEF ValueInv
<1>2. Good(at, selections'[at], inForce'[at])
  BY <1>0, <1>1, GoodCall
<1> QED BY <1>0, <1>1, <1>2, ValueReturn

\* LEFT, RIGHT and CROSS leave an option that its callback has yet to settle.
LEMMA ValuePressed == ASSUME LinkType, ValueInv, Left \/ CrossOrRight PROVE ValueInv'
<1>0. /\ callback \in Tables /\ callback' = callback /\ Options' = Options
      /\ at \in Options /\ at \in Nat /\ stage' = stage /\ at' = at
      /\ inForce' = inForce /\ pc = "options" /\ pc' = "callback"
  BY OptionKinds, SameOption, OnePluginOption DEF LinkType, Left, CrossOrRight, Pressed, fixed
<1>1. selections[at] \in Int /\ Plugins \in Nat
  BY <1>0, InstallsAssumption DEF ValueInv
<1>2. PICK v \in Int : selections' = [selections EXCEPT ![at] = v] /\ (Bit(at) => v \in {0, 1})
  <2>1. Toggled \in Int /\ Toggled \in {0, 1} /\ sel = selections[at] /\ sel \in Int
    BY <1>1 DEF Toggled, sel
  <2>2. Bit(at) => sel \in {0, 1}
    BY <1>0 DEF ValueInv, sel
  <2>3. CASE callback[at] \in Switches
    <3>1. selections' = [selections EXCEPT ![at] = Toggled]
      BY <2>3, <2>1, <1>1 DEF Left, CrossOrRight, Switches, Margins
    <3> QED BY <3>1, <2>1
  <2>4. CASE callback[at] = "plugin"
    <3>1. \E v \in Int : selections' = [selections EXCEPT ![at] = v]
      <4>1. CASE Left
        <5>1. selections' = [selections EXCEPT ![at] = IF sel > 0 THEN sel - 1 ELSE Plugins]
          BY <2>4, <4>1, <2>1, <1>1 DEF Left, Switches, Margins
        <5>2. (IF sel > 0 THEN sel - 1 ELSE Plugins) \in Int
          BY <2>1, <1>1
        <5> QED BY <5>1, <5>2, Zenon
      <4>2. CASE CrossOrRight
        <5>1. selections' = [selections EXCEPT ![at] = IF sel < Plugins THEN sel + 1 ELSE 0]
          BY <2>4, <4>2, <2>1, <1>1 DEF CrossOrRight, Switches, Margins
        <5>2. (IF sel < Plugins THEN sel + 1 ELSE 0) \in Int
          BY <2>1, <1>1
        <5> QED BY <5>1, <5>2, Zenon
      <4> QED BY <4>1, <4>2
    <3> QED BY <3>1, <2>4 DEF Bit, Switches
  <2>5. CASE callback[at] \in Margins
    <3>1. \/ selections' = [selections EXCEPT ![at] = sel - 1]
          \/ selections' = [selections EXCEPT ![at] = sel + 1]
      BY <2>5 DEF Left, CrossOrRight, Switches, Margins
    <3> QED BY <3>1, <2>1, <2>5 DEF Bit, Switches, Margins
  <2>6. CASE callback[at] \notin Switches \cup Margins \cup {"plugin"}
    <3>1. \/ selections' = [selections EXCEPT ![at] = sel]
          \/ selections' = [selections EXCEPT ![at] = 1]
      BY <2>6 DEF Left, CrossOrRight
    <3> QED BY <3>1, <2>1, <2>2
  <2> QED BY <2>3, <2>4, <2>5, <2>6
<1>3. /\ selections' \in [Options -> Int] /\ selections'[at] = v
      /\ \A i \in Options : i # at => selections'[i] = selections[i]
  BY <1>0, <1>2 DEF ValueInv
<1>4. \A i \in Options : Bit(i)' => selections'[i] \in {0, 1}
  BY <1>0, <1>2, <1>3 DEF ValueInv, Bit
<1>5. ASSUME NEW i \in Options, Come(i)' PROVE GoodAt(i)'
  <2>1. i # at
    <3>1. ~(at < at)
      BY <1>0
    <3> QED BY <3>1, <1>0, <1>5 DEF Come, Running, Shown
  <2>2. Good(i, selections'[i], inForce'[i])
    BY <2>1, <1>0, <1>3 DEF ValueInv, GoodAt, Come, Shown
  <2> QED BY <2>2, <1>0, GoodSame
<1> QED BY <1>0, <1>3, <1>4, <1>5 DEF ValueInv

\* Every step keeps it.
LEMMA ValueNext == ASSUME LinkInv, ValueInv, FileInv, [Next]_vars PROVE ValueInv'
<1>0. LinkType /\ callback \in Tables
  BY DEF LinkInv, LinkType
<1>1. CASE Stop \/ Start
  <2>1. /\ UNCHANGED callback /\ selections' = Default /\ inForce' = Default
        /\ at' = 1 /\ stage' = "boot" /\ pc' = "off"
    BY <1>1 DEF Stop, Start, Off, diskVars, fixed
  <2>2. Default \in [Options -> Int] /\ \A i \in Options : Bit(i) => Default[i] \in {0, 1}
    BY <1>0, DefaultKind DEF Bit, Switches
  <2> QED BY <2>1, <2>2, <1>0, ValueAnew
<1>2. CASE NoFonts
  <2>1. UNCHANGED <<callback, menuVars>> /\ pc' \in {"no fonts", "left"}
    BY <1>2 DEF NoFonts, diskVars, fixed, menuVars
  <2>2. \A i \in Options : Come(i)' => Come(i)
    BY <2>1 DEF Come, Running, Shown
  <2> QED BY <2>1, <2>2, ValueKept
<1>3. CASE OpenOptions \/ MoveSelection \/ Circle \/ Write \/ Unload
  <2>1. UNCHANGED <<callback, menuVars>>
    BY <1>3 DEF OpenOptions, MoveSelection, Circle, Write, Unload, Pressed, diskVars, fixed, menuVars
  <2>4. pc' \in {"main", "options", "save"}
    BY <1>3 DEF OpenOptions, MoveSelection, Circle, Write, Unload, Pressed
  <2>2. Shown
    <3>1. pc \in {"main", "options", "save"}
      BY <1>3 DEF OpenOptions, MoveSelection, Circle, Write, Unload, Pressed
    <3> QED BY <3>1 DEF Shown
  <2>3. \A i \in Options : Come(i)
    BY <2>2 DEF Come
  <2> QED BY <2>1, <2>3, <2>4, ValueKept
<1>4. CASE UNCHANGED vars
  <2>1. UNCHANGED <<callback, menuVars, pc, at, stage>>
    BY <1>4 DEF vars, diskVars, fixed, menuVars
  <2>2. \A i \in Options : Come(i)' => Come(i)
    BY <2>1 DEF Come, Running, Shown
  <2> QED BY <2>1, <2>2, ValueKept DEF ValueInv
<1> QED
  BY <1>0, <1>1, <1>2, <1>3, <1>4, ValueBoot, ValueSwitch, ValueMargin, ValuePlugin, ValueLink,
     ValueVercheck, ValueCheck, ValueCall, ValueWorked, ValuePressed, Zenon
  DEF Next, Callback, Menu

\* The file as far as the line of the n-th option.
FirstLines(kept, n) == [i \in 1 .. n |-> <<i, kept[i]>>]

\* It is a sequence of lines, and each is its option's.
LEMMA LinesOf ==
  ASSUME callback \in Tables, NEW kept \in [Options -> Int], NEW n \in 0 .. Len(callback)
  PROVE  LET file == FirstLines(kept, n)
         IN  /\ file \in Seq(Seq(Int)) /\ Len(file) = n /\ DOMAIN file = 1 .. n
             /\ \A k \in 1 .. n : /\ file[k] = <<k, kept[k]>> /\ file[k][1] = k
                                  /\ file[k][2] = kept[k] /\ Len(file[k]) = 2
<1> DEFINE file == FirstLines(kept, n)
<1>0. /\ Options = 1 .. Len(callback) /\ Len(callback) \in Nat /\ n \in Nat
      /\ \A k \in 1 .. n : k \in Options /\ k \in Int
  BY OnePluginOption
<1>1. \A k \in 1 .. n : <<k, kept[k]>> \in Seq(Int)
  BY <1>0
<1>2. file \in Seq(Seq(Int)) /\ Len(file) = n /\ DOMAIN file = 1 .. n
  BY <1>0, <1>1 DEF FirstLines
<1>3. \A k \in 1 .. n : file[k] = <<k, kept[k]>>
  BY DEF FirstLines
<1> HIDE DEF file
<1>4. ASSUME NEW k \in 1 .. n PROVE file[k][1] = k /\ file[k][2] = kept[k] /\ Len(file[k]) = 2
  <2>1. <<k, kept[k]>>[1] = k /\ <<k, kept[k]>>[2] = kept[k] /\ Len(<<k, kept[k]>>) = 2
    OBVIOUS
  <2> QED BY <2>1, <1>3, Zenon
<1>5. QED BY <1>2, <1>3, <1>4 DEF file

\* It is a file of what was written,
LEMMA WholeFile ==
  ASSUME callback \in Tables, NEW kept \in [Options -> Int], NEW n \in 0 .. Len(callback)
  PROVE  FileOf(FirstLines(kept, n), kept)
<1>0. Len(callback) \in Nat
  BY OnePluginOption
<1>1. LET file == FirstLines(kept, n)
      IN  /\ file \in Seq(Seq(Int)) /\ Len(file) = n /\ DOMAIN file = 1 .. n
          /\ \A k \in 1 .. n : /\ file[k] = <<k, kept[k]>> /\ file[k][1] = k
                               /\ file[k][2] = kept[k] /\ Len(file[k]) = 2
  BY LinesOf
<1> QED BY <1>0, <1>1 DEF FileOf

\* and so is one whose last line is cut.
LEMMA CutFile ==
  ASSUME callback \in Tables, NEW kept \in [Options -> Int], NEW i \in Options,
         NEW line \in Seq(Int), Len(line) \in {1, 2}, line[1] = i,
         Len(line) = 2 => line[2] \in Shorter(kept[i])
  PROVE  FileOf(Append(FirstLines(kept, i - 1), line), kept)
<1> DEFINE lines == FirstLines(kept, i - 1)
           file == Append(lines, line)
<1>0. Len(callback) \in Nat /\ i \in Nat /\ i - 1 \in 0 .. Len(callback) /\ i <= Len(callback) /\ i - 1 \in Nat
  BY OnePluginOption
<1>1. /\ lines \in Seq(Seq(Int)) /\ Len(lines) = i - 1
      /\ \A k \in 1 .. (i - 1) : /\ lines[k] = <<k, kept[k]>> /\ lines[k][1] = k
                                 /\ lines[k][2] = kept[k] /\ Len(lines[k]) = 2
  BY <1>0, LinesOf
<1> HIDE DEF lines
<1>2. file \in Seq(Seq(Int)) /\ Len(file) = i /\ DOMAIN file = 1 .. i
  BY <1>0, <1>1
<1>3. file[i] = line /\ \A k \in 1 .. (i - 1) : file[k] = lines[k]
  BY <1>0, <1>1
<1> HIDE DEF file
<1>4. ASSUME NEW k \in DOMAIN file
      PROVE  /\ Len(file[k]) \in {1, 2} /\ file[k][1] = k
             /\ k < Len(file) => file[k] = <<k, kept[k]>>
             /\ Len(file[k]) = 2 => file[k][2] \in {kept[k]} \cup Shorter(kept[k])
  <2>1. CASE k = i
    <3>1. ~(k < Len(file))
      BY <1>0, <1>2, <2>1
    <3> QED BY <3>1, <2>1, <1>3
  <2>2. CASE k # i
    <3>1. k \in 1 .. (i - 1)
      BY <1>0, <1>2, <2>2
    <3> QED BY <3>1, <1>1, <1>3
  <2> QED BY <2>1, <2>2
<1>5. file \in Seq(Seq(Int)) /\ Len(file) <= Len(callback)
  BY <1>0, <1>2
<1>6. FileOf(file, kept)
  BY <1>4, <1>5 DEF FileOf
<1> QED BY <1>6 DEF file, lines

\* So are all that a write may leave (SaveOptions).
LEMMA WritesFile ==
  ASSUME callback \in Tables, NEW kept \in [Options -> Int], \A i \in Options : kept[i] \in Nat,
         NEW file \in Writes(kept)
  PROVE  FileOf(file, kept)
<1>0. Options = 1 .. Len(callback) /\ Len(callback) \in Nat
  BY OnePluginOption
<1>1. Len(kept) = Len(callback)
  BY <1>0
<1>2. \/ \E k \in 0 .. Len(callback) : file = FirstLines(kept, k)
      \/ \E i \in Options : file = Append(FirstLines(kept, i - 1), <<i>>)
      \/ \E i \in Options : \E v \in Shorter(kept[i]) : file = Append(FirstLines(kept, i - 1), <<i, v>>)
  BY <1>1, Zenon DEF Writes, FirstLines
<1>3. CASE \E k \in 0 .. Len(callback) : file = FirstLines(kept, k)
  BY <1>3, WholeFile
<1>4. CASE \E i \in Options : file = Append(FirstLines(kept, i - 1), <<i>>)
  <2>1. PICK i \in Options : file = Append(FirstLines(kept, i - 1), <<i>>)
    BY <1>4
  <2>2. <<i>> \in Seq(Int) /\ Len(<<i>>) = 1 /\ <<i>>[1] = i
    BY <1>0
  <2>3. Len(<<i>>) \in {1, 2} /\ Len(<<i>>) # 2
    BY <2>2
  <2> QED BY <2>1, <2>2, <2>3, CutFile
<1>5. CASE \E i \in Options : \E v \in Shorter(kept[i]) : file = Append(FirstLines(kept, i - 1), <<i, v>>)
  <2>0. PICK i \in Options : \E v \in Shorter(kept[i]) : file = Append(FirstLines(kept, i - 1), <<i, v>>)
    BY <1>5, Zenon
  <2>1. PICK v \in Shorter(kept[i]) : file = Append(FirstLines(kept, i - 1), <<i, v>>)
    BY <2>0, Zenon
  <2>2. v \in Int
    BY LeftOf
  <2>3. <<i, v>> \in Seq(Int) /\ Len(<<i, v>>) = 2 /\ <<i, v>>[1] = i /\ <<i, v>>[2] = v
    BY <1>0, <2>2
  <2>4. Len(<<i, v>>) \in {1, 2}
    BY <2>3
  <2> QED BY <2>1, <2>3, <2>4, CutFile
<1> QED BY <1>2, <1>3, <1>4, <1>5

\* There is no file in the beginning.
LEMMA FileInit == Init => FileInv
<1> SUFFICES ASSUME Init PROVE FileInv
  OBVIOUS
<1>1. callback \in Tables /\ pc = "off" /\ saved = Default /\ optfile = <<>>
  BY DEF Init
<1>2. FileOf(optfile, saved)
  <2>1. Len(callback) \in Nat
    BY <1>1, OnePluginOption
  <2> QED BY <2>1, <1>1 DEF FileOf
<1> QED BY <1>1, <1>2, DefaultKind DEF FileInv

\* What the file may hold is said by the table and by what was saved.
LEMMA SameFileOf ==
  ASSUME UNCHANGED callback, NEW file, NEW kept, FileOf(file, kept),
         optfile' = file, saved' = kept
  PROVE  FileOf(optfile, saved)'
PROOF BY DEF FileOf

\* So is what an option may be.
LEMMA SameKind ==
  ASSUME UNCHANGED callback, NEW i
  PROVE  Kind(i)' = Kind(i)
PROOF BY DEF Kind

\* Every step keeps it: only CIRCLE empties the file, when what is shown is what is saved.
LEMMA FileNext == ASSUME LinkInv, ValueInv, FileInv, [Next]_vars PROVE FileInv'
<1>0. /\ callback \in Tables /\ callback' = callback /\ Options' = Options
      /\ \A i : Kind(i)' = Kind(i)
  <2>1. callback' = callback
    BY DEF Next, Boot, Stop, Start, Off, NoFonts, Callback, Menu, switch_callback, margin_callback,
       plugin_callback, Link, vercheck_callback, VersionRead, OfferAnswered, InCheck, call_callback,
       Worked, OpenOptions, MoveSelection, Left, CrossOrRight, Circle, Write, Unload, Pressed,
       Calling, fixed, diskVars, vars
  <2> QED BY <2>1, SameOption, SameKind DEF LinkInv, LinkType
<1>1. CASE Circle
  <2>1. CASE pc' = "main" /\ UNCHANGED <<optfile, saved, due>>
    <3>1. FileOf(optfile, saved)'
      BY <2>1, <1>0, SameFileOf DEF FileInv
    <3> QED BY <3>1, <2>1, <1>0 DEF FileInv
  <2>2. CASE pc' = "save" /\ optfile' = <<>> /\ saved' = selections
    <3>1. FileOf(<<>>, selections)
      <4>1. Len(callback) \in Nat
        BY <1>0, OnePluginOption
      <4> QED BY <4>1 DEF FileOf
    <3>2. FileOf(optfile, saved)'
      BY <3>1, <2>2, <1>0, SameFileOf
    <3>3. \A i \in Options : selections[i] \in Kind(i)
      <4>1. Shown
        BY <1>1 DEF Circle, Pressed, Shown
      <4> QED BY <4>1 DEF ValueInv, Come, GoodAt, Good
    <3>4. selections' = selections
      BY <1>1 DEF Circle
    <3> QED BY <3>2, <3>3, <3>4, <2>2, <1>0 DEF FileInv, ValueInv
  <2> QED BY <1>1, <2>1, <2>2 DEF Circle
<1>2. CASE Write
  <2>1. saved = selections /\ saved' = saved /\ pc' = "main" /\ optfile' \in Writes(selections)
    BY <1>2 DEF Write, FileInv
  <2>2. selections \in [Options -> Int] /\ \A i \in Options : selections[i] \in Nat
    <3>1. \A i \in Options : selections[i] \in Kind(i)
      BY <2>1 DEF FileInv
    <3> QED BY <3>1, <1>0, KindNat DEF ValueInv
  <2>3. \A file \in Writes(selections) : FileOf(file, selections)
    BY <2>2, <1>0, WritesFile
  <2>4. FileOf(optfile, saved)'
    BY <2>1, <2>3, <1>0, SameFileOf
  <2> QED BY <2>1, <2>4, <1>0 DEF FileInv
<1>3. CASE UNCHANGED <<optfile, saved>> /\ (pc' = "save" => pc = "save" /\ selections' = selections)
  <2>1. FileOf(optfile, saved)'
    BY <1>3, <1>0, SameFileOf DEF FileInv
  <2> QED BY <2>1, <1>3, <1>0 DEF FileInv
<1>4. CASE Boot \/ Stop \/ Start \/ NoFonts
  BY <1>3, <1>4 DEF Boot, Stop, Start, Off, NoFonts, diskVars
<1>5. CASE switch_callback \/ margin_callback \/ plugin_callback \/ Link \/ vercheck_callback
  <2>1. UNCHANGED <<optfile, saved>>
    BY <1>5 DEF switch_callback, margin_callback, plugin_callback, Link, vercheck_callback, Calling
  <2>2. Return \/ pc' \in {"link", "check"}
    BY <1>5 DEF switch_callback, margin_callback, plugin_callback, Link, vercheck_callback
  <2>3. pc' # "save"
    BY <2>2, ReturnTo DEF LinkInv
  <2> QED BY <2>1, <2>3, <1>3
<1>6. CASE VersionRead \/ OfferAnswered \/ call_callback \/ Worked
  <2>1. UNCHANGED <<optfile, saved>>
    BY <1>6 DEF VersionRead, OfferAnswered, InCheck, call_callback, Worked, Calling, diskVars
  <2>2. Return \/ pc' \in {"offer", "work"}
    BY <1>6 DEF VersionRead, OfferAnswered, call_callback, Worked
  <2>3. pc' # "save"
    BY <2>2, ReturnTo DEF LinkInv
  <2> QED BY <2>1, <2>3, <1>3
<1>7. CASE OpenOptions \/ MoveSelection \/ Left \/ CrossOrRight \/ Unload
  BY <1>3, <1>7 DEF OpenOptions, MoveSelection, Left, CrossOrRight, Unload, Pressed, diskVars
<1>8. CASE UNCHANGED vars
  BY <1>3, <1>8 DEF vars, diskVars, menuVars
<1> QED
  BY <1>1, <1>2, <1>4, <1>5, <1>6, <1>7, <1>8, Zenon DEF Next, Callback, Menu

\* In the beginning no call is set.
LEMMA DueInit == Init => DueInv
<1> SUFFICES ASSUME Init PROVE DueInv
  OBVIOUS
<1>1. callback \in Tables /\ pc = "off" /\ saved = Default /\ selections = Default /\ due = {}
  BY DEF Init
<1>2. \A i \in Options : callback[i] \in Calls => Default[i] = 0
  BY <1>1, DefaultKind DEF Calls
<1> QED BY <1>1, <1>2 DEF DueInv

\* Every step keeps it: a start sets only the calls that were saved, and at most the one
\* whose name ends the file.
LEMMA DueNext == ASSUME LinkInv, ValueInv, FileInv, DueInv, [Next]_vars PROVE DueInv'
<1>0. /\ callback \in Tables /\ callback' = callback /\ Options' = Options
      /\ at \in Options /\ LinkType
  <2>1. callback' = callback
    BY DEF Next, Boot, Stop, Start, Off, NoFonts, Callback, Menu, switch_callback, margin_callback,
       plugin_callback, Link, vercheck_callback, VersionRead, OfferAnswered, InCheck, call_callback,
       Worked, OpenOptions, MoveSelection, Left, CrossOrRight, Circle, Write, Unload, Pressed,
       Calling, fixed, diskVars, vars
  <2> QED BY <2>1, SameOption DEF LinkInv, LinkType
<1>1. CASE Boot
  <2>1. saved' = saved /\ due' = due \cup CutAt /\ pc' # "work"
    BY <1>1 DEF Boot
  <2>2. CutAt \subseteq Options
    <3> SUFFICES ASSUME NEW i \in CutAt PROVE i \in Options
      OBVIOUS
    <3>1. optfile # <<>> /\ i = optfile[Len(optfile)][1]
      BY DEF CutAt, Last
    <3>2. Len(optfile) \in DOMAIN optfile /\ Len(optfile) \in Options
      BY <3>1, <1>0, OnePluginOption DEF FileInv, FileOf
    <3> QED BY <3>1, <3>2 DEF FileInv, FileOf
  <2>3. \A i \in Options : callback[i] \in Calls /\ selections'[i] # 0 => i \in due'
    <3> SUFFICES ASSUME NEW i \in Options, callback[i] \in Calls, selections'[i] # 0
                 PROVE  i \in due'
      OBVIOUS
    <3>1. CASE selections' = selections
      BY <3>1, <2>1 DEF DueInv
    <3>2. CASE selections' = LoadOptions
      <4>1. Default[i] = 0
        BY <1>0, DefaultKind DEF Calls
      <4>2. saved[i] \in Nat
        BY <1>0, KindNat DEF FileInv
      <4>3. CASE saved[i] = 0
        <5>1. \A w \in Shorter(saved[i]) : FALSE
          BY <4>3, LeftOf
        <5>2. CutAt = {i}
          BY <4>1, <4>3, <5>1, <3>2, <1>0, LoadedFrom
        <5> QED BY <5>2, <2>1
      <4>4. CASE saved[i] # 0
        BY <4>4, <2>1 DEF DueInv
      <4> QED BY <4>3, <4>4
    <3> QED BY <3>1, <3>2, <1>1 DEF Boot
  <2> QED BY <2>1, <2>2, <2>3, <1>0 DEF DueInv
<1>2. CASE Stop \/ Start
  <2>1. UNCHANGED <<saved, due>> /\ selections' = Default /\ pc' = "off"
    BY <1>2 DEF Stop, Start, Off
  <2>2. \A i \in Options : callback[i] \in Calls => Default[i] = 0
    BY <1>0, DefaultKind DEF Calls
  <2> QED BY <2>1, <2>2, <1>0 DEF DueInv
<1>3. CASE UNCHANGED <<saved, due, selections>> /\ pc' # "work"
  BY <1>3, <1>0 DEF DueInv
<1>4. CASE NoFonts \/ OpenOptions \/ MoveSelection \/ Write \/ Unload
  BY <1>3, <1>4 DEF NoFonts, OpenOptions, MoveSelection, Write, Unload, Pressed, menuVars
<1>5. CASE switch_callback \/ Link \/ vercheck_callback \/ VersionRead \/ OfferAnswered
  <2>1. UNCHANGED <<saved, due, selections>>
    BY <1>5 DEF switch_callback, Link, vercheck_callback, VersionRead, OfferAnswered, InCheck,
       Calling, menuVars
  <2>2. Return \/ pc' \in {"check", "offer"}
    BY <1>5 DEF switch_callback, Link, vercheck_callback, VersionRead, OfferAnswered
  <2> QED BY <2>1, <2>2, <1>0, <1>3, ReturnTo
<1>6. CASE margin_callback \/ plugin_callback
  <2>1. UNCHANGED <<saved, due>> /\ callback[at] \notin Calls
    BY <1>6 DEF margin_callback, plugin_callback, Calling, Margins, Calls
  <2>2. \A i \in Options : i # at => selections'[i] = selections[i]
    BY <1>6, <1>0 DEF margin_callback, plugin_callback, Set, ValueInv
  <2>3. Return \/ pc' = "link"
    BY <1>6 DEF margin_callback, plugin_callback
  <2>4. pc' # "work"
    BY <2>3, <1>0, ReturnTo
  <2> QED BY <2>1, <2>2, <2>4, <1>0 DEF DueInv
<1>7. CASE call_callback
  <2>1. UNCHANGED <<saved, due, selections>> /\ callback[at] \in Calls
    BY <1>7 DEF call_callback, Calling, menuVars
  <2>2. CASE Return
    BY <2>1, <2>2, <1>0, <1>3, ReturnTo
  <2>3. CASE selections[at] # 0 /\ at' = at
    BY <2>1, <2>3, <1>0 DEF DueInv
  <2> QED BY <2>2, <2>3, <1>7 DEF call_callback, sel
<1>8. CASE Worked
  <2>1. /\ saved' = saved /\ Return /\ callback[at] \in Calls
        /\ selections' = [selections EXCEPT ![at] = 0]
        /\ due' = IF saved[at] = 0 THEN due \ {at} ELSE due
    BY <1>8 DEF Worked, Done, ValueInv
  <2>2. pc' # "work"
    BY <2>1, <1>0, ReturnTo
  <2>3. selections'[at] = 0 /\ \A i \in Options : i # at => selections'[i] = selections[i]
    BY <2>1, <1>0 DEF ValueInv
  <2>4. due' \subseteq due /\ \A i \in due : i # at \/ saved[i] # 0 => i \in due'
    BY <2>1
  <2> QED BY <2>1, <2>2, <2>3, <2>4, <1>0 DEF DueInv
<1>9. CASE Left
  <2>1. UNCHANGED <<saved, due>> /\ pc' = "callback"
    BY <1>9 DEF Left
  <2>2. \A i \in Options : callback[i] \in Calls => selections'[i] = selections[i]
    <3> SUFFICES ASSUME NEW i \in Options, callback[i] \in Calls PROVE selections'[i] = selections[i]
      OBVIOUS
    <3>1. CASE i = at
      BY <3>1, <1>9, <1>0 DEF Left, ValueInv, sel, Calls, Switches, Margins
    <3>2. CASE i # at
      BY <3>2, <1>9, <1>0 DEF Left, ValueInv
    <3> QED BY <3>1, <3>2
  <2> QED BY <2>1, <2>2, <1>0 DEF DueInv
<1>10. CASE CrossOrRight
  <2>1. /\ saved' = saved /\ pc' = "callback"
        /\ due' = IF callback[at] \in Calls THEN due \cup {at} ELSE due
    BY <1>10 DEF CrossOrRight
  <2>2. \A i \in Options : i # at => selections'[i] = selections[i]
    BY <1>10, <1>0 DEF CrossOrRight, ValueInv
  <2> QED BY <2>1, <2>2, <1>0 DEF DueInv
<1>11. CASE Circle
  <2>1. selections' = selections /\ pc' # "work"
    BY <1>11 DEF Circle
  <2>2. CASE UNCHANGED <<saved, due>>
    BY <2>1, <2>2, <1>0 DEF DueInv
  <2>3. CASE saved' = selections /\ due' = {i \in due : selections[i] # 0}
    BY <2>1, <2>3, <1>0 DEF DueInv
  <2> QED BY <2>2, <2>3, <1>11 DEF Circle
<1>12. CASE UNCHANGED vars
  BY <1>12, <1>0 DEF vars, menuVars, DueInv
<1> QED
  BY <1>1, <1>2, <1>4, <1>5, <1>6, <1>7, <1>8, <1>9, <1>10, <1>11, <1>12, Zenon
  DEF Next, Callback, Menu

\* In the beginning nothing is shown.
LEMMA BootInit == Init => BootInv
PROOF BY DEF Init, BootInv, Shown

\* Every step keeps it.
LEMMA BootNext == ASSUME LinkInv, BootInv, [Next]_vars PROVE BootInv'
<1>0. LinkType /\ at \in Nat \ {0}
  BY OnePluginOption DEF LinkInv, LinkType
<1>1. CASE Boot
  <2>1. UNCHANGED <<callback, optfile>>
    BY <1>1 DEF Boot, diskVars, fixed
  <2>2. LoadOptions' = LoadOptions
    BY <2>1 DEF LoadOptions, Options, Default, PluginOption
  <2>3. (pc' = "no fonts") \/ (pc' = "callback" /\ selections' = LoadOptions)
    BY <1>1 DEF Boot
  <2> QED BY <2>2, <2>3 DEF BootInv, Shown
<1>2. CASE Return
  <2>1. \/ pc' = "options" /\ stage' = "menu"
        \/ pc' = "callback" /\ stage' = "boot" /\ at' # 1
        \/ pc' = "main" /\ stage' = "menu"
    BY <1>0, <1>2, ReturnTo
  <2> QED BY <2>1 DEF BootInv, Shown
<1>3. CASE pc' \in {"off", "no fonts", "left", "link", "check", "offer", "work"}
  BY <1>3 DEF BootInv, Shown
<1>4. CASE Shown /\ stage' = stage
  BY <1>4 DEF BootInv, Shown
<1>5. CASE UNCHANGED vars
  <2>1. UNCHANGED <<callback, optfile, pc, stage, at, selections>>
    BY <1>5 DEF vars, diskVars, fixed, menuVars
  <2>2. LoadOptions' = LoadOptions
    BY <2>1 DEF LoadOptions, Options, Default, PluginOption
  <2> QED BY <2>1, <2>2 DEF BootInv, Shown
<1>6. CASE Stop \/ Start \/ NoFonts
  BY <1>3, <1>6 DEF Stop, Start, Off, NoFonts
<1>7. CASE Callback
  BY <1>2, <1>3, <1>7 DEF Callback, switch_callback, margin_callback, plugin_callback, Link,
     vercheck_callback, VersionRead, OfferAnswered, call_callback, Worked
<1>8. CASE OpenOptions \/ MoveSelection \/ Left \/ CrossOrRight \/ Circle \/ Write \/ Unload
  <2>1. pc \in {"main", "options", "save"} /\ stage' = stage
    BY <1>8 DEF OpenOptions, MoveSelection, Left, CrossOrRight, Circle, Write, Unload, Pressed
  <2> QED BY <2>1, <1>4 DEF Shown
<1> QED BY <1>1, <1>5, <1>6, <1>7, <1>8, Zenon DEF Next, Menu

\* The program is somewhere it can be.
PlaceInv ==
  /\ pc \in {"off", "no fonts", "left", "callback", "link", "check", "offer", "work", "main",
             "options", "save"}
  /\ fonts \in BOOLEAN /\ present \in Installs
  /\ hold \in [Halves -> Nat]

\* The program is off.
LEMMA PlaceInit == Init => PlaceInv
PROOF BY DEF Init, PlaceInv, NotHeld

\* Every step goes where it can.
LEMMA PlaceNext == ASSUME LinkInv, PlaceInv, [Next]_vars PROVE PlaceInv'
<1>0. LinkType
  BY DEF LinkInv
<1>1. fonts' = fonts /\ present' = present
  BY DEF Next, Boot, Stop, Start, Off, NoFonts, Callback, Menu, switch_callback, margin_callback,
     plugin_callback, Link, vercheck_callback, VersionRead, OfferAnswered, InCheck, call_callback,
     Worked, OpenOptions, MoveSelection, Left, CrossOrRight, Circle, Write, Unload, Pressed,
     Calling, fixed, diskVars, vars
<1>2. hold' \in [Halves -> Nat]
  <2>1. CASE hold' = hold
    BY <2>1 DEF PlaceInv
  <2>2. CASE Stop \/ Start
    BY <2>2 DEF Stop, Start, Off, NotHeld
  <2>3. CASE NoFonts
    <3>1. CASE Unplugged
      BY <3>1, <2>1 DEF Unplugged
    <3>2. ASSUME NEW d, NEW r, readPad(d, r) PROVE hold' \in [Halves -> Nat]
      <4>1. hold.dpad \in Nat /\ hold.rest \in Nat
        BY DEF PlaceInv, Halves
      <4>2. HeldOn(dpad, d, hold.dpad) \in Nat /\ HeldOn(rest, r, hold.rest) \in Nat
        BY <4>1 DEF HeldOn
      <4> QED BY <3>2, <4>2 DEF readPad, Halves
    <3> QED BY <3>1, <3>2, <2>3 DEF NoFonts
  <2> QED
    BY <2>1, <2>2, <2>3 DEF Next, Boot, Callback, Menu, switch_callback, margin_callback,
       plugin_callback, Link, vercheck_callback, VersionRead, OfferAnswered, InCheck, call_callback,
       Worked, OpenOptions, MoveSelection, Left, CrossOrRight, Circle, Write, Unload, Pressed,
       Calling, padVars, vars
<1>3. Return => pc' \in {"callback", "options", "main"}
  BY <1>0, ReturnTo
<1>4. pc' \in {"off", "no fonts", "left", "callback", "link", "check", "offer", "work", "main",
             "options", "save"}
  <2>1. CASE UNCHANGED vars
    BY <2>1 DEF vars, PlaceInv
  <2>2. CASE Callback
    BY <2>2, <1>3 DEF Callback, switch_callback, margin_callback, plugin_callback, Link,
       vercheck_callback, VersionRead, OfferAnswered, call_callback, Worked
  <2>3. CASE Menu
    BY <2>3 DEF Menu, PlaceInv, OpenOptions, MoveSelection, Left, CrossOrRight, Circle, Write, Start, Off,
       Unload, Pressed
  <2>4. CASE Boot \/ Stop \/ NoFonts
    BY <2>4 DEF Boot, Stop, Off, NoFonts
  <2> QED BY <2>1, <2>2, <2>3, <2>4 DEF Next
<1> QED BY <1>1, <1>2, <1>4 DEF PlaceInv

\* What the theorems rest on.
OptionsInv == LinkInv /\ ValueInv /\ FileInv /\ DueInv /\ BootInv /\ PlaceInv

\* All of it always holds.
THEOREM OptionsAlways == Spec => []OptionsInv
<1>1. Init => OptionsInv
  BY LinkInit, ValueInit, FileInit, DueInit, BootInit, PlaceInit DEF OptionsInv
<1>2. OptionsInv /\ [Next]_vars => OptionsInv'
  BY LinkNext, ValueNext, FileNext, DueNext, BootNext, PlaceNext DEF OptionsInv
<1> QED BY <1>1, <1>2, PTL DEF Spec

\* What the options menu draws is a choice the option has, whatever the file held and
\* whichever buttons were pressed (Draw_OptionsMenu, LoadOptions, the callbacks).
THEOREM TypeCorrect == Spec => []TypeOK
<1>1. OptionsInv => TypeOK
  <2> SUFFICES ASSUME OptionsInv PROVE TypeOK
    OBVIOUS
  <2>1. sprx \in 0 .. Plugins /\ vsh \in 0 .. Plugins
    <3>1. present \subseteq 1 .. Plugins /\ Plugins \in Nat
      BY InstallsAssumption DEF OptionsInv, PlaceInv
    <3> QED BY <3>1 DEF OptionsInv, LinkInv, LinkType
  <2>2. Shown => Draw_OptionsMenu /\ \A i \in Options : selections[i] \in Kind(i)
    <3> SUFFICES ASSUME Shown PROVE Draw_OptionsMenu /\ \A i \in Options : selections[i] \in Kind(i)
      OBVIOUS
    <3>1. \A i \in Options : GoodAt(i)
      BY DEF OptionsInv, ValueInv, Come
    <3>2. PluginOption \in Options
      BY OnePluginOption DEF OptionsInv, LinkInv, LinkType
    <3> QED BY <3>1, <3>2 DEF GoodAt, Good, Draw_OptionsMenu
  <2> QED BY <2>1, <2>2 DEF OptionsInv, LinkInv, LinkType, DueInv, PlaceInv, TypeOK
<1> QED BY <1>1, OptionsAlways, PTL

\* What is shown is in force, the margins, the switches and the plugin Start loads.
THEOREM ShownIsInForceAlways == Spec => []ShownIsInForce
<1>1. OptionsInv => (Shown => \A i \in Options : Drawn(i, inForce[i]) = Drawn(i, selections[i]))
  BY DEF OptionsInv, ValueInv, Come, GoodAt, Good
<1>2. OptionsInv /\ ShownIsLinked => ShownIsInForce
  BY <1>1 DEF ShownIsInForce
<1> QED BY <1>2, OptionsAlways, ShownAlwaysLinked, PTL

\* A start begins with the options saved last, as far as the file goes, wherever it was
\* cut; and no update and no clearing begins that was not asked for, but for one whose
\* name ended a file (SaveOptions, LoadOptions, update_callback, clearcache_callback).
THEOREM OptionsKeptAlways == Spec => []OptionsKept
<1>1. OptionsInv => OptionsKept
  <2> SUFFICES ASSUME OptionsInv PROVE OptionsKept
    OBVIOUS
  <2>0. LinkType /\ FileInv /\ FileOf(optfile, saved)
    BY DEF OptionsInv, LinkInv, FileInv
  <2>1. /\ Options = 1 .. Len(callback) /\ Len(callback) \in Nat /\ 1 \in Options
        /\ DOMAIN optfile = 1 .. Len(optfile) /\ Len(optfile) \in Nat /\ Len(optfile) <= Len(callback)
    BY <2>0, OnePluginOption, FirstOption DEF LinkType, FileOf
  <2>2. \A i \in Options : i > Len(optfile) => LoadOptions[i] = Default[i]
    BY <2>0, LoadedAs
  <2>3. \A i \in Options : i < Len(optfile) => LoadOptions[i] = saved[i]
    <3> SUFFICES ASSUME NEW i \in Options, i < Len(optfile) PROVE LoadOptions[i] = saved[i]
      OBVIOUS
    <3>0. i \in DOMAIN optfile /\ ~(i > Len(optfile))
      BY <2>1
    <3>1. optfile[i] = <<i, saved[i]>>
      BY <3>0, <2>0 DEF FileOf
    <3>2. Len(<<i, saved[i]>>) = 2 /\ <<i, saved[i]>>[2] = saved[i]
      OBVIOUS
    <3>3. Len(optfile[i]) = 2 /\ optfile[i][2] = saved[i]
      BY <3>1, <3>2, Zenon
    <3> QED BY <3>0, <3>3, <2>0, LoadedAs
  <2> DEFINE Kept(k) ==
         /\ \A i \in Options : i < k => LoadOptions[i] = saved[i]
         /\ \A i \in Options : i > k => LoadOptions[i] = Default[i]
         /\ LoadOptions[k] \in {saved[k], Default[k]} \cup Shorter(saved[k])
                                \cup (IF k = 1 THEN {0} ELSE {saved[k - 1]})
  <2>4. \E k \in Options : Kept(k)
    <3>1. CASE Len(optfile) = 0
      <4>1. \A i \in Options : ~(i < 1) /\ (i > 1 => i > Len(optfile)) /\ 1 > Len(optfile)
        BY <3>1, <2>1
      <4>2. Kept(1)
        BY <4>1, <2>1, <2>2
      <4> QED BY <4>2, <2>1
    <3>2. CASE Len(optfile) # 0
      <4> DEFINE k == Len(optfile)
      <4>1. k \in Options /\ ~(k > Len(optfile)) /\ k \in DOMAIN optfile
        BY <3>2, <2>1
      <4>2. LoadOptions[k] \in {saved[k], Default[k]} \cup Shorter(saved[k])
                                \cup (IF k = 1 THEN {0} ELSE {saved[k - 1]})
        <5>1. CASE Len(optfile[k]) = 2
          <6>1. optfile[k][2] \in {saved[k]} \cup Shorter(saved[k])
            BY <4>1, <5>1, <2>0 DEF FileOf
          <6>2. LoadOptions[k] = optfile[k][2]
            BY <4>1, <5>1, <2>0, LoadedAs
          <6> QED BY <6>1, <6>2
        <5>2. CASE Len(optfile[k]) # 2
          <6>1. LoadOptions[k] = IF k = 1 THEN 0 ELSE saved[k - 1]
            BY <4>1, <5>2, <2>0, LoadedAs
          <6> QED BY <6>1
        <5> QED BY <5>1, <5>2
      <4>3. Kept(k)
        BY <4>2, <2>2, <2>3
      <4> QED BY <4>1, <4>3
    <3> QED BY <3>1, <3>2
  <2> HIDE DEF Kept
  <2>5. pc = "callback" /\ stage = "boot" /\ at = 1 => selections = LoadOptions
    BY DEF OptionsInv, BootInv
  <2>6. pc = "work" => at \in due
    BY DEF OptionsInv, DueInv
  <2> QED BY <2>4, <2>5, <2>6, Zenon DEF OptionsKept, Kept
<1> QED BY <1>1, OptionsAlways, PTL

-----------------------------------------------------------------------------
(* The pad.                                                                *)
(*                                                                         *)
(* RepeatsInTime is an action property: that a button acts when it is due   *)
(* follows from what readPad's counters say of the frames it was held.      *)
(* While it is held, the last act is act k: the frames since then and the   *)
(* time left make up the wait of that act, and the frames waited until now, *)
(* as far as they are counted, are held.                                    *)

Moment == [frame : Nat, waited : Nat]
FirstAct == [frame |-> 1, waited |-> 0]

\* act holds the acts of a button, in their order.
IsActs(act) ==
  /\ act \in [0 .. MaxHold -> Moment]
  /\ act[0] = FirstAct
  /\ \A k \in 1 .. MaxHold : act[k] = NextAct(act[k - 1])
  /\ Acts = {act[k].frame : k \in 0 .. MaxHold}

\* A wait is a number of frames.
LEMMA WaitNat ==
  /\ MaxHold \in Nat /\ Held[2] \in Nat
  /\ \A n \in Nat : Wait(n) \in Nat
<1>1. Waits[1] \in Nat /\ Waits[2] \in Nat /\ Waits[3] \in Nat /\ Held[1] \in Nat /\ Held[2] \in Nat
  BY NumbersAssumption
<1> QED BY <1>1 DEF MaxHold, Wait

\* There are such.
LEMMA ActsThere == \E act : IsActs(act)
<1> DEFINE Of(f) == f = [k \in 0 .. MaxHold |-> IF k = 0 THEN FirstAct ELSE NextAct(f[k - 1])]
           act == CHOOSE f : Of(f)
           step == [k \in 1 .. MaxHold |-> [a \in Moment |-> NextAct(a)]]
<1>1. Acts = {act[k].frame : k \in 0 .. MaxHold}
  BY DEF Acts, FirstAct
<1>2. \A a \in Moment : NextAct(a) \in Moment
  BY WaitNat DEF Moment, NextAct
<1>3. step \in [1 .. MaxHold -> [Moment -> Moment]]
  BY <1>2
<1>4. FirstAct \in Moment
  BY DEF FirstAct, Moment
<1> HIDE DEF step
<1>5. \E f \in [0 .. MaxHold -> Moment] : Recursive(f, FirstAct, step, MaxHold)
  BY <1>3, <1>4, WaitNat, Recursion
<1>6. PICK f \in [0 .. MaxHold -> Moment] :
        f = [k \in 0 .. MaxHold |-> IF k = 0 THEN FirstAct ELSE step[k][f[k - 1]]]
  BY <1>5 DEF Recursive
<1>7. \A k \in 0 .. MaxHold : f[k] = IF k = 0 THEN FirstAct ELSE NextAct(f[k - 1])
  <2> SUFFICES ASSUME NEW k \in 0 .. MaxHold, k # 0 PROVE f[k] = NextAct(f[k - 1])
    BY <1>6
  <2>1. k \in 1 .. MaxHold /\ k - 1 \in 0 .. MaxHold
    BY WaitNat
  <2>2. f[k] = step[k][f[k - 1]]
    BY <1>6
  <2> QED BY <2>1, <2>2 DEF step
<1>8. Of(f)
  BY <1>6, <1>7
<1>9. Of(act)
  <2> HIDE DEF Of
  <2> QED BY <1>8, Zenon
<1> HIDE DEF act
<1>10. \A k \in 0 .. MaxHold : act[k] = IF k = 0 THEN FirstAct ELSE NextAct(act[k - 1])
  BY <1>9
<1> DEFINE Fine == {k \in Nat : k <= MaxHold => act[k] \in Moment}
<1>11. 0 \in Fine
  BY <1>4, <1>10, WaitNat
<1>12. ASSUME NEW k \in Nat, k \in Fine PROVE k + 1 \in Fine
  <2> SUFFICES ASSUME k + 1 <= MaxHold PROVE act[k + 1] \in Moment
    OBVIOUS
  <2>1. k + 1 \in 0 .. MaxHold /\ k + 1 # 0 /\ (k + 1) - 1 = k /\ k <= MaxHold
    BY WaitNat
  <2>2. act[k + 1] = NextAct(act[k]) /\ act[k] \in Moment
    BY <2>1, <1>10, <1>12
  <2> QED BY <2>2, <1>2
<1>13. \A k \in 0 .. MaxHold : act[k] \in Moment
  <2> HIDE DEF Fine
  <2>1. Nat \subseteq Fine
    BY <1>11, <1>12, NatInd
  <2> QED BY <2>1, WaitNat DEF Fine
<1>14. act \in [0 .. MaxHold -> Moment]
  BY <1>9, <1>13
<1>15. act[0] = FirstAct /\ \A k \in 1 .. MaxHold : act[k] = NextAct(act[k - 1])
  BY <1>10, WaitNat
<1> QED BY <1>1, <1>14, <1>15, Zenon DEF IsActs

\* The k-th is the (k + 1)-st frame or a later one, and behind the wait of those before.
LEMMA ActsAscend ==
  ASSUME NEW act, IsActs(act)
  PROVE  \A k \in 0 .. MaxHold :
           /\ act[k].frame > k
           /\ \A j \in 0 .. MaxHold : j < k => act[j].frame + Wait(act[j].waited) < act[k].frame
<1> DEFINE Later(k) ==
             /\ act[k].frame > k
             /\ \A j \in 0 .. MaxHold : j < k => act[j].frame + Wait(act[j].waited) < act[k].frame
           Fine == {k \in Nat : k <= MaxHold => Later(k)}
<1>1. \A k \in 0 .. MaxHold : act[k].frame \in Nat /\ act[k].waited \in Nat /\ Wait(act[k].waited) \in Nat
  BY WaitNat DEF IsActs, Moment
<1>2. 0 \in Fine
  <2>1. act[0].frame = 1
    BY DEF IsActs, FirstAct
  <2> QED BY <2>1
<1>3. ASSUME NEW k \in Nat, k \in Fine PROVE k + 1 \in Fine
  <2> SUFFICES ASSUME k + 1 <= MaxHold PROVE Later(k + 1)
    OBVIOUS
  <2>1. k + 1 \in 1 .. MaxHold /\ (k + 1) - 1 = k /\ k \in 0 .. MaxHold /\ k + 1 \in 0 .. MaxHold
    BY WaitNat
  <2>2. act[k + 1] = NextAct(act[k])
    BY <2>1 DEF IsActs
  <2>3. act[k + 1].frame = act[k].frame + Wait(act[k].waited) + 1
    BY <2>2 DEF NextAct
  <2>4. Later(k)
    BY <2>1, <1>3
  <2>5. ASSUME NEW j \in 0 .. MaxHold, j < k + 1
        PROVE  act[j].frame + Wait(act[j].waited) < act[k + 1].frame
    <3>1. CASE j = k
      BY <3>1, <2>1, <2>3, <1>1
    <3>2. CASE j # k
      <4>1. j < k
        BY <3>2, <2>5
      <4>2. act[j].frame + Wait(act[j].waited) < act[k].frame
        BY <4>1, <2>4
      <4> QED BY <4>2, <2>1, <2>3, <1>1
    <3> QED BY <3>1, <3>2
  <2>6. act[k + 1].frame > k + 1
    BY <2>1, <2>3, <2>4, <1>1
  <2> QED BY <2>5, <2>6
<1>4. Nat \subseteq Fine
  <2> HIDE DEF Fine
  <2> QED BY <1>2, <1>3, NatInd
<1> QED BY <1>4, WaitNat

\* No frame of a wait is one to act at, nor is the frame before the first.
LEMMA NoActBetween ==
  ASSUME NEW act, IsActs(act)
  PROVE  /\ 0 \notin Acts
         /\ \A k \in 0 .. MaxHold, n \in Nat :
              act[k].frame < n /\ n <= act[k].frame + Wait(act[k].waited) => n \notin Acts
<1>1. \A k \in 0 .. MaxHold : act[k].frame \in Nat /\ act[k].waited \in Nat /\ Wait(act[k].waited) \in Nat
  BY WaitNat DEF IsActs, Moment
<1>2. 0 \notin Acts
  <2> SUFFICES ASSUME NEW k \in 0 .. MaxHold, act[k].frame = 0 PROVE FALSE
    BY DEF IsActs
  <2> QED BY ActsAscend
<1>3. ASSUME NEW k \in 0 .. MaxHold, NEW n \in Nat, act[k].frame < n,
             n <= act[k].frame + Wait(act[k].waited), NEW j \in 0 .. MaxHold, n = act[j].frame
      PROVE  FALSE
  <2>1. CASE k < j
    <3>1. act[k].frame + Wait(act[k].waited) < act[j].frame
      BY <2>1, ActsAscend
    <3> QED BY <3>1, <1>1, <1>3
  <2>2. CASE j < k
    <3>1. act[j].frame + Wait(act[j].waited) < act[k].frame
      BY <2>2, ActsAscend
    <3> QED BY <3>1, <1>1, <1>3
  <2>3. CASE j = k
    BY <2>3, <1>1, <1>3
  <2> QED BY <2>1, <2>2, <2>3
<1> QED BY <1>2, <1>3 DEF IsActs

\* The frame behind a wait is.
LEMMA ActBehind ==
  ASSUME NEW act, IsActs(act), NEW k \in 0 .. MaxHold,
         act[k].frame + Wait(act[k].waited) < MaxHold
  PROVE  /\ k + 1 \in 0 .. MaxHold /\ act[k + 1] = NextAct(act[k])
         /\ act[k + 1].frame \in Acts
<1>1. act[k].frame \in Nat /\ act[k].waited \in Nat /\ Wait(act[k].waited) \in Nat /\ MaxHold \in Nat
  BY WaitNat DEF IsActs, Moment
<1>2. act[k].frame > k
  BY ActsAscend
<1>3. k + 1 \in 0 .. MaxHold /\ k + 1 \in 1 .. MaxHold /\ (k + 1) - 1 = k
  BY <1>1, <1>2
<1> QED BY <1>3 DEF IsActs

TheActs == CHOOSE act : IsActs(act)
LEMMA TheActsAre == IsActs(TheActs)
PROOF BY ActsThere, Zenon DEF TheActs

\* The frames waited, as far as they are counted.
Counted(n) == IF n > Held[2] THEN Held[2] + 1 ELSE n

\* The wait of the last act, k, goes on: h frames are behind it.
InWait(g, h, k) ==
  /\ TheActs[k].frame <= h
  /\ h + g.time = TheActs[k].frame + Wait(TheActs[k].waited)
  /\ g.held = Counted(TheActs[k].waited + (h - TheActs[k].frame))

\* What a half of readPad's state says of a button that was held for h frames.
Half == [key : {None, "UP", "RIGHT", "CROSS", "CIRCLE"}, time : Nat, held : Nat, ret : BOOLEAN]
HalfInv(g, h) ==
  /\ g \in Half /\ h \in Nat
  /\ h = 0 => g.time = 0 /\ g.held = 0
  /\ h > 0 => \E k \in 0 .. MaxHold : InWait(g, h, k)

PadInv == HalfInv(dpad, hold.dpad) /\ HalfInv(rest, hold.rest) /\ hold \in [Halves -> Nat]

\* The acts and their waits are numbers, and waits go by what is counted.
LEMMA Numbers ==
  /\ \A k \in 0 .. MaxHold : /\ TheActs[k].frame \in Nat /\ TheActs[k].waited \in Nat
                             /\ Wait(TheActs[k].waited) \in Nat
  /\ \A n \in Nat : /\ Counted(n) \in Nat /\ Wait(Counted(n)) = Wait(n)
                    /\ Longer(Counted(n)) = Counted(n + 1)
<1>1. \A k \in 0 .. MaxHold : TheActs[k].frame \in Nat /\ TheActs[k].waited \in Nat
  BY TheActsAre DEF IsActs, Moment
<1>2. Held[2] \in Nat /\ Held[1] \in Nat
  BY NumbersAssumption
<1>3. \A n \in Nat : Counted(n) \in Nat /\ Wait(Counted(n)) = Wait(n)
  BY <1>2 DEF Counted, Wait
<1>4. \A n \in Nat : Longer(Counted(n)) = Counted(n + 1)
  BY <1>2 DEF Counted, Longer
<1> QED BY <1>1, <1>3, <1>4, WaitNat

\* The counters of a frame in a wait.
LEMMA HalfCounted ==
  ASSUME NEW g \in Half, NEW n, g.time > 0
  PROVE  /\ [g EXCEPT !.time = @ - 1, !.held = n, !.ret = FALSE].time = g.time - 1
         /\ [g EXCEPT !.time = @ - 1, !.held = n, !.ret = FALSE].held = n
         /\ [g EXCEPT !.time = @ - 1, !.held = n, !.ret = FALSE].ret = FALSE
         /\ g.time - 1 \in Nat
         /\ n \in Nat => [g EXCEPT !.time = @ - 1, !.held = n, !.ret = FALSE] \in Half
<1>1. g.time - 1 \in Nat
  BY DEF Half
<1>2. /\ [g EXCEPT !.time = @ - 1, !.held = n, !.ret = FALSE].time = g.time - 1
      /\ [g EXCEPT !.time = @ - 1, !.held = n, !.ret = FALSE].held = n
      /\ [g EXCEPT !.time = @ - 1, !.held = n, !.ret = FALSE].ret = FALSE
  BY DEF Half
<1>3. ASSUME n \in Nat PROVE [g EXCEPT !.time = @ - 1, !.held = n, !.ret = FALSE] \in Half
  BY <1>1, <1>3 DEF Half
<1> QED BY <1>1, <1>2, <1>3

\* A frame of one half.
LEMMA HalfStep ==
  ASSUME NEW g, NEW h, HalfInv(g, h), h < MaxHold,
         NEW now \in {None, "UP", "RIGHT", "CROSS", "CIRCLE"}
  PROVE  /\ HalfInv(readHalf(g, now), HeldOn(g, now, h))
         /\ readHalf(g, now).ret <=> HeldOn(g, now, h) \in Acts
         /\ HeldOn(g, now, h) = h => ~readHalf(g, now).ret
<1>1. g \in Half /\ h \in Nat /\ MaxHold \in Nat /\ 0 \notin Acts
  BY WaitNat, TheActsAre, NoActBetween DEF HalfInv
<1>2. g.time \in Nat /\ g.held \in Nat
  BY <1>1 DEF Half
<1>3. CASE now # g.key \/ now = None
  <2> DEFINE g2 == [Released EXCEPT !.key = now]
  <2>1. readHalf(g, now) = g2 /\ HeldOn(g, now, h) = 0
    BY <1>3, Zenon DEF readHalf, HeldOn
  <2>2. Released \in Half /\ Released.time = 0 /\ Released.held = 0 /\ Released.ret = FALSE
    BY DEF Released, Half
  <2>3. g2.time = 0 /\ g2.held = 0 /\ g2.ret = FALSE
    BY <2>2 DEF Half
  <2>4. g2 \in Half
    BY <2>2 DEF Half
  <2> HIDE DEF g2
  <2>5. HalfInv(g2, 0)
    BY <2>3, <2>4 DEF HalfInv
  <2> QED BY <1>1, <2>1, <2>3, <2>5
<1>4. CASE ~(now # g.key \/ now = None) /\ g.time > 0
  <2> DEFINE g2 == [g EXCEPT !.time = @ - 1, !.held = Longer(@), !.ret = FALSE]
  <2>1. readHalf(g, now) = g2 /\ HeldOn(g, now, h) = h + 1
    BY <1>4, Zenon DEF readHalf, HeldOn
  <2>2. h > 0
    BY <1>1, <1>2, <1>4 DEF HalfInv
  <2>3. PICK k \in 0 .. MaxHold : InWait(g, h, k)
    BY <2>2 DEF HalfInv
  <2>4. /\ g2.time = g.time - 1 /\ g2.held = Longer(g.held) /\ g2.ret = FALSE
        /\ g.time - 1 \in Nat /\ (Longer(g.held) \in Nat => g2 \in Half)
    BY <1>1, <1>2, <1>4, HalfCounted
  <2> HIDE DEF g2
  <2>5. TheActs[k].frame \in Nat /\ TheActs[k].waited \in Nat /\ Wait(TheActs[k].waited) \in Nat
    BY Numbers
  <2> DEFINE w == TheActs[k].waited + (h - TheActs[k].frame)
  <2>6. w \in Nat /\ w + 1 = TheActs[k].waited + ((h + 1) - TheActs[k].frame) /\ g.held = Counted(w)
    <3>1. TheActs[k].frame <= h /\ g.held = Counted(w)
      BY <2>3, Zenon DEF InWait
    <3> QED BY <1>1, <2>5, <3>1
  <2>7. g2.held = Counted(w + 1) /\ g2.held \in Nat
    BY <2>4, <2>6, Numbers
  <2>8. InWait(g2, h + 1, k)
    BY <1>1, <1>2, <2>3, <2>4, <2>5, <2>6, <2>7 DEF InWait
  <2>9. g2 \in Half
    BY <2>4, <2>7
  <2>10. h + 1 \notin Acts
    <3>1. h + 1 \in Nat /\ TheActs[k].frame < h + 1 /\ h + 1 <= TheActs[k].frame + Wait(TheActs[k].waited)
      BY <1>1, <1>2, <1>4, <2>3, <2>5 DEF InWait
    <3> QED BY <3>1, TheActsAre, NoActBetween
  <2> QED BY <1>1, <2>1, <2>4, <2>8, <2>9, <2>10 DEF HalfInv
<1>5. CASE ~(now # g.key \/ now = None) /\ ~(g.time > 0)
  <2> DEFINE g2 == [g EXCEPT !.time = Wait(g.held), !.ret = TRUE]
  <2>1. readHalf(g, now) = g2 /\ HeldOn(g, now, h) = h + 1
    BY <1>5, Zenon DEF readHalf, HeldOn
  <2>2. g2.time = Wait(g.held) /\ g2.held = g.held /\ g2.ret = TRUE /\ g2 \in Half
    BY <1>1, <1>2, WaitNat DEF Half
  <2> HIDE DEF g2
  <2>3. \E k \in 0 .. MaxHold : InWait(g2, h + 1, k) /\ h + 1 \in Acts
    <3>1. CASE h = 0
      <4>1. TheActs[0] = FirstAct /\ 0 \in 0 .. MaxHold
        BY TheActsAre, WaitNat DEF IsActs
      <4>2. TheActs[0].frame = 1 /\ TheActs[0].waited = 0
        BY <4>1 DEF FirstAct
      <4>3. g.held = 0
        BY <3>1 DEF HalfInv
      <4>4. Counted(0) = 0
        BY WaitNat DEF Counted
      <4>5. InWait(g2, 1, 0)
        BY <2>2, <4>2, <4>3, <4>4 DEF InWait
      <4>6. 1 \in Acts
        BY TheActsAre, <4>1, <4>2 DEF IsActs
      <4> QED BY <3>1, <4>1, <4>5, <4>6
    <3>2. CASE h > 0
      <4>1. PICK k \in 0 .. MaxHold : InWait(g, h, k)
        BY <3>2 DEF HalfInv
      <4>2. TheActs[k].frame \in Nat /\ TheActs[k].waited \in Nat /\ Wait(TheActs[k].waited) \in Nat
        BY Numbers
      <4>3. h = TheActs[k].frame + Wait(TheActs[k].waited)
        BY <1>1, <1>2, <1>5, <4>1 DEF InWait
      <4>4. k + 1 \in 0 .. MaxHold /\ TheActs[k + 1] = NextAct(TheActs[k])
            /\ TheActs[k + 1].frame \in Acts
        BY <4>3, TheActsAre, ActBehind
      <4>5. /\ TheActs[k + 1].frame = h + 1
            /\ TheActs[k + 1].waited = TheActs[k].waited + Wait(TheActs[k].waited)
        BY <4>2, <4>3, <4>4 DEF NextAct
      <4>6. g.held = Counted(TheActs[k + 1].waited) /\ TheActs[k + 1].waited \in Nat
        BY <4>1, <4>2, <4>3, <4>5 DEF InWait
      <4>7. Wait(g.held) = Wait(TheActs[k + 1].waited)
        BY <4>6, Numbers
      <4>8. InWait(g2, h + 1, k + 1)
        BY <1>1, <2>2, <4>5, <4>6, <4>7 DEF InWait
      <4> QED BY <4>4, <4>5, <4>8
    <3> QED BY <1>1, <3>1, <3>2
  <2> QED BY <1>1, <2>1, <2>2, <2>3 DEF HalfInv
<1> QED BY <1>3, <1>4, <1>5

\* A half of which only ret is cleared, and one that was never used.
LEMMA HalfKept ==
  ASSUME NEW g, NEW h, HalfInv(g, h)
  PROVE  HalfInv([g EXCEPT !.ret = FALSE], h) /\ [g EXCEPT !.ret = FALSE].ret = FALSE
<1> DEFINE g2 == [g EXCEPT !.ret = FALSE]
<1>1. g2 \in Half /\ g2.time = g.time /\ g2.held = g.held /\ g2.ret = FALSE
  BY DEF HalfInv, Half
<1> HIDE DEF g2
<1>2. HalfInv(g2, h)
  BY <1>1 DEF HalfInv, InWait
<1> QED BY <1>1, <1>2 DEF g2
LEMMA HalfReleased == HalfInv(Released, 0) /\ ~Released.ret
PROOF BY DEF HalfInv, Half, Released, InWait

\* What a step of the pad promises.
InTime ==
  /\ hold'.dpad # hold.dpad => (dpad'.ret <=> hold'.dpad \in Acts)
  /\ hold'.rest # hold.rest => (rest'.ret <=> hold'.rest \in Acts)
  /\ hold' = hold => ~dpad'.ret /\ ~rest'.ret

\* Every step keeps the counters right, and acts when it is time.
LEMMA PadNext ==
  ASSUME PadInv, [Next]_vars
  PROVE  PadInv' /\ (InTime \/ UNCHANGED padVars)
<1>1. CASE UNCHANGED padVars
  BY <1>1 DEF padVars, PadInv
<1>2. CASE Stop \/ Start
  <2>1. dpad' = Released /\ rest' = Released /\ hold' = NotHeld
    BY <1>2 DEF Stop, Start, Off
  <2>2. hold'.dpad = 0 /\ hold'.rest = 0 /\ hold' \in [Halves -> Nat]
    BY <2>1 DEF NotHeld, Halves
  <2>3. 0 \notin Acts
    BY TheActsAre, NoActBetween
  <2> QED BY <2>1, <2>2, <2>3, HalfReleased DEF PadInv, InTime
<1>3. CASE NoFonts
  <2>1. HalfInv(dpad, hold.dpad) /\ HalfInv(rest, hold.rest) /\ hold \in [Halves -> Nat]
    BY DEF PadInv
  <2>2. CASE Unplugged
    <3>1. /\ dpad' = [dpad EXCEPT !.ret = FALSE] /\ rest' = [rest EXCEPT !.ret = FALSE]
          /\ hold' = hold
      BY <2>2, Zenon DEF Unplugged
    <3> QED BY <2>1, <3>1, HalfKept DEF PadInv, InTime
  <2>3. CASE \E d \in {None, "UP", "RIGHT"}, r \in {None, "CROSS", "CIRCLE"} : readPad(d, r)
    <3>1. PICK d \in {None, "UP", "RIGHT"}, r \in {None, "CROSS", "CIRCLE"} : readPad(d, r)
      BY <2>3
    <3>2. hold.dpad < MaxHold /\ hold.rest < MaxHold
      BY <1>3 DEF NoFonts, Halves
    <3>3. /\ dpad' = readHalf(dpad, d) /\ rest' = readHalf(rest, r)
          /\ hold' = [dpad |-> HeldOn(dpad, d, hold.dpad), rest |-> HeldOn(rest, r, hold.rest)]
      BY <3>1, Zenon DEF readPad
    <3>4. hold'.dpad = HeldOn(dpad, d, hold.dpad) /\ hold'.rest = HeldOn(rest, r, hold.rest)
      BY <3>3
    <3>5. /\ HalfInv(dpad', hold'.dpad) /\ (dpad'.ret <=> hold'.dpad \in Acts)
          /\ hold'.dpad = hold.dpad => ~dpad'.ret
      BY <2>1, <3>2, <3>3, <3>4, HalfStep
    <3>6. /\ HalfInv(rest', hold'.rest) /\ (rest'.ret <=> hold'.rest \in Acts)
          /\ hold'.rest = hold.rest => ~rest'.ret
      BY <2>1, <3>2, <3>3, <3>4, HalfStep
    <3>7. hold' \in [Halves -> Nat]
      BY <3>3, <3>4, <3>5, <3>6 DEF Halves, HalfInv
    <3> QED BY <3>5, <3>6, <3>7 DEF PadInv, InTime
  <2> QED BY <1>3, <2>2, <2>3 DEF NoFonts
<1> QED
  BY <1>1, <1>2, <1>3 DEF Next, Boot, Callback, Menu, switch_callback, margin_callback,
     plugin_callback, Link, vercheck_callback, VersionRead, OfferAnswered, InCheck, call_callback,
     Worked, OpenOptions, MoveSelection, Left, CrossOrRight, Circle, Write, Unload, Pressed,
     Calling, padVars, vars

\* A button acts at the frames it is due and at no others, however long the waits are,
\* and whatever the other half of the pad does (readPad).
THEOREM AlwaysRepeatsInTime == Spec => RepeatsInTime
<1>1. Init => PadInv
  BY HalfReleased DEF Init, PadInv, NotHeld, Halves
<1>2. PadInv /\ [Next]_vars => PadInv'
  BY PadNext
<1>3. PadInv /\ [Next]_vars => [InTime]_<<dpad, rest, hold>>
  BY PadNext DEF padVars
<1> QED BY <1>1, <1>2, <1>3, PTL DEF Spec, RepeatsInTime, InTime
=============================================================================
