--------------------------- MODULE ArtOptionsProps ---------------------------
(* What is claimed of the options, of the plugin they choose, and of the pad. *)
EXTENDS ArtOptions

Kind(i) ==
  CASE callback[i] \in Switches \cup Calls -> {0, 1}
    [] callback[i] \in Margins -> 0 .. MaxMargin
    [] OTHER -> Nat

Shown == pc \in {"main", "options", "save"}

\* The program is somewhere it can be, and what the options menu draws is a choice the
\* option has: no selection from a file or a button is past the names of the plugins
\* or the limit of a margin.
TypeOK ==
  /\ pc \in {"off", "no fonts", "left", "callback", "link", "check", "offer", "work", "main",
             "options", "save"}
  /\ stage \in {"boot", "menu"} /\ at \in Options /\ sprx \in 0 .. Plugins /\ vsh \in 0 .. Plugins
  /\ callback \in Tables /\ fonts \in BOOLEAN /\ present \in Installs
  /\ due \subseteq Options /\ hold \in [Halves -> Nat]
  /\ Shown => Draw_OptionsMenu /\ \A i \in Options : selections[i] \in Kind(i)

\* The plugin that is shown is the one linked to the place Start loads it from, and
\* what is loaded is a plugin that is there.
ShownIsLinked ==
  /\ Shown /\ selections[PluginOption] # 0 =>
       sprx = IF selections[PluginOption] \in present THEN selections[PluginOption] ELSE 0
  /\ vsh # 0 => vsh \in present

\* What is shown is in force: the margins and switches are the ones in use, and
\* Start loads the plugin that is shown, however often it was changed and whatever
\* step the console was turned off at before (plugin_callback).
ShownIsInForce ==
  /\ Shown => \A i \in Options : Drawn(i, inForce[i]) = Drawn(i, selections[i])
  /\ ShownIsLinked

\* The options a start begins with are the ones saved last, in order, as far as the
\* file goes; behind that they are as in a first start.  Only the one the file ends in
\* may be another: what is left of its number, or the value of the one before it.  And
\* no update and no clearing begins that nobody asked for, but for one whose name ended
\* a file (SaveOptions, LoadOptions, update_callback, clearcache_callback).
OptionsKept ==
  /\ pc = "callback" /\ stage = "boot" /\ at = 1 =>
       \E k \in Options :
         /\ \A i \in Options : i < k => selections[i] = saved[i]
         /\ \A i \in Options : i > k => selections[i] = Default[i]
         /\ selections[k] \in {saved[k], Default[k]} \cup Shorter(saved[k])
                                \cup (IF k = 1 THEN {0} ELSE {saved[k - 1]})
  /\ pc = "work" => at \in due

\* The frames a button that is held acts at: the first that counts, and from each one
\* the one behind the wait that is due after the frames waited until then.
NextAct(a) == [frame |-> a.frame + Wait(a.waited) + 1, waited |-> a.waited + Wait(a.waited)]
Acts ==
  LET act[k \in 0 .. MaxHold] ==
        IF k = 0 THEN [frame |-> 1, waited |-> 0] ELSE NextAct(act[k - 1])
  IN  {act[k].frame : k \in 0 .. MaxHold}

\* A button acts at the frames it is due and at no others, whatever the other half of
\* the pad does and however often the button was let go before, or the pad unplugged
\* (readPad).
RepeatsInTime ==
  [][ /\ hold'.dpad # hold.dpad => (dpad'.ret <=> hold'.dpad \in Acts)
      /\ hold'.rest # hold.rest => (rest'.ret <=> hold'.rest \in Acts)
      /\ hold' = hold => ~dpad'.ret /\ ~rest'.ret ]_<<dpad, rest, hold>>
=============================================================================
