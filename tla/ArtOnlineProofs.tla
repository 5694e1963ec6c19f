-------------------------- MODULE ArtOnlineProofs --------------------------
(* What an update of the local lists leaves behind, who draws, and why the  *)
(* online list may be read through a null pointer, for any lists: the       *)
(* theorems about ArtOnline.                                                *)
EXTENDS ArtOnlineProps, TLAPS

(***************************************************************************)
(* The type invariant in parts, each of which a step keeps for reasons of  *)
(* its own.                                                                *)
(***************************************************************************)
NumberType == msg_dialog_action \in 0 .. 2 /\ please_wait \in -1 .. 1
FlagType == refresh \in BOOLEAN /\ screen \in BOOLEAN
DiskType == disk \in [Files -> [amount : {"none", "empty", "part", "whole"}, old : BOOLEAN]]
UserlistType == userlist \in [Names -> {"none", "outdated", "torn", "current"}]
OptionsType == saved \in [Calls -> BOOLEAN] /\ selections \in [Calls -> BOOLEAN]
PlaceType ==
  /\ stage \in {"off", "unzip", "update", "clear", "menu"}
  /\ pc \in {"idle", "fetch", "get", "read", "stop", "join", "open", "unzip", "write",
             "installed", "clear", "cleaned", "crashed"}
  /\ file \in Files
ListType ==
  /\ todo \subseteq Names /\ entry \in Names \cup {NoEntry}
  /\ listed \subseteq Served /\ loaded \subseteq listed
  /\ cut \subseteq Files /\ broken \subseteq Names

(***************************************************************************)
(* Where main() is, by the operation that runs: each is called in the      *)
(* stages it belongs to, only the downloads of the online list and of its  *)
(* codes are read, and a game's codes are asked for only while the game is *)
(* listed: the lists are emptied before the online list is fetched.        *)
(***************************************************************************)
Unpacking == pc \in {"open", "unzip", "write", "installed"}

ControlInv ==
  /\ stage = "off" => pc = "idle"
  /\ pc \in {"fetch", "get"} => stage = "menu" \/ (stage = "update" /\ file = Zip)
  /\ pc \in {"read", "stop", "join", "crashed"} => stage = "menu" /\ file # Zip
  /\ pc \in {"stop", "join", "crashed"} => file = Games
  /\ Unpacking => stage \in {"unzip", "update", "menu"}
  /\ pc \in {"clear", "cleaned"} => stage \in {"clear", "menu"}
  /\ pc = "write" => entry \in Names

ListInv ==
  pc \in {"fetch", "get", "read"} => /\ file = Games => loaded = {}
                                     /\ file \in Served => file \in listed

Typed == TypeOK /\ ControlInv /\ ListInv

(***************************************************************************)
(* There is a zip only while it is downloaded or unpacked, and from the    *)
(* end of a run to the first step of the next. A list that is torn, and    *)
(* not for an error or a full disk, is one the extraction has still to     *)
(* come to: while it runs, or in the next run, for which the whole zip is  *)
(* there.                                                                  *)
(***************************************************************************)
Unfinished == {t \in Names : userlist[t] = "torn" /\ t \notin broken}

ZipInv ==
  /\ disk[Zip] # NoFile =>
       stage \in {"off", "unzip"} \/ Unpacking \/ (pc = "get" /\ file = Zip)
  /\ pc \in {"unzip", "write", "installed"} => disk[Zip].amount = "whole"
  /\ pc = "get" => disk[file].amount \in {"empty", "part"}
  /\ Unfinished # {} => disk[Zip].amount = "whole"
  /\ pc = "unzip" => Unfinished \subseteq todo
  /\ pc = "write" => Unfinished \subseteq todo \cup {entry}
  /\ pc = "installed" => Unfinished = {}

(***************************************************************************)
(* The loading screen's thread runs from the call of init_loading_screen   *)
(* until it has found please_wait changed, for which stop_loading_screen   *)
(* waits.                                                                  *)
(***************************************************************************)
ScreenInv ==
  screen => /\ file = Games
            /\ \/ please_wait = 1 /\ pc \in {"fetch", "get", "read", "stop", "crashed"}
               \/ please_wait = 0 /\ pc = "join"

(***************************************************************************)
(* A file is empty while it is downloaded, and afterwards only if that was *)
(* cut off or fell short; and what is gone when it is read was there       *)
(* before.                                                                 *)
(***************************************************************************)
NullInv ==
  /\ \A f \in Files : disk[f].amount = "none" => disk[f] = NoFile
  /\ \A f \in Files : disk[f].amount = "empty" => f \in cut \/ (pc = "get" /\ file = f)
  /\ pc = "get" => disk[file] # NoFile
  /\ pc = "read" /\ file = Games /\ disk[Games] = NoFile => refresh
  /\ NullReadCause

-----------------------------------------------------------------------------
(* The type, and where main() is                                           *)

\* The cached files have different names, as the paths in common.h have.
LEMMA GamesNotZip == Games \in Files /\ Zip \in Files /\ Served \subseteq Files /\ Games # Zip
BY DEF Files, Games, Zip

\* The end of an operation leads to the next stage of main(), and none leads back to the
\* start.
LEMMA ReturnStage ==
  ASSUME Return, stage \in {"unzip", "update", "clear", "menu"}
  PROVE  /\ pc' = "idle" /\ stage' \in {"update", "clear", "menu"}
         /\ stage = "menu" => stage' = "menu"
PROOF BY DEF Return, NextStage

\* The parts are the type invariant.
LEMMA Parts == TypeOK <=>
  NumberType /\ FlagType /\ DiskType /\ UserlistType /\ OptionsType /\ PlaceType /\ ListType
BY Zenon DEF TypeOK, NumberType, FlagType, DiskType, UserlistType, OptionsType, PlaceType,
   ListType

\* Where the callers of http_download go on: they read the file, hide the loading screen,
\* unpack the zip, or are done.
LEMMA DownloadedCases ==
  ASSUME NEW ok \in BOOLEAN, Downloaded(ok), file \in Files
  PROVE  /\ UNCHANGED todo
         /\ \/ Return /\ file # Games
            \/ UNCHANGED stage /\ pc' = "read" /\ file # Zip
            \/ UNCHANGED stage /\ pc' = "stop" /\ file = Games
            \/ UNCHANGED stage /\ pc' = "open" /\ file = Zip
<1>1. CASE file = Games
  BY <1>1, GamesNotZip DEF Downloaded
<1>2. CASE file = Zip
  BY <1>2, GamesNotZip, ServedAssumption DEF Downloaded
<1>3. CASE file \in Served
  BY <1>3, GamesNotZip, ServedAssumption DEF Downloaded
<1> QED
  BY <1>1, <1>2, <1>3 DEF Files

\* The online list's download never ends the operation: the loading screen is still to be
\* hidden.
LEMMA DownloadedGames ==
  ASSUME NEW ok \in BOOLEAN, Downloaded(ok), file = Games
  PROVE  pc' \in {"read", "stop"}
BY DownloadedCases, GamesNotZip

\* The zip that has been downloaded is unpacked.
LEMMA DownloadedZip ==
  ASSUME Downloaded(TRUE), file = Zip
  PROVE  pc' = "open"
<1>1. Zip # Games /\ Zip \notin Served
  BY GamesNotZip, ServedAssumption
<1> QED
  BY <1>1 DEF Downloaded

\* Storing one file of the cache leaves the others alone.
LEMMA DiskEntry ==
  ASSUME DiskType, NEW f \in Files, NEW a \in {"none", "empty", "part", "whole"}
  PROVE  /\ [disk EXCEPT ![f] = Fresh(a)][f] = Fresh(a)
         /\ \A g \in Files \ {f} : [disk EXCEPT ![f] = Fresh(a)][g] = disk[g]
BY DEF DiskType

\* Every step keeps the types of the numbers the threads and the dialogs share.
LEMMA NumberTypeNext == NumberType /\ [Next]_vars => NumberType'
<1> SUFFICES ASSUME NumberType, [Next]_vars PROVE NumberType'
  OBVIOUS
<1> USE DEF NumberType, vars, diskVars, taskVars, zipVars, listVars, screenVars, history
<1>1. CASE Stop
  BY <1>1 DEF Stop
<1>2. CASE loading_screen_thread
  BY <1>2 DEF loading_screen_thread
<1>3. CASE stop_loading_screen
  BY <1>3 DEF stop_loading_screen
<1>4. CASE ReloadOnlineCheats
  BY <1>4 DEF ReloadOnlineCheats, init_loading_screen
<1>5. CASE msg_dialog_event
  BY <1>5 DEF msg_dialog_event
<1>6. CASE Extracted
  BY <1>6 DEF Extracted, show_dialog
<1>7. CASE Cleared
  BY <1>7 DEF Cleared, show_dialog
<1>8. CASE UNCHANGED <<msg_dialog_action, please_wait>>
  BY <1>8
<1> QED
  BY <1>1, <1>2, <1>3, <1>4, <1>5, <1>6, <1>7, <1>8, Zenon DEF Next, Boot, BootStep, DayPasses,
     join_loading_screen, DownloadNotBegun, DownloadBegins, DownloadGoesOn, DownloadSucceeds,
     DownloadFallsShort, DownloadFails, ReadOnlineList, ReadOnlineNCL, ChooseOnlineGame,
     update_callback, UnzipAtStart, OpenZip, EndEntry, EndEntryOnFullDisk, EntryNotRead,
     InstalledSeen, SkipEntry, BeginEntry, FileNotOpened, clearcache_callback, ClearedSeen,
     SaveOptions, ClearFile

\* Every step keeps the types of the flags.
LEMMA FlagTypeNext == FlagType /\ [Next]_vars => FlagType'
<1> SUFFICES ASSUME FlagType, [Next]_vars PROVE FlagType'
  OBVIOUS
<1> USE DEF FlagType, vars, diskVars, taskVars, zipVars, listVars, screenVars, history
<1>1. CASE Stop
  BY <1>1 DEF Stop
<1>2. CASE loading_screen_thread
  BY <1>2 DEF loading_screen_thread
<1>3. CASE ReloadOnlineCheats
  BY <1>3 DEF ReloadOnlineCheats, init_loading_screen, Fetch
<1>4. CASE update_callback
  BY <1>4 DEF update_callback, Fetch
<1>5. ASSUME NEW t \in Served, ChooseOnlineGame(t) PROVE FlagType'
  BY <1>5 DEF ChooseOnlineGame, Fetch
<1>6. CASE UNCHANGED <<refresh, screen>>
  BY <1>6
<1> QED
  BY <1>1, <1>2, <1>3, <1>4, <1>5, <1>6, Zenon DEF Next, Boot, BootStep, DayPasses,
     stop_loading_screen, join_loading_screen, DownloadNotBegun, DownloadBegins, DownloadGoesOn,
     DownloadSucceeds, DownloadFallsShort, DownloadFails, ReadOnlineList, ReadOnlineNCL,
     msg_dialog_event, UnzipAtStart, OpenZip, EndEntry, EndEntryOnFullDisk, EntryNotRead,
     Extracted, InstalledSeen, SkipEntry, BeginEntry, FileNotOpened, clearcache_callback,
     Cleared, ClearedSeen, SaveOptions, ClearFile

\* Every step keeps the type of the cache.
LEMMA DiskTypeNext == DiskType /\ PlaceType /\ [Next]_vars => DiskType'
<1> SUFFICES ASSUME DiskType, PlaceType, [Next]_vars PROVE DiskType'
  OBVIOUS
<1> USE DEF DiskType, vars, diskVars, taskVars, zipVars, listVars, screenVars, history
<1>1. CASE DayPasses
  BY <1>1 DEF DayPasses
<1>2. CASE DownloadBegins \/ DownloadGoesOn \/ DownloadSucceeds \/ DownloadFails
  <2>1. NoFile = Fresh("none")
    BY DEF NoFile, Fresh
  <2>2. PICK a \in {"none", "empty", "part", "whole"} : disk' = [disk EXCEPT ![file] = Fresh(a)]
    BY <1>2, <2>1 DEF DownloadBegins, DownloadGoesOn, DownloadSucceeds, DownloadFails
  <2>3. Fresh(a) \in [amount : {"none", "empty", "part", "whole"}, old : BOOLEAN]
    BY DEF Fresh
  <2> QED
    BY <2>2, <2>3
<1>3. ASSUME Unpacked PROVE DiskType'
  BY <1>3 DEF Unpacked, RemoveZip, NoFile
<1>4. CASE OpenZip
  BY <1>4, <1>3 DEF OpenZip
<1>5. CASE EntryNotRead \/ InstalledSeen
  BY <1>5, <1>3, Zenon DEF EntryNotRead, InstalledSeen
<1>6. CASE \E t \in Names : FileNotOpened(t)
  BY <1>6, <1>3, Zenon DEF FileNotOpened
<1>7. CASE \E f \in Files : ClearFile(f)
  BY <1>7 DEF ClearFile, NoFile
<1>8. CASE UNCHANGED disk
  BY <1>8
<1> QED
  BY <1>1, <1>2, <1>4, <1>5, <1>6, <1>7, <1>8, Zenon DEF Next, Boot, BootStep,
     stop_loading_screen, join_loading_screen, loading_screen_thread, DownloadNotBegun,
     DownloadFallsShort, Stop, ReloadOnlineCheats, ChooseOnlineGame, ReadOnlineList,
     ReadOnlineNCL, msg_dialog_event, UnzipAtStart, EndEntry, EndEntryOnFullDisk, Extracted,
     SkipEntry, BeginEntry, ClearedSeen, Cleared, clearcache_callback, update_callback,
     SaveOptions

\* Every step keeps the type of the folder of local lists.
LEMMA UserlistTypeNext == UserlistType /\ [Next]_vars => UserlistType'
<1> SUFFICES ASSUME UserlistType, [Next]_vars PROVE UserlistType'
  OBVIOUS
<1> USE DEF UserlistType, vars, diskVars, taskVars, zipVars, listVars, screenVars, history
<1>1. CASE DownloadBegins
  BY <1>1 DEF DownloadBegins
<1>2. CASE EndEntry
  BY <1>2 DEF EndEntry
<1>3. CASE \E t \in Names : BeginEntry(t)
  BY <1>3 DEF BeginEntry
<1>8. CASE UNCHANGED userlist
  BY <1>8
<1> QED
  BY <1>1, <1>2, <1>3, <1>8, Zenon DEF Next, Boot, BootStep, stop_loading_screen,
     join_loading_screen, loading_screen_thread, DownloadNotBegun, DownloadGoesOn,
     DownloadSucceeds, DownloadFallsShort, DownloadFails, Stop, DayPasses, ReloadOnlineCheats,
     ChooseOnlineGame, EndEntryOnFullDisk, ReadOnlineList, ReadOnlineNCL, msg_dialog_event,
     UnzipAtStart, OpenZip, Extracted, SkipEntry, EntryNotRead, InstalledSeen, FileNotOpened,
     ClearedSeen, Cleared, clearcache_callback, update_callback, SaveOptions, ClearFile

\* Every step keeps the types of the options and of their file.
LEMMA OptionsTypeNext == OptionsType /\ [Next]_vars => OptionsType'
<1> SUFFICES ASSUME OptionsType, [Next]_vars PROVE OptionsType'
  OBVIOUS
<1> USE DEF OptionsType, vars, diskVars, taskVars, zipVars, listVars, screenVars, history
<1>1. CASE Stop
  BY <1>1 DEF Stop, AllOff
<1>2. CASE Boot
  BY <1>2 DEF Boot, LoadOptions
<1>3. ASSUME NEW ok \in BOOLEAN, Downloaded(ok) PROVE selections' \in [Calls -> BOOLEAN]
  <2>1. selections' \in {selections, [selections EXCEPT !["update"] = FALSE]}
    BY <1>3 DEF Downloaded
  <2> QED
    BY <2>1
<1>4. ASSUME Unpacked PROVE selections' \in [Calls -> BOOLEAN]
  BY <1>4 DEF Unpacked
<1>5. CASE DownloadNotBegun \/ DownloadSucceeds \/ DownloadFallsShort \/ DownloadFails
  <2>1. selections' \in [Calls -> BOOLEAN]
    BY <1>5, <1>3, Zenon DEF DownloadNotBegun, DownloadSucceeds, DownloadFallsShort,
       DownloadFails
  <2>2. UNCHANGED saved
    BY <1>5, Zenon DEF DownloadNotBegun, DownloadSucceeds, DownloadFallsShort, DownloadFails
  <2> QED
    BY <2>1, <2>2, Zenon
<1>6. CASE OpenZip
  BY <1>6, <1>4 DEF OpenZip
<1>7. CASE update_callback
  BY <1>7 DEF update_callback
<1>8. CASE EntryNotRead \/ InstalledSeen
  BY <1>8, <1>4, Zenon DEF EntryNotRead, InstalledSeen
<1>9. CASE \E t \in Names : FileNotOpened(t)
  BY <1>9, <1>4, Zenon DEF FileNotOpened
<1>10. CASE clearcache_callback
  BY <1>10 DEF clearcache_callback
<1>11. CASE Cleared
  BY <1>11 DEF Cleared
<1>12. CASE SaveOptions
  BY <1>12 DEF SaveOptions
<1>13. CASE UNCHANGED <<selections, saved>>
  BY <1>13
<1> QED
  BY <1>1, <1>2, <1>5, <1>6, <1>7, <1>8, <1>9, <1>10, <1>11, <1>12, <1>13, Zenon DEF Next,
     BootStep, DayPasses, stop_loading_screen, join_loading_screen, loading_screen_thread,
     DownloadBegins, DownloadGoesOn, ReloadOnlineCheats, ChooseOnlineGame, ReadOnlineList,
     ReadOnlineNCL, msg_dialog_event, UnzipAtStart, EndEntry, EndEntryOnFullDisk, Extracted,
     SkipEntry, BeginEntry, ClearedSeen, ClearFile

\* Every step keeps the types of the lists: what is loaded was listed, which takes
\* ListInv, since the online list is read anew.
LEMMA ListTypeNext == ListType /\ ListInv /\ PlaceType /\ ControlInv /\ [Next]_vars => ListType'
<1> SUFFICES ASSUME ListType, ListInv, PlaceType, ControlInv, [Next]_vars PROVE ListType'
  OBVIOUS
<1> USE DEF ListType, PlaceType, vars, diskVars, taskVars, zipVars, listVars, screenVars, history
<1>1. CASE Stop
  BY <1>1 DEF Stop
<1>2. CASE DownloadNotBegun \/ DownloadSucceeds \/ DownloadFallsShort \/ DownloadFails
  BY <1>2, DownloadedCases DEF DownloadNotBegun, DownloadSucceeds, DownloadFallsShort,
     DownloadFails
<1>3. CASE DownloadBegins
  BY <1>3 DEF DownloadBegins
<1>4. CASE ReloadOnlineCheats
  BY <1>4 DEF ReloadOnlineCheats
<1>5. CASE ReadOnlineList
  <2>1. loaded = {}
    BY <1>5 DEF ReadOnlineList, ListInv
  <2>2. listed' \subseteq Served
    BY <1>5 DEF ReadOnlineList
  <2> QED
    BY <1>5, <2>1, <2>2 DEF ReadOnlineList
<1>6. CASE ReadOnlineNCL
  <2>1. file \in listed
    BY <1>6 DEF ReadOnlineNCL, ListInv
  <2>2. loaded' \in {loaded, loaded \cup {file}}
    BY <1>6 DEF ReadOnlineNCL
  <2> QED
    BY <1>6, <2>1, <2>2 DEF ReadOnlineNCL
<1>7. CASE OpenZip
  BY <1>7 DEF OpenZip
<1>8. CASE EndEntry \/ EndEntryOnFullDisk
  BY <1>8 DEF EndEntry, EndEntryOnFullDisk, ControlInv
<1>9. CASE EntryNotRead
  BY <1>9 DEF EntryNotRead, ControlInv
<1>10. CASE \E t \in Names : SkipEntry(t)
  BY <1>10 DEF SkipEntry
<1>11. CASE \E t \in Names : BeginEntry(t)
  BY <1>11 DEF BeginEntry
<1>12. CASE \E t \in Names : FileNotOpened(t)
  BY <1>12 DEF FileNotOpened
<1>13. CASE UNCHANGED <<zipVars, listVars, cut, broken>>
  BY <1>13
<1> QED
  BY <1>1, <1>2, <1>3, <1>4, <1>5, <1>6, <1>7, <1>8, <1>9, <1>10, <1>11, <1>12, <1>13, Zenon
     DEF Next, Boot, BootStep, DayPasses, stop_loading_screen, join_loading_screen,
     loading_screen_thread, DownloadGoesOn, ChooseOnlineGame, msg_dialog_event, UnzipAtStart,
     Extracted, InstalledSeen, ClearedSeen, Cleared, clearcache_callback, update_callback,
     SaveOptions, ClearFile

\* Every step keeps ListInv: only a listed game is asked for.
LEMMA ListInvNext == ListType /\ ListInv /\ PlaceType /\ ControlInv /\ [Next]_vars => ListInv'
<1> SUFFICES ASSUME ListInv, PlaceType, ControlInv, [Next]_vars PROVE ListInv'
  OBVIOUS
<1> USE DEF ListInv, vars, diskVars, taskVars, zipVars, listVars, screenVars, history
<1>0. Games \notin Served /\ Zip \notin Served /\ Games # Zip
  BY ServedAssumption, GamesNotZip
<1>1. CASE pc' \notin {"fetch", "get", "read"}
  BY <1>1
<1>2. CASE ReloadOnlineCheats
  BY <1>0, <1>2 DEF ReloadOnlineCheats, Fetch
<1>3. ASSUME NEW t \in Served, ChooseOnlineGame(t) PROVE ListInv'
  BY <1>0, <1>3 DEF ChooseOnlineGame, Fetch
<1>4. CASE update_callback
  BY <1>0, <1>4 DEF update_callback, Fetch
<1>5. CASE pc \in {"fetch", "get", "read"} /\ UNCHANGED <<file, listVars>>
  BY <1>5
<1> QED
  <2> USE <1>1, <1>2, <1>3, <1>4, <1>5
  <2>1. CASE \/ DownloadNotBegun \/ DownloadBegins \/ DownloadGoesOn \/ DownloadSucceeds
             \/ DownloadFallsShort \/ DownloadFails
    BY <2>1, Zenon DEF DownloadNotBegun, DownloadBegins, DownloadGoesOn, DownloadSucceeds,
       DownloadFallsShort, DownloadFails
  <2>2. CASE ReadOnlineList
    BY <2>2 DEF ReadOnlineList
  <2>3. CASE stop_loading_screen \/ OpenZip
    BY <2>3 DEF stop_loading_screen, OpenZip, Return, Unpacked
  <2>4. CASE clearcache_callback
    BY <2>4 DEF clearcache_callback, Return
  <2>5. CASE UNCHANGED <<pc, file, listVars>>
    BY <2>5, <1>5
  <2> QED
    BY <2>1, <2>2, <2>3, <2>4, <2>5 DEF Next, Boot, BootStep, DayPasses, join_loading_screen,
       loading_screen_thread, msg_dialog_event, UnzipAtStart, Stop, Extracted, InstalledSeen,
       ClearedSeen, Cleared, SaveOptions, ClearFile, EndEntry, EndEntryOnFullDisk, EntryNotRead,
       SkipEntry, BeginEntry, FileNotOpened, Return, Unpacked, ReadOnlineNCL, show_dialog

\* Every step keeps main() in the stages of what runs.
LEMMA PlaceNext == PlaceType /\ ControlInv /\ ListType /\ [Next]_vars => PlaceType' /\ ControlInv'
<1> SUFFICES ASSUME PlaceType, ControlInv, ListType, [Next]_vars PROVE PlaceType' /\ ControlInv'
  OBVIOUS
<1> USE DEF PlaceType, ControlInv, Unpacking, vars, diskVars, taskVars, zipVars, listVars,
            screenVars, history
<1>0. /\ Games \notin Served /\ Zip \notin Served /\ Games # Zip
      /\ Games \in Files /\ Zip \in Files /\ Served \subseteq Files
  BY ServedAssumption, GamesNotZip
<1>1. CASE Boot
  BY <1>1 DEF Boot
<1>2. CASE Stop
  BY <1>0, <1>2 DEF Stop
<1>3. CASE Return /\ UNCHANGED file /\ stage # "off"
  BY <1>3, ReturnStage
<1>4. CASE DownloadNotBegun \/ DownloadSucceeds \/ DownloadFallsShort \/ DownloadFails
  <2>1. pc \in {"fetch", "get"} /\ UNCHANGED file
    BY <1>4 DEF DownloadNotBegun, DownloadSucceeds, DownloadFallsShort, DownloadFails
  <2>2. \/ Return
        \/ UNCHANGED stage /\ pc' = "read" /\ file # Zip
        \/ UNCHANGED stage /\ pc' = "stop" /\ file = Games
        \/ UNCHANGED stage /\ pc' = "open" /\ file = Zip
    BY <1>4, DownloadedCases, Zenon DEF DownloadNotBegun, DownloadSucceeds, DownloadFallsShort,
       DownloadFails
  <2> QED
    BY <1>0, <1>3, <2>1, <2>2
<1>5. CASE DownloadBegins
  BY <1>5 DEF DownloadBegins
<1>6. CASE ReloadOnlineCheats
  BY <1>0, <1>6 DEF ReloadOnlineCheats, Fetch
<1>7. CASE ReadOnlineList
  BY <1>0, <1>7 DEF ReadOnlineList
<1>8. ASSUME NEW t \in Served, ChooseOnlineGame(t) PROVE PlaceType' /\ ControlInv'
  BY <1>0, <1>8 DEF ChooseOnlineGame, Fetch
<1>9. CASE update_callback
  BY <1>0, <1>9 DEF update_callback, Fetch, Called
<1>10. CASE UnzipAtStart
  BY <1>10 DEF UnzipAtStart
<1>11. CASE stop_loading_screen
  BY <1>3, <1>11 DEF stop_loading_screen
<1>12. CASE OpenZip
  BY <1>3, <1>12 DEF OpenZip, Unpacked
<1>13. CASE \E t \in Names : BeginEntry(t)
  BY <1>13 DEF BeginEntry
<1>14. CASE EndEntry \/ EndEntryOnFullDisk
  BY <1>14 DEF EndEntry, EndEntryOnFullDisk
<1>15. CASE Extracted
  BY <1>15 DEF Extracted, show_dialog
<1>16. CASE clearcache_callback
  BY <1>3, <1>16 DEF clearcache_callback, Called
<1>17. CASE Cleared
  BY <1>17 DEF Cleared, show_dialog
<1>18. CASE UNCHANGED <<stage, pc, file>> /\ (pc = "write" => UNCHANGED entry)
  BY <1>18
<1>19. ASSUME \/ BootStep \/ join_loading_screen \/ ReadOnlineNCL \/ EntryNotRead
              \/ InstalledSeen \/ ClearedSeen
              \/ \E t \in Names : FileNotOpened(t)
       PROVE PlaceType' /\ ControlInv'
  <2>1. Return /\ UNCHANGED file /\ stage # "off"
    BY <1>19 DEF BootStep, join_loading_screen, ReadOnlineNCL, EntryNotRead, InstalledSeen,
       ClearedSeen, FileNotOpened, Unpacked, Calls
  <2> QED
    BY <2>1, <1>3
<1>20. ASSUME \/ DayPasses \/ loading_screen_thread \/ msg_dialog_event \/ DownloadGoesOn
              \/ SaveOptions
              \/ \E t \in Names : SkipEntry(t)
              \/ \E f \in Files : ClearFile(f)
       PROVE PlaceType' /\ ControlInv'
  BY <1>18, <1>20 DEF DayPasses, loading_screen_thread, msg_dialog_event, DownloadGoesOn,
     SaveOptions, SkipEntry, ClearFile
<1> QED
  BY <1>1, <1>2, <1>4, <1>5, <1>6, <1>7, <1>8, <1>9, <1>10, <1>11, <1>12, <1>13, <1>14, <1>15,
     <1>16, <1>17, <1>18, <1>19, <1>20, Zenon DEF Next

\* The program starts with every variable of its type, and off.
LEMMA TypedInit == Init => Typed
<1> SUFFICES ASSUME Init PROVE Typed
  OBVIOUS
<1> USE DEF Init
<1>1. NumberType /\ FlagType
  <2>1. NumberType
    BY DEF NumberType
  <2>2. FlagType
    BY DEF FlagType
  <2> QED
    BY <2>1, <2>2
<1>2. DiskType
  BY DEF DiskType, NoFile
<1>3. UserlistType
  BY DEF UserlistType
<1>4. OptionsType
  BY DEF OptionsType, AllOff
<1>5. PlaceType
  BY GamesNotZip DEF PlaceType
<1>6. ListType
  BY DEF ListType
<1>7. ControlInv /\ ListInv
  BY DEF ControlInv, ListInv, Unpacking
<1> QED
  BY <1>1, <1>2, <1>3, <1>4, <1>5, <1>6, <1>7, Parts, Zenon DEF Typed

\* Every step keeps the types and the places of the operations.
LEMMA TypedNext == Typed /\ [Next]_vars => Typed'
<1> SUFFICES ASSUME Typed, [Next]_vars PROVE Typed'
  OBVIOUS
<1>1. /\ NumberType /\ FlagType /\ DiskType /\ UserlistType /\ OptionsType /\ PlaceType
      /\ ListType /\ ControlInv /\ ListInv
  BY Parts, Zenon DEF Typed
<1>2. /\ NumberType' /\ FlagType' /\ DiskType' /\ UserlistType' /\ OptionsType' /\ PlaceType'
      /\ ListType' /\ ControlInv' /\ ListInv'
  BY <1>1, NumberTypeNext, FlagTypeNext, DiskTypeNext, UserlistTypeNext, OptionsTypeNext,
     PlaceNext, ListTypeNext, ListInvNext, Zenon
<1>3. TypeOK'
  BY <1>2, Zenon DEF TypeOK, NumberType, FlagType, DiskType, UserlistType, OptionsType,
     PlaceType, ListType
<1> QED
  BY <1>2, <1>3 DEF Typed

\* Every variable has its type, and an operation runs only in its stages (main.c).
THEOREM TypedAlways == Spec => []Typed
BY TypedInit, TypedNext, PTL DEF Spec

\* TypeOK of the run "online", for any lists.
THEOREM TypeCorrect == Spec => []TypeOK
<1>1. Typed => TypeOK
  BY DEF Typed
<1> QED
  BY <1>1, TypedAlways, PTL

-----------------------------------------------------------------------------
(* One drawer                                                              *)

\* Every step keeps ScreenInv: the main thread goes on only when the loading screen's has
\* ended.
LEMMA ScreenNext == ScreenInv /\ ControlInv /\ [Next]_vars => ScreenInv'
<1> SUFFICES ASSUME ScreenInv, ControlInv, [Next]_vars PROVE ScreenInv'
  OBVIOUS
<1> USE DEF ScreenInv, vars, diskVars, taskVars, zipVars, listVars, screenVars, history
<1>1. CASE Stop \/ loading_screen_thread
  BY <1>1, Zenon DEF Stop, loading_screen_thread
<1>2. CASE stop_loading_screen
  BY <1>2 DEF stop_loading_screen
<1>3. CASE join_loading_screen
  BY <1>3 DEF join_loading_screen
<1>5. CASE DownloadNotBegun \/ DownloadSucceeds \/ DownloadFallsShort \/ DownloadFails
  <2>1. file = Games => pc' \in {"read", "stop"}
    BY <1>5, DownloadedGames, Zenon DEF DownloadNotBegun, DownloadSucceeds, DownloadFallsShort,
       DownloadFails
  <2>2. pc \in {"fetch", "get"} /\ UNCHANGED <<file, please_wait, screen>>
    BY <1>5, Zenon DEF DownloadNotBegun, DownloadSucceeds, DownloadFallsShort, DownloadFails
  <2> QED
    BY <2>1, <2>2
<1>6. CASE DownloadBegins
  BY <1>6 DEF DownloadBegins
<1>7. CASE ReloadOnlineCheats
  BY <1>7 DEF ReloadOnlineCheats, init_loading_screen, Fetch
<1>8. CASE ReadOnlineList
  BY <1>8 DEF ReadOnlineList
<1>9. CASE ~screen /\ UNCHANGED screen
  BY <1>9
<1>10. CASE ReadOnlineNCL
  BY <1>9, <1>10, ServedAssumption DEF ReadOnlineNCL
<1>11. CASE UNCHANGED <<pc, file, screenVars>>
  BY <1>11
<1>12. CASE /\ pc \in {"idle", "open", "unzip", "write", "installed", "clear", "cleaned"}
            /\ UNCHANGED screen
  BY <1>9, <1>12
<1>13. ASSUME \/ Boot \/ BootStep \/ update_callback \/ UnzipAtStart \/ OpenZip
              \/ EndEntry \/ EndEntryOnFullDisk
              \/ EntryNotRead \/ Extracted
              \/ InstalledSeen \/ clearcache_callback \/ Cleared \/ ClearedSeen
              \/ \E t \in Served : ChooseOnlineGame(t)
              \/ \E t \in Names : BeginEntry(t) \/ FileNotOpened(t)
       PROVE ScreenInv'
  BY <1>12, <1>13 DEF ControlInv, Boot, BootStep, update_callback, UnzipAtStart, OpenZip,
     EndEntry, EndEntryOnFullDisk, EntryNotRead, Extracted,
     InstalledSeen, clearcache_callback, Cleared, ClearedSeen, ChooseOnlineGame, BeginEntry,
     FileNotOpened, Called
<1>14. ASSUME \/ DayPasses \/ DownloadGoesOn \/ msg_dialog_event \/ SaveOptions \/ UNCHANGED vars
              \/ \E t \in Names : SkipEntry(t)
              \/ \E f \in Files : ClearFile(f)
       PROVE ScreenInv'
  BY <1>11, <1>14 DEF DayPasses, DownloadGoesOn, msg_dialog_event, SaveOptions, SkipEntry,
     ClearFile
<1> QED
  BY <1>1, <1>2, <1>3, <1>5, <1>6, <1>7, <1>8, <1>10, <1>13, <1>14, Zenon DEF Next

\* While the loading screen's thread draws (draw.c), the main thread is in no dialog,
\* progress bar or menu, whatever the server's list names: stop_loading_screen waits for
\* the thread, and nothing calls init_loading_screen but what calls that.
THEOREM OneDrawerAlways == Spec => []OneDrawer
<1>1. Init => ScreenInv
  BY DEF Init, ScreenInv
<1>2. Typed => ControlInv
  BY DEF Typed
<1>3. ScreenInv => OneDrawer
  BY GamesNotZip DEF ScreenInv, OneDrawer
<1> QED
  BY <1>1, <1>2, <1>3, TypedAlways, ScreenNext, PTL DEF Spec

-----------------------------------------------------------------------------
(* The null pointer                                                        *)

\* Every step keeps NullInv.
LEMMA NullNext == NullInv /\ DiskType /\ PlaceType /\ ControlInv /\ [Next]_vars => NullInv'
<1> SUFFICES ASSUME NullInv, DiskType, PlaceType, ControlInv, [Next]_vars PROVE NullInv'
  OBVIOUS
<1> USE DEF NullInv, NullReadCause, vars, diskVars, taskVars, zipVars, listVars, screenVars,
            history
<1>0. /\ NoFile.amount = "none" /\ NoFile = Fresh("none")
      /\ \A a : Fresh(a).amount = a /\ (a # "none" => Fresh(a) # NoFile)
  BY DEF NoFile, Fresh
<1>1. CASE Stop
  BY <1>1 DEF Stop
<1>2. CASE DayPasses
  <2>1. \A f \in Files : /\ disk'[f].amount = disk[f].amount
                         /\ disk'[f] = NoFile <=> disk[f] = NoFile
    BY <1>2 DEF DayPasses, DiskType, NoFile
  <2> QED
    BY <2>1, <1>2, GamesNotZip DEF DayPasses, PlaceType
<1>3. CASE DownloadNotBegun
  <2>1. file = Games /\ pc' = "read" => refresh
    BY <1>3 DEF DownloadNotBegun, Downloaded
  <2>2. pc' \in {"idle", "read", "stop", "open"}
    BY <1>3, DownloadedCases DEF DownloadNotBegun, PlaceType, Return
  <2> QED
    BY <1>3, <2>1, <2>2 DEF DownloadNotBegun
<1>4. CASE DownloadBegins
  <2>1. disk'[file] = Fresh("empty") /\ \A g \in Files \ {file} : disk'[g] = disk[g]
    BY <1>4, DiskEntry DEF DownloadBegins, PlaceType
  <2> QED
    BY <1>0, <1>4, <2>1 DEF DownloadBegins
<1>5. CASE DownloadGoesOn
  <2>1. disk'[file] = Fresh("part") /\ \A g \in Files \ {file} : disk'[g] = disk[g]
    BY <1>5, DiskEntry DEF DownloadGoesOn, PlaceType
  <2> QED
    BY <1>0, <1>5, <2>1 DEF DownloadGoesOn
<1>6. CASE DownloadSucceeds
  <2>1. disk'[file] = Fresh("whole") /\ \A g \in Files \ {file} : disk'[g] = disk[g]
    BY <1>6, DiskEntry DEF DownloadSucceeds, PlaceType
  <2>2. pc' \in {"idle", "read", "stop", "open"}
    BY <1>6, DownloadedCases DEF DownloadSucceeds, PlaceType, Return
  <2> QED
    BY <1>0, <1>6, <2>1, <2>2 DEF DownloadSucceeds
<1>6a. CASE DownloadFallsShort
  <2>1. pc' \in {"idle", "read", "stop", "open"}
    BY <1>6a, DownloadedCases DEF DownloadFallsShort, PlaceType, Return
  <2> QED
    BY <1>0, <1>6a, <2>1 DEF DownloadFallsShort
<1>7. CASE DownloadFails
  <2>1. disk'[file] = NoFile /\ \A g \in Files \ {file} : disk'[g] = disk[g]
    BY <1>0, <1>7, DiskEntry DEF DownloadFails, PlaceType
  <2>2. pc' \in {"idle", "read", "stop", "open"}
    BY <1>7, DownloadedCases DEF DownloadFails, PlaceType, Return
  <2>3. file = Games /\ pc' = "read" => refresh
    BY <1>7 DEF DownloadFails, Downloaded
  <2> QED
    BY <1>0, <1>7, <2>1, <2>2, <2>3 DEF DownloadFails
<1>8. CASE ReloadOnlineCheats
  BY <1>8 DEF ReloadOnlineCheats, Expired, Fetch
<1>9. CASE ReadOnlineList
  BY <1>9, GamesNotZip DEF ReadOnlineList, Readable, DiskType
<1>10. ASSUME NEW t \in Served, ChooseOnlineGame(t) PROVE NullInv'
  BY <1>10, ServedAssumption DEF ChooseOnlineGame, Fetch
<1>11. ASSUME NEW f \in Files, disk' = [disk EXCEPT ![f] = NoFile], UNCHANGED cut,
              pc \notin {"get", "read", "crashed"}, pc' \notin {"get", "read", "crashed"}
       PROVE NullInv'
  <2>1. disk'[f] = NoFile /\ \A g \in Files \ {f} : disk'[g] = disk[g]
    BY <1>0, <1>11, DiskEntry
  <2> QED
    BY <1>0, <1>11, <2>1
<1>12. CASE UNCHANGED <<disk, cut>> /\ pc' \notin {"get", "read", "crashed"} /\ pc # "get"
  BY <1>12
<1>13. CASE UNCHANGED <<disk, cut, pc, file, refresh>>
  BY <1>13
<1>14. ASSUME \/ OpenZip \/ EntryNotRead \/ InstalledSeen
              \/ \E t \in Names : FileNotOpened(t)
              \/ \E f \in Files : ClearFile(f)
       PROVE NullInv'
  BY <1>14, <1>11, <1>12, GamesNotZip DEF OpenZip, EntryNotRead, InstalledSeen, FileNotOpened,
     ClearFile, Unpacked, RemoveZip, Return
<1>15. ASSUME \/ Boot \/ BootStep \/ ReadOnlineNCL \/ update_callback \/ UnzipAtStart
              \/ EndEntry \/ EndEntryOnFullDisk \/ Extracted
              \/ stop_loading_screen \/ join_loading_screen
              \/ clearcache_callback \/ Cleared \/ ClearedSeen
              \/ \E t \in Names : BeginEntry(t)
       PROVE NullInv'
  BY <1>12, <1>15 DEF ControlInv, Boot, BootStep, ReadOnlineNCL, update_callback, UnzipAtStart,
     EndEntry, EndEntryOnFullDisk, Extracted, stop_loading_screen,
     join_loading_screen, clearcache_callback, Cleared, ClearedSeen, BeginEntry, Return,
     show_dialog, Called, Fetch
<1>16. ASSUME \/ loading_screen_thread \/ msg_dialog_event \/ SaveOptions \/ UNCHANGED vars
              \/ \E t \in Names : SkipEntry(t)
       PROVE NullInv'
  BY <1>13, <1>16 DEF loading_screen_thread, msg_dialog_event, SaveOptions, SkipEntry
<1> QED
  BY <1>1, <1>2, <1>3, <1>4, <1>5, <1>6, <1>6a, <1>7, <1>8, <1>9, <1>10, <1>14, <1>15,
     <1>16, Zenon
     DEF Next

\* ReadOnlineList (codes.c) reads through a null pointer only after a lost list or a cut
\* download, however long the list is in use and whatever else was downloaded.
THEOREM NullReadCauseAlways == Spec => []NullReadCause
<1>1. Init => NullInv
  BY DEF Init, NullInv, NullReadCause, NoFile
<1>2. Typed => DiskType /\ PlaceType /\ ControlInv
  BY Parts, Zenon DEF Typed
<1>3. NullInv => NullReadCause
  BY DEF NullInv
<1> QED
  BY <1>1, <1>2, <1>3, TypedAlways, NullNext, PTL DEF Spec

-----------------------------------------------------------------------------
(* The update                                                              *)

\* No zip is there, and no list is waiting for one.
NoZip == disk[Zip] = NoFile /\ Unfinished = {}

\* Outside an update, and past the first step of main(), there is no zip.
LEMMA NoZipElsewhere ==
  ASSUME ZipInv, stage \notin {"off", "unzip"}, ~Unpacking, ~(pc = "get" /\ file = Zip)
  PROVE  NoZip
BY DEF ZipInv, NoZip, NoFile

\* The end of _unzip_cheat_db removes the zip, whatever came of it.
LEMMA ZipRemoved ==
  ASSUME DiskType, PlaceType, Unpacked, stage # "off"
  PROVE  disk'[Zip] = NoFile /\ Return
BY GamesNotZip DEF DiskType, Unpacked, RemoveZip

\* Every step keeps ZipInv, wherever the console is turned off.
LEMMA ZipNext == ZipInv /\ Typed /\ [Next]_vars => ZipInv'
<1> SUFFICES ASSUME ZipInv, Typed, [Next]_vars PROVE ZipInv'
  OBVIOUS
<1> USE DEF vars, diskVars, taskVars, zipVars, listVars, screenVars, history
<1>0. /\ DiskType /\ PlaceType /\ ControlInv /\ ListType
  BY Parts, Zenon DEF Typed
<1>a. /\ NoFile.amount = "none" /\ NoFile = Fresh("none")
      /\ \A a : Fresh(a).amount = a /\ (a # "none" => Fresh(a) # NoFile)
  BY DEF NoFile, Fresh
\* Where there is no zip, and none is downloaded.
<1>b. ASSUME NoZip, disk'[Zip] = NoFile, UNCHANGED <<userlist, broken>>,
             pc' \notin {"get", "unzip", "write", "installed"}
      PROVE ZipInv'
  BY <1>b DEF NoZip, ZipInv, Unfinished
<1>1. CASE Boot
  <2>1. pc = "idle"
    BY <1>0, <1>1 DEF Boot, ControlInv
  <2> QED
    BY <1>1, <2>1 DEF Boot, ZipInv, Unfinished
<1>2. CASE Stop
  BY <1>2 DEF Stop, ZipInv, Unfinished
<1>3. CASE BootStep
  <2>1. NoZip
    BY <1>3, NoZipElsewhere DEF BootStep, Calls, ZipInv, NoZip, NoFile, Unpacking
  <2> QED
    BY <1>b, <1>3, <2>1 DEF BootStep, Return, NoZip
<1>4. CASE DayPasses
  <2>1. \A f \in Files : disk'[f].amount = disk[f].amount
    BY <1>0, <1>4 DEF DayPasses, DiskType
  <2>2. disk'[Zip] = disk[Zip]
    BY <1>4, GamesNotZip DEF DayPasses
  <2> QED
    BY <1>0, <1>4, <2>1, <2>2, GamesNotZip DEF DayPasses, ZipInv, Unfinished, Unpacking,
       PlaceType
<1>5. CASE UNCHANGED <<disk, userlist, broken, stage, pc, file, todo, entry>>
  BY <1>5 DEF ZipInv, Unfinished, Unpacking
<1>6. CASE \/ stop_loading_screen \/ join_loading_screen \/ DownloadNotBegun \/ ReloadOnlineCheats
           \/ ReadOnlineList \/ ReadOnlineNCL \/ clearcache_callback \/ update_callback
           \/ Cleared \/ ClearedSeen
           \/ \E t \in Served : ChooseOnlineGame(t)
  <2>1. /\ stage \notin {"off", "unzip"} /\ ~Unpacking /\ ~(pc = "get" /\ file = Zip)
    BY <1>0, <1>6 DEF ControlInv, Unpacking, stop_loading_screen, join_loading_screen,
       DownloadNotBegun, ReloadOnlineCheats, ReadOnlineList, ReadOnlineNCL,
       clearcache_callback, update_callback, Cleared, ClearedSeen, ChooseOnlineGame, Called
  <2>2. NoZip
    BY <2>1, NoZipElsewhere
  <2>3. UNCHANGED <<disk, userlist, broken>>
    BY <1>6 DEF stop_loading_screen, join_loading_screen, DownloadNotBegun, ReloadOnlineCheats,
       ReadOnlineList, ReadOnlineNCL,
       clearcache_callback, update_callback, Cleared, ClearedSeen, ChooseOnlineGame
  <2>4. CASE DownloadNotBegun
    <3>1. pc' \in {"idle", "read", "stop", "open"}
      BY <1>0, <2>4, DownloadedCases DEF DownloadNotBegun, PlaceType, Return
    <3> QED
      BY <1>b, <2>2, <2>3, <3>1 DEF NoZip
  <2>5. ASSUME ~DownloadNotBegun PROVE pc' \notin {"get", "unzip", "write", "installed"}
    BY <1>6, <2>5 DEF stop_loading_screen, join_loading_screen, ReloadOnlineCheats,
       ReadOnlineList, ReadOnlineNCL,
       clearcache_callback, update_callback, Cleared, ClearedSeen, ChooseOnlineGame, Return,
       Fetch, show_dialog
  <2> QED
    BY <1>b, <2>2, <2>3, <2>4, <2>5 DEF NoZip
<1>7. CASE DownloadBegins
  <2>1. NoZip
    BY <1>0, <1>7, NoZipElsewhere DEF DownloadBegins, ControlInv, Unpacking
  <2>2. disk'[file] = Fresh("empty") /\ \A g \in Files \ {file} : disk'[g] = disk[g]
    BY <1>0, <1>7, DiskEntry DEF DownloadBegins, PlaceType
  <2>3. \A t \in Names : userlist'[t] = "torn" => userlist[t] = "torn"
    BY <1>7 DEF DownloadBegins
  <2>4. Unfinished' = {}
    BY <1>7, <2>1, <2>3 DEF DownloadBegins, Unfinished, NoZip
  <2>5. file' = file /\ pc' = "get"
    BY <1>7 DEF DownloadBegins
  <2> QED
    BY <1>0, <1>a, <2>1, <2>2, <2>4, <2>5, GamesNotZip DEF ZipInv, NoZip, PlaceType
<1>8. ASSUME DownloadGoesOn \/ DownloadSucceeds \/ DownloadFallsShort \/ DownloadFails
      PROVE Unfinished = {} /\ (file # Zip => NoZip) /\ UNCHANGED <<userlist, broken, file>>
  <2>1. pc = "get" /\ UNCHANGED <<userlist, broken, file>>
    BY <1>8, Zenon DEF DownloadGoesOn, DownloadSucceeds, DownloadFallsShort, DownloadFails
  <2>2. CASE file = Zip
    BY <2>1, <2>2 DEF ZipInv
  <2>3. CASE file # Zip
    BY <1>0, <2>1, <2>3, NoZipElsewhere DEF ControlInv, Unpacking, NoZip
  <2> QED
    BY <2>1, <2>2, <2>3
<1>9. CASE DownloadGoesOn
  <2>1. disk'[file] = Fresh("part") /\ \A g \in Files \ {file} : disk'[g] = disk[g]
    BY <1>0, <1>9, DiskEntry DEF DownloadGoesOn, PlaceType
  <2>2. pc' = "get" /\ Unfinished' = {}
    BY <1>8, <1>9 DEF DownloadGoesOn, Unfinished
  <2> QED
    BY <1>0, <1>a, <1>8, <1>9, <2>1, <2>2, GamesNotZip DEF ZipInv, NoZip, PlaceType
<1>10. CASE DownloadSucceeds
  <2>1. disk'[file] = Fresh("whole") /\ \A g \in Files \ {file} : disk'[g] = disk[g]
    BY <1>0, <1>10, DiskEntry DEF DownloadSucceeds, PlaceType
  <2>2. pc' \in {"idle", "read", "stop", "open"} /\ (file = Zip => pc' = "open")
    BY <1>0, <1>10, DownloadedCases, DownloadedZip DEF DownloadSucceeds, PlaceType, Return
  <2>3. Unfinished' = {}
    BY <1>8, <1>10 DEF Unfinished
  <2> QED
    BY <1>0, <1>a, <1>8, <1>10, <2>1, <2>2, <2>3, GamesNotZip DEF ZipInv, NoZip, PlaceType,
       Unpacking
<1>10a. CASE DownloadFallsShort
  <2>1. pc' \in {"idle", "read", "stop", "open"} /\ (file = Zip => pc' = "open")
    BY <1>0, <1>10a, DownloadedCases, DownloadedZip DEF DownloadFallsShort, PlaceType, Return
  <2>2. Unfinished' = {} /\ UNCHANGED disk
    BY <1>8, <1>10a DEF Unfinished, DownloadFallsShort
  <2> QED
    BY <1>0, <1>a, <1>8, <1>10a, <2>1, <2>2, GamesNotZip DEF ZipInv, NoZip, PlaceType,
       Unpacking
<1>11. CASE DownloadFails
  <2>1. disk'[file] = NoFile /\ \A g \in Files \ {file} : disk'[g] = disk[g]
    BY <1>0, <1>a, <1>11, DiskEntry DEF DownloadFails, PlaceType
  <2>2. pc' \in {"idle", "read", "stop", "open"}
    BY <1>0, <1>11, DownloadedCases DEF DownloadFails, PlaceType, Return
  <2>3. Unfinished' = {}
    BY <1>8, <1>11 DEF Unfinished
  <2> QED
    BY <1>0, <1>a, <1>8, <1>11, <2>1, <2>2, <2>3, GamesNotZip DEF ZipInv, NoZip, PlaceType,
       Unpacking
<1>12. CASE UnzipAtStart
  BY <1>12 DEF UnzipAtStart, ZipInv, Unfinished, Unpacking
<1>13. ASSUME Unpacked, Unfinished' = {}, stage # "off" PROVE ZipInv'
  BY <1>0, <1>13, ZipRemoved DEF ZipInv, Return
<1>14. CASE OpenZip
  <2>1. CASE disk[Zip].amount = "whole"
    BY <1>14, <2>1, <1>0 DEF OpenZip, ZipInv, Unfinished, Unpacking
  <2>2. CASE disk[Zip].amount # "whole"
    <3>1. Unfinished' = {}
      BY <1>14, <2>2 DEF OpenZip, ZipInv, Unfinished
    <3> QED
      BY <1>0, <1>13, <1>14, <2>2, <3>1 DEF OpenZip, ControlInv
  <2> QED
    BY <2>1, <2>2
<1>15. ASSUME NEW t \in Names, SkipEntry(t) PROVE ZipInv'
  <2>1. Unfinished' = Unfinished \ {t}
    BY <1>15 DEF SkipEntry, Unfinished
  <2> QED
    BY <1>15, <2>1 DEF SkipEntry, ZipInv, Unpacking
<1>16. ASSUME NEW t \in Names, BeginEntry(t) PROVE ZipInv'
  <2>1. Unfinished' \subseteq Unfinished \cup {t}
    BY <1>0, <1>16 DEF BeginEntry, Unfinished, ListType
  <2> QED
    BY <1>16, <2>1 DEF BeginEntry, ZipInv, Unpacking
<1>17. CASE EndEntry
  <2>1. entry \in Names
    BY <1>0, <1>17 DEF EndEntry, EndEntryOnFullDisk, ControlInv
  <2>2. \A t \in Names : userlist'[t] = "torn" => userlist[t] = "torn" /\ t # entry
    BY <1>17, <2>1, Parts DEF EndEntry, EndEntryOnFullDisk, Typed, UserlistType
  <2>3. Unfinished' \subseteq Unfinished \ {entry}
    BY <1>17, <2>2 DEF EndEntry, EndEntryOnFullDisk, Unfinished
  <2> QED
    BY <1>17, <2>3 DEF EndEntry, EndEntryOnFullDisk, ZipInv, Unpacking
<1>17a. CASE EndEntryOnFullDisk
  <2>1. Unfinished' \subseteq Unfinished \ {entry}
    BY <1>17a DEF EndEntryOnFullDisk, Unfinished
  <2> QED
    BY <1>17a, <2>1 DEF EndEntryOnFullDisk, ZipInv, Unpacking
<1>18. ASSUME NEW t \in Names, FileNotOpened(t) PROVE ZipInv'
  <2>1. Unfinished' = {}
    BY <1>18 DEF FileNotOpened, Unfinished, ZipInv
  <2> QED
    BY <1>0, <1>13, <1>18, <2>1 DEF FileNotOpened, ControlInv
<1>19. CASE EntryNotRead
  <2>1. Unfinished' = {}
    BY <1>19 DEF EntryNotRead, Unfinished, ZipInv
  <2> QED
    BY <1>0, <1>13, <1>19, <2>1 DEF EntryNotRead, ControlInv
<1>20. CASE Extracted
  BY <1>20 DEF Extracted, show_dialog, Unfinished, ZipInv, Unpacking
<1>21. CASE InstalledSeen
  <2>1. Unfinished' = {}
    BY <1>21 DEF InstalledSeen, Unfinished, ZipInv
  <2> QED
    BY <1>0, <1>13, <1>21, <2>1 DEF InstalledSeen, ControlInv
<1>22. ASSUME NEW f \in Files, ClearFile(f) PROVE ZipInv'
  <2>1. NoZip
    BY <1>0, <1>22, NoZipElsewhere DEF ClearFile, ControlInv, Unpacking
  <2>2. disk'[Zip] = NoFile
    BY <1>0, <1>22, <2>1, GamesNotZip DEF ClearFile, NoZip, DiskType
  <2> QED
    BY <1>b, <1>22, <2>1, <2>2 DEF ClearFile
<1>23. CASE loading_screen_thread \/ msg_dialog_event \/ SaveOptions \/ UNCHANGED vars
  BY <1>5, <1>23 DEF loading_screen_thread, msg_dialog_event, SaveOptions
<1> QED
  BY <1>1, <1>2, <1>3, <1>4, <1>6, <1>7, <1>9, <1>10, <1>10a, <1>11, <1>12, <1>14, <1>15,
     <1>16, <1>17, <1>17a, <1>18, <1>19, <1>20, <1>21, <1>22, <1>23, Zenon DEF Next

\* The menu finds every update finished, for any number of lists in the zip: no zip is
\* left to be installed over a later one, and a torn list is one an error or a full disk
\* kept from being written (update_callback, _unzip_cheat_db and the first step of main()).
THEOREM UpdateFinishedAlways == Spec => []UpdateFinished
<1>1. Init => ZipInv
  BY GamesNotZip DEF Init, ZipInv, Unfinished, Unpacking
<1>2. ZipInv => UpdateFinished
  BY DEF ZipInv, Unfinished, Unpacking, UpdateFinished, AtRest, NoFile
<1> QED
  BY <1>1, <1>2, TypedAlways, ZipNext, PTL DEF Spec
=============================================================================
