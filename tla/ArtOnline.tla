----------------------------- MODULE ArtOnline -----------------------------
(***************************************************************************)
(* The GUI's online database: the cache of the server's files, the update  *)
(* of the local database, and what they run through: http_download,        *)
(* extract_zip, the dialog and the loading screen's thread.  The console   *)
(* may be turned off, or the program left through the console's menu, at   *)
(* any step; what is on the disk stays, and the next start goes on from    *)
(* there.                                                                  *)
(*                                                                         *)
(* Of a file one needs to know how much of it is there and whether it is   *)
(* older than ONLINE_CACHE_TIMEOUT.  The check for a new version of the    *)
(* program is in ArtOptions.                                               *)
(***************************************************************************)
EXTENDS Integers, FiniteSets

CONSTANTS
  Names,   \* the code lists in the database's zip
  Served   \* the code lists games.txt names

Games == "games.txt"
Zip == "cheatdb.zip"
Files == {Games, Zip} \cup Served
NoEntry == "none"
Calls == {"update", "clear"}

ASSUME NamesAssumption == NoEntry \notin Names /\ Names # {} /\ IsFiniteSet(Names)
ASSUME ServedAssumption == Games \notin Served /\ Zip \notin Served

VARIABLES
  \* what outlives the program
  disk,          \* the cache: how much of each file is there, and its age
  userlist,      \* the folder of local lists; "outdated": from an earlier zip
  saved,         \* the two callable options in the options file
  \* the program
  stage,         \* where main() is: in one of its steps at the start, or in its loop
  pc,            \* where the running operation is
  file,          \* the file http_download fetches
  refresh,       \* whether there was one before
  todo,          \* the entries of the zip extract_zip has not come to
  entry,         \* the one it is writing
  listed,        \* the games of online_game_list
  loaded,        \* those whose codes have been read
  selections,    \* menu_options_selections of the two callable options
  msg_dialog_action,
  please_wait,
  screen,        \* the loading screen's thread runs
  \* history
  cut,           \* files of which less is there than the program takes for granted: it ended
                 \* in their download, or the disk or the server kept some back unnoticed
  broken         \* entries that were not written to their end when last come to, for an
                 \* error, or for a full disk, which goes unnoticed

diskVars == <<disk, userlist, saved>>
taskVars == <<file, refresh>>
zipVars == <<todo, entry>>
listVars == <<listed, loaded>>
screenVars == <<please_wait, screen>>
history == <<cut, broken>>
vars == <<diskVars, stage, pc, taskVars, zipVars, listVars, selections, msg_dialog_action,
          screenVars, history>>

NoFile == [amount |-> "none", old |-> FALSE]
Fresh(amount) == [amount |-> amount, old |-> FALSE]
AllOff == [c \in Calls |-> FALSE]

Init ==
  /\ disk = [f \in Files |-> NoFile]
  /\ userlist = [t \in Names |-> "none"]
  /\ saved = AllOff
  /\ stage = "off" /\ pc = "idle"
  /\ file = Games /\ refresh = FALSE
  /\ todo = {} /\ entry = NoEntry
  /\ listed = {} /\ loaded = {}
  /\ selections = AllOff
  /\ msg_dialog_action = 0
  /\ please_wait = 0 /\ screen = FALSE
  /\ cut = {} /\ broken = {}

-----------------------------------------------------------------------------
(* Starting and ending                                                     *)

LoadOptions == selections' = saved

\* main() up to its first look at the cache.
Boot ==
  /\ stage = "off"
  /\ stage' = "unzip"
  /\ LoadOptions
  /\ UNCHANGED <<diskVars, pc, taskVars, zipVars, listVars, msg_dialog_action, screenVars,
                 history>>

\* Mutated: the loop over the options' callbacks goes one too far.
NextStage_RunsOver ==
  [s \in {"unzip", "update", "clear", "menu"} |->
    CASE s = "unzip" -> "update" [] s = "update" -> "clear" [] OTHER -> "callback"]

\* The zip of the first run, the saved options' callbacks in their order, the loop.
NextStage ==
  [s \in {"unzip", "update", "clear", "menu"} |->
    CASE s = "unzip" -> "update" [] s = "update" -> "clear" [] OTHER -> "menu"]

\* The operation is over, and main() goes on.
Return == pc' = "idle" /\ stage' = NextStage[stage]

\* There is no zip, or the option is saved as off.
BootStep ==
  /\ pc = "idle"
  /\ \/ stage = "unzip" /\ disk[Zip] = NoFile
     \/ stage \in Calls /\ ~selections[stage]
  /\ Return
  /\ UNCHANGED <<diskVars, taskVars, zipVars, listVars, selections, msg_dialog_action,
                 screenVars, history>>

\* The console is turned off, or the program left through the console's menu.
Stop ==
  /\ stage # "off"
  /\ cut' = IF pc = "get" THEN cut \cup {file} ELSE cut
  /\ stage' = "off" /\ pc' = "idle"
  /\ file' = Games /\ refresh' = FALSE
  /\ todo' = {} /\ entry' = NoEntry
  /\ listed' = {} /\ loaded' = {}
  /\ selections' = AllOff
  /\ msg_dialog_action' = 0
  /\ please_wait' = 0 /\ screen' = FALSE
  /\ UNCHANGED <<diskVars, broken>>

\* More than ONLINE_CACHE_TIMEOUT goes by.
DayPasses ==
  /\ disk' = [f \in Files |-> IF f = Zip \/ disk[f] = NoFile THEN disk[f]
                              ELSE [disk[f] EXCEPT !.old = TRUE]]
  /\ UNCHANGED <<userlist, saved, stage, pc, taskVars, zipVars, listVars, selections,
                 msg_dialog_action, screenVars, history>>

\* Whether the callback of option c is called with a selection that is set: from
\* the menu, where CROSS has just set it, or at the start.
Called(c) ==
  /\ pc = "idle"
  /\ stage # "menu" => (stage = c /\ selections[c])

-----------------------------------------------------------------------------
(* The loading screen (draw.c)                                             *)

init_loading_screen == please_wait' = 1 /\ screen' = TRUE

\* Mutated: the thread leaves please_wait as it is.
loading_screen_thread_SaysNothing ==
  /\ screen /\ please_wait # 1
  /\ screen' = FALSE
  /\ UNCHANGED <<diskVars, stage, pc, taskVars, zipVars, listVars, selections, msg_dialog_action,
                 please_wait, history>>

\* The thread finds please_wait changed, and ends; before that it draws.
loading_screen_thread ==
  /\ screen /\ please_wait # 1
  /\ screen' = FALSE /\ please_wait' = -1
  /\ UNCHANGED <<diskVars, stage, pc, taskVars, zipVars, listVars, selections, msg_dialog_action,
                 history>>

\* Mutated: it does not wait for the thread.
stop_loading_screen_NoWait ==
  /\ pc = "stop"
  /\ please_wait' = IF please_wait = 1 THEN 0 ELSE please_wait
  /\ Return
  /\ UNCHANGED <<diskVars, taskVars, zipVars, listVars, selections, msg_dialog_action, screen,
                 history>>

\* Up to the loop that waits for the thread.
stop_loading_screen ==
  /\ pc = "stop"
  /\ IF please_wait = 1
     THEN please_wait' = 0 /\ pc' = "join" /\ UNCHANGED stage
     ELSE Return /\ UNCHANGED please_wait
  /\ UNCHANGED <<diskVars, taskVars, zipVars, listVars, selections, msg_dialog_action, screen,
                 history>>

join_loading_screen ==
  /\ pc = "join" /\ please_wait = -1
  /\ Return
  /\ UNCHANGED <<diskVars, taskVars, zipVars, listVars, selections, msg_dialog_action,
                 screenVars, history>>

-----------------------------------------------------------------------------
(* http_download                                                           *)

\* It is called for f.
Fetch(f) == pc' = "fetch" /\ file' = f /\ refresh' = (disk[f] # NoFile)

\* Mutated: a failed first download is not noticed.
Downloaded_IgnoresFailure(ok) ==
  CASE file = Games -> pc' = "read" /\ UNCHANGED <<stage, todo, selections>>
    [] file \in Served -> pc' = "read" /\ UNCHANGED <<stage, todo, selections>>
    [] file = Zip /\ ok -> pc' = "open" /\ UNCHANGED <<stage, todo, selections>>
    [] OTHER -> Return /\ selections' = [selections EXCEPT !["update"] = FALSE] /\ UNCHANGED todo

\* What the caller does with the result.  ReadOnlineList and ReadOnlineNCL look at
\* it only when there was no file before; update_callback unpacks what it got.
Downloaded(ok) ==
  CASE file = Games -> /\ pc' = IF ok \/ refresh THEN "read" ELSE "stop"
                       /\ UNCHANGED <<stage, todo, selections>>
    [] file \in Served /\ (ok \/ refresh) -> pc' = "read" /\ UNCHANGED <<stage, todo, selections>>
    [] file = Zip /\ ok -> pc' = "open" /\ UNCHANGED <<stage, todo, selections>>
    [] OTHER -> /\ Return /\ UNCHANGED todo
                /\ selections' = IF file = Zip THEN [selections EXCEPT !["update"] = FALSE]
                                 ELSE selections

\* curl does not start, or the file cannot be opened: nothing has changed.
DownloadNotBegun ==
  /\ pc = "fetch"
  /\ Downloaded(FALSE)
  /\ UNCHANGED <<diskVars, taskVars, entry, listVars, msg_dialog_action, screenVars, history>>

\* The file is opened, and thereby emptied.
DownloadBegins ==
  /\ pc = "fetch"
  /\ pc' = "get"
  /\ disk' = [disk EXCEPT ![file] = Fresh("empty")]
  /\ cut' = cut \ {file}
  /\ userlist' = IF file = Zip
                 THEN [t \in Names |-> IF userlist[t] = "current" THEN "outdated" ELSE userlist[t]]
                 ELSE userlist
  /\ UNCHANGED <<saved, stage, taskVars, zipVars, listVars, selections, msg_dialog_action,
                 screenVars, broken>>

DownloadGoesOn ==
  /\ pc = "get" /\ disk[file].amount = "empty"
  /\ disk' = [disk EXCEPT ![file] = Fresh("part")]
  /\ UNCHANGED <<userlist, saved, stage, pc, taskVars, zipVars, listVars, selections,
                 msg_dialog_action, screenVars, history>>

DownloadSucceeds ==
  /\ pc = "get"
  /\ disk' = [disk EXCEPT ![file] = Fresh("whole")]
  /\ Downloaded(TRUE)
  /\ UNCHANGED <<userlist, saved, taskVars, entry, listVars, msg_dialog_action, screenVars,
                 history>>

\* So it is reported too when the answer has nothing in it, and when the disk is full as
\* the file is closed, which writes the last of it: what fclose returns is not looked at.
DownloadFallsShort ==
  /\ pc = "get"
  /\ cut' = cut \cup {file}
  /\ Downloaded(TRUE)
  /\ UNCHANGED <<diskVars, taskVars, entry, listVars, msg_dialog_action, screenVars, broken>>

\* The file is removed, the one there was before with it.
DownloadFails ==
  /\ pc = "get"
  /\ disk' = [disk EXCEPT ![file] = NoFile]
  /\ Downloaded(FALSE)
  /\ UNCHANGED <<userlist, saved, taskVars, entry, listVars, msg_dialog_action, screenVars,
                 history>>

-----------------------------------------------------------------------------
(* The online list and its code lists                                      *)

\* What is on the disk is not read but fetched.
Expired(f) == disk[f] = NoFile \/ disk[f].old

\* ReloadOnlineCheats up to the look at the cache in ReadOnlineList.
ReloadOnlineCheats ==
  /\ stage = "menu" /\ pc = "idle"
  /\ init_loading_screen
  /\ listed' = {} /\ loaded' = {}
  /\ IF Expired(Games) THEN Fetch(Games)
     ELSE pc' = "read" /\ file' = Games /\ UNCHANGED refresh
  /\ UNCHANGED <<diskVars, stage, zipVars, selections, msg_dialog_action, history>>

\* readFile returns a buffer: there is a file, and something in it.
Readable(f) == disk[f].amount \in {"part", "whole"}

\* ReadOnlineList from there: of part of a list any beginning may be found.  With
\* no file, or an empty one, it reads through a null pointer.
ReadOnlineList ==
  /\ pc = "read" /\ file = Games
  /\ IF ~Readable(Games) THEN pc' = "crashed" /\ UNCHANGED listed
     ELSE /\ pc' = "stop"
          /\ listed' \in IF disk[Games].amount = "whole" THEN {Served} ELSE SUBSET Served
  /\ UNCHANGED <<diskVars, stage, taskVars, zipVars, loaded, selections, msg_dialog_action,
                 screenVars, history>>

\* CROSS on a game of the online list whose codes have not been read.
ChooseOnlineGame(t) ==
  /\ stage = "menu" /\ pc = "idle"
  /\ t \in listed \ loaded
  /\ IF Expired(t) THEN Fetch(t)
     ELSE pc' = "read" /\ file' = t /\ UNCHANGED refresh
  /\ UNCHANGED <<diskVars, stage, zipVars, listVars, selections, msg_dialog_action, screenVars,
                 history>>

\* ReadNCL for ReadOnlineNCL: without a file, or in an empty one, it finds nothing;
\* in a part it may find something.
ReadOnlineNCL ==
  /\ pc = "read" /\ file \in Served
  /\ loaded' \in CASE disk[file].amount = "whole" -> {loaded \cup {file}}
                   [] disk[file].amount = "part" -> {loaded, loaded \cup {file}}
                   [] OTHER -> {loaded}
  /\ Return
  /\ UNCHANGED <<diskVars, taskVars, zipVars, listed, selections, msg_dialog_action, screenVars,
                 history>>

-----------------------------------------------------------------------------
(* Dialogs (dialog.c)                                                      *)

\* The message is the place to go on from.
show_dialog(message) == pc' = message /\ msg_dialog_action' = 0

\* The console calls back while the dialog is drawn.
msg_dialog_event ==
  /\ pc \in {"installed", "cleaned"} /\ msg_dialog_action = 0
  /\ msg_dialog_action' \in {1, 2}
  /\ UNCHANGED <<diskVars, stage, pc, taskVars, zipVars, listVars, selections, screenVars,
                 history>>

-----------------------------------------------------------------------------
(* The local database                                                      *)

update_callback ==
  /\ Called("update")
  /\ selections' = [selections EXCEPT !["update"] = TRUE]
  /\ Fetch(Zip)
  /\ UNCHANGED <<diskVars, stage, zipVars, listVars, msg_dialog_action, screenVars, history>>

UnzipAtStart ==
  /\ stage = "unzip" /\ pc = "idle" /\ disk[Zip] # NoFile
  /\ pc' = "open"
  /\ UNCHANGED <<diskVars, stage, taskVars, zipVars, listVars, selections, msg_dialog_action,
                 screenVars, history>>

RemoveZip == disk' = [disk EXCEPT ![Zip] = NoFile]

\* The end of _unzip_cheat_db, and of update_callback if it was that called it.
Unpacked ==
  /\ RemoveZip
  /\ selections' = IF stage = "unzip" THEN selections ELSE [selections EXCEPT !["update"] = FALSE]
  /\ Return

\* Mutated: the zip is removed as soon as it is open.
OpenZip_RemovesIt ==
  /\ pc = "open"
  /\ IF disk[Zip].amount = "whole"
     THEN /\ pc' = "unzip" /\ todo' = Names
          /\ disk' = [disk EXCEPT ![Zip] = NoFile]
          /\ UNCHANGED <<stage, selections>>
     ELSE Unpacked /\ UNCHANGED todo
  /\ UNCHANGED <<userlist, saved, taskVars, entry, listVars, msg_dialog_action, screenVars,
                 history>>

\* A zip that is not whole cannot be opened.
OpenZip ==
  /\ pc = "open"
  /\ IF disk[Zip].amount = "whole"
     THEN pc' = "unzip" /\ todo' = Names /\ UNCHANGED <<disk, stage, selections>>
     ELSE Unpacked /\ UNCHANGED todo
  /\ UNCHANGED <<userlist, saved, taskVars, entry, listVars, msg_dialog_action, screenVars,
                 history>>

\* An entry that cannot be looked up or opened in the zip is passed over.
SkipEntry(t) ==
  /\ pc = "unzip" /\ t \in todo
  /\ todo' = todo \ {t}
  /\ broken' = broken \cup {t}
  /\ UNCHANGED <<diskVars, stage, pc, taskVars, entry, listVars, selections, msg_dialog_action,
                 screenVars, cut>>

\* Opening the file empties it.
BeginEntry(t) ==
  /\ pc = "unzip" /\ t \in todo
  /\ pc' = "write"
  /\ todo' = todo \ {t} /\ entry' = t
  /\ userlist' = [userlist EXCEPT ![t] = "torn"]
  /\ broken' = broken \ {t}
  /\ UNCHANGED <<disk, saved, stage, taskVars, listVars, selections, msg_dialog_action,
                 screenVars, cut>>

EndEntry ==
  /\ pc = "write"
  /\ pc' = "unzip" /\ entry' = NoEntry
  /\ userlist' = [userlist EXCEPT ![entry] = "current"]
  /\ UNCHANGED <<disk, saved, stage, taskVars, todo, listVars, selections, msg_dialog_action,
                 screenVars, history>>

\* The disk is full: what fwrite and fclose return is not looked at, the list stays as
\* far as it came, and the extraction goes on.
EndEntryOnFullDisk ==
  /\ pc = "write"
  /\ pc' = "unzip" /\ entry' = NoEntry
  /\ broken' = broken \cup {entry}
  /\ UNCHANGED <<diskVars, stage, taskVars, todo, listVars, selections, msg_dialog_action,
                 screenVars, cut>>

\* A file that cannot be opened ends the extraction.
FileNotOpened(t) ==
  /\ pc = "unzip" /\ t \in todo
  /\ broken' = broken \cup todo
  /\ todo' = {}
  /\ Unpacked
  /\ UNCHANGED <<userlist, saved, taskVars, entry, listVars, msg_dialog_action, screenVars, cut>>

\* So does an entry that cannot be read to its end.
EntryNotRead ==
  /\ pc = "write"
  /\ broken' = broken \cup todo \cup {entry}
  /\ todo' = {} /\ entry' = NoEntry
  /\ Unpacked
  /\ UNCHANGED <<userlist, saved, taskVars, listVars, msg_dialog_action, screenVars, cut>>

Extracted ==
  /\ pc = "unzip" /\ todo = {}
  /\ show_dialog("installed")
  /\ UNCHANGED <<diskVars, stage, taskVars, zipVars, listVars, selections, screenVars, history>>

\* The player has answered "Successfully installed local cheat database".
InstalledSeen ==
  /\ pc = "installed" /\ msg_dialog_action # 0
  /\ Unpacked
  /\ UNCHANGED <<userlist, saved, taskVars, zipVars, listVars, msg_dialog_action, screenVars,
                 history>>

-----------------------------------------------------------------------------
(* The other callable option, and the options file                         *)

\* The folder may fail to open; the option then stays set.
clearcache_callback ==
  /\ Called("clear")
  /\ selections' = [selections EXCEPT !["clear"] = TRUE]
  /\ \/ pc' = "clear" /\ UNCHANGED stage
     \/ Return
  /\ UNCHANGED <<diskVars, taskVars, zipVars, listVars, msg_dialog_action, screenVars, history>>

ClearFile(f) ==
  /\ pc = "clear" /\ disk[f] # NoFile
  /\ disk' = [disk EXCEPT ![f] = NoFile]
  /\ UNCHANGED <<userlist, saved, stage, pc, taskVars, zipVars, listVars, selections,
                 msg_dialog_action, screenVars, history>>

Cleared ==
  /\ pc = "clear" /\ \A f \in Files : disk[f] = NoFile
  /\ selections' = [selections EXCEPT !["clear"] = FALSE]
  /\ show_dialog("cleaned")
  /\ UNCHANGED <<diskVars, stage, taskVars, zipVars, listVars, screenVars, history>>

ClearedSeen ==
  /\ pc = "cleaned" /\ msg_dialog_action # 0
  /\ Return
  /\ UNCHANGED <<diskVars, taskVars, zipVars, listVars, selections, msg_dialog_action,
                 screenVars, history>>

\* CIRCLE in the options menu.
SaveOptions ==
  /\ stage = "menu" /\ pc = "idle"
  /\ saved' = selections
  /\ UNCHANGED <<disk, userlist, stage, pc, taskVars, zipVars, listVars, selections,
                 msg_dialog_action, screenVars, history>>

-----------------------------------------------------------------------------
Next ==
  \/ Boot \/ BootStep \/ Stop \/ DayPasses
  \/ loading_screen_thread \/ stop_loading_screen \/ join_loading_screen
  \/ DownloadNotBegun \/ DownloadBegins \/ DownloadGoesOn
  \/ DownloadSucceeds \/ DownloadFallsShort \/ DownloadFails
  \/ ReloadOnlineCheats \/ ReadOnlineList \/ ReadOnlineNCL
  \/ \E t \in Served : ChooseOnlineGame(t)
  \/ msg_dialog_event
  \/ update_callback \/ UnzipAtStart \/ OpenZip
  \/ EndEntry \/ EndEntryOnFullDisk \/ EntryNotRead \/ Extracted \/ InstalledSeen
  \/ \E t \in Names : SkipEntry(t) \/ BeginEntry(t) \/ FileNotOpened(t)
  \/ clearcache_callback \/ Cleared \/ ClearedSeen \/ SaveOptions
  \/ \E f \in Files : ClearFile(f)

\* The main thread goes on while nothing but its own code is to be run: not while
\* it waits for the network, which has no limit of time, or for the player.  The
\* loading screen's thread is scheduled.
Fairness ==
  /\ WF_vars(ReadOnlineList) /\ WF_vars(stop_loading_screen) /\ WF_vars(join_loading_screen)
  /\ WF_vars(loading_screen_thread)

Spec == Init /\ [][Next]_vars /\ Fairness
=============================================================================
