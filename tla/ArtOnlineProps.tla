--------------------------- MODULE ArtOnlineProps ---------------------------
(* What the online database promises.                                      *)
EXTENDS ArtOnline

\* Every variable has its type.
TypeOK ==
  /\ disk \in [Files -> [amount : {"none", "empty", "part", "whole"}, old : BOOLEAN]]
  /\ userlist \in [Names -> {"none", "outdated", "torn", "current"}]
  /\ saved \in [Calls -> BOOLEAN] /\ selections \in [Calls -> BOOLEAN]
  /\ stage \in {"off", "unzip", "update", "clear", "menu"}
  /\ pc \in {"idle", "fetch", "get", "read", "stop", "join", "open", "unzip", "write",
             "installed", "clear", "cleaned", "crashed"}
  /\ file \in Files /\ refresh \in BOOLEAN
  /\ todo \subseteq Names /\ entry \in Names \cup {NoEntry}
  /\ listed \subseteq Served /\ loaded \subseteq listed
  /\ msg_dialog_action \in 0 .. 2 /\ please_wait \in -1 .. 1 /\ screen \in BOOLEAN
  /\ cut \subseteq Files /\ broken \subseteq Names

\* In the main loop, nothing running.
AtRest == stage = "menu" /\ pc = "idle"

\* However an update ended, and wherever the console was turned off in it, the menu
\* finds it finished: the zip is gone, so that none is installed over a later one, and
\* a list is torn only for a reason of its last extraction: an error that ended it or
\* passed the list over, or a full disk, of which the program knows nothing (unzip.c:83)
\* - never for the end of the program, however often that came between.
UpdateFinished ==
  AtRest => /\ disk[Zip] = NoFile
            /\ \A t \in Names : userlist[t] = "torn" => t \in broken

\* One thread draws: while the loading screen's thread runs, the main thread is
\* in no dialog, progress bar or menu, all of which flip the screen too.
OneDrawer ==
  screen => /\ pc \notin {"idle", "unzip", "write", "installed", "clear", "cleaned"}
            /\ ~(pc = "get" /\ file = Zip)

\* The online list is read through a null pointer in three cases only: a list older
\* than a day could not be downloaded again, and was lost in trying; the program ended
\* before the first byte of it was there; or a download without a byte - an empty answer,
\* a full disk - was taken for a success.
NullReadCause ==
  pc = "crashed" => \/ disk[Games] = NoFile /\ refresh
                    \/ disk[Games].amount = "empty" /\ Games \in cut

\* Once the network has answered, the loading screen goes away: the two threads'
\* handshake over please_wait ends.
LoadingEnds ==
  pc = "read" /\ file = Games ~> stage = "off" \/ pc = "crashed" \/ (pc = "idle" /\ ~screen)

\* codes.c:1091 says of ReadOnlineList that it returns null if failed: a list that
\* cannot be had (and is not the torn one of an earlier run, nor one the disk or the
\* server kept back) is no list, and the program goes on.
ListOrNull == Games \notin cut => pc # "crashed"
=============================================================================
