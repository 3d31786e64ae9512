---------------------------------- MODULE Tray ----------------------------------
(* The tray icon, its menu and the log window (src/src/tray_icon.rs), and the    *)
(* start and end of the process around them (src/src/main.rs, with the binding   *)
(* of ProxyServer::run in src/src/server.rs), for the build with the tray-icon   *)
(* feature on Windows.  Left out are the about window, the menu items that open  *)
(* a file or a page, and which of the animated icons is shown.                   *)
EXTENDS Integers, Sequences, SequencesExt

CONSTANTS
  IconSets,     \* which icons there may be beside the default one
  Ticks,        \* how long an animation runs: 10
  MaxReceived,  \* bound on the connections
  MaxClicks     \* bound on what the user does

ASSUME TrayAssumption ==
  /\ IconSets \subseteq SUBSET {"off", "animated"}
  /\ Ticks \in Nat \ {0} /\ MaxReceived \in Nat /\ MaxClicks \in Nat

VARIABLES
  main, server, ui,  \* where the main thread, the proxy's and the window's are
  signal,     \* the task that waits for Ctrl-C
  shutdown,   \* the channel to the proxy's thread
  exit,       \* how the process ended
  enabled,    \* global_toggle
  received,   \* requests_received
  icons,      \* the icons that could be loaded, beside the default one
  tray,       \* the icon that is shown, "none" if there is none
  outcome,    \* of the last set_icon, which the code does not look at
  last,       \* last_requests
  remaining,  \* animation_remaining
  events,     \* the clicks that wait for the event loop
  clicks,     \* what the user has done
  check,      \* the check mark of the menu's "Enable"
  handles,    \* ui_handles is set
  window      \* the log window

threads == <<main, server, ui>>
ending == <<signal, shutdown, exit>>
proxy == <<enabled, received>>
animation == <<icons, tray, outcome, last, remaining>>
menu == <<events, clicks, check>>
view == <<handles, window>>
trayVars == <<threads, ending, proxy, animation, menu, view>>

TrayInit ==
  /\ main = "load" /\ server = "none" /\ ui = "none"
  /\ signal = "off" /\ shutdown = "open" /\ exit = "no"
  /\ enabled = TRUE /\ received = 0
  /\ icons = {} /\ tray = "none" /\ outcome = "ok" /\ last = 0 /\ remaining = 0
  /\ events = <<>> /\ clicks = 0 /\ check = TRUE
  /\ handles = FALSE /\ window = "none"

MainGoes(from, to) ==
  /\ main = from /\ main' = to
  /\ UNCHANGED <<server, ui>>

UIGoes(from, to) ==
  /\ ui = from /\ ui' = to
  /\ UNCHANGED <<main, server>>

-----------------------------------------------------------------------------
\* Start-up, in the main thread.

\* Load the configuration, or end with an error.
LoadConfig ==
  /\ \/ MainGoes("load", "logfile") /\ exit' = exit
     \/ MainGoes("load", "done") /\ exit' = "1"
  /\ UNCHANGED <<signal, shutdown, proxy, animation, menu, view>>

OpenLogFile == MainGoes("logfile", "start") /\ UNCHANGED <<ending, proxy, animation, menu, view>>

LogFileFails ==
  /\ MainGoes("logfile", "done")
  /\ exit' = "1"
  /\ UNCHANGED <<signal, shutdown, proxy, animation, menu, view>>

\* The Ctrl-C task and the proxy's thread are spawned.
StartProxy ==
  /\ main = "start" /\ main' = "new" /\ server' = "binding" /\ ui' = ui
  /\ signal' = "spawned"
  /\ UNCHANGED <<shutdown, exit, proxy, animation, menu, view>>

\* TrayIconApp::new registers its cache first, and reads the counter last.
NewApp == MainGoes("new", "icons") /\ UNCHANGED <<ending, proxy, animation, menu, view>>

\* IconManager::new goes on without the icons that it cannot load.
LoadIcons ==
  /\ MainGoes("icons", "counter")
  /\ icons' \in IconSets
  /\ UNCHANGED <<ending, proxy, tray, outcome, last, remaining, menu, view>>

ReadCounter ==
  /\ MainGoes("counter", "menu")
  /\ last' = received
  /\ UNCHANGED <<ending, proxy, icons, tray, outcome, remaining, menu, view>>

\* The menu and the event loop are made, and the tray icon at the loop's first event;
\* without the former the app is dropped, without the latter it goes on.  (That the
\* event loop itself fails later is left out.)
StartLoop ==
  /\ \/ /\ MainGoes("menu", "loop")
        /\ tray' \in {"default", "none"} /\ check' = enabled /\ shutdown' = shutdown
     \/ /\ MainGoes("menu", "failed")
        /\ shutdown' = "dropped" /\ UNCHANGED <<tray, check>>
  /\ UNCHANGED <<signal, exit, proxy, icons, outcome, last, remaining, events, clicks, view>>

ReturnError ==
  /\ MainGoes("failed", "done")
  /\ exit' = "1"
  /\ UNCHANGED <<signal, shutdown, proxy, animation, menu, view>>

-----------------------------------------------------------------------------
\* The proxy's thread and the Ctrl-C task.

ServerGoes(from, to) ==
  /\ server = from /\ server' = to
  /\ UNCHANGED <<main, ui>>

\* ProxyServer::run binds its addresses, or ends with an error.
Bind ==
  /\ ServerGoes("binding", "serving") \/ ServerGoes("binding", "stopping")
  /\ UNCHANGED <<ending, proxy, animation, menu, view>>

\* It ends without an error when each of its accept loops has panicked, in a reload.
LoopsEnd ==
  /\ ServerGoes("serving", "stopping")
  /\ UNCHANGED <<ending, proxy, animation, menu, view>>

Connection ==
  /\ server = "serving" /\ received < MaxReceived
  /\ received' = received + 1
  /\ UNCHANGED <<threads, ending, enabled, animation, menu, view>>

\* The select in the proxy's thread: a dropped sender ends the wait as a message does.
StopProxy ==
  /\ server \in {"binding", "serving"}
  /\ shutdown \in {"sent", "dropped"} \/ signal = "caught"
  /\ ServerGoes(server, "stopping")
  /\ UNCHANGED <<ending, proxy, animation, menu, view>>

\* Mistake: the thread ends, and leaves the process to the event loop.
ThreadEnds ==
  /\ ServerGoes("stopping", "done")
  /\ UNCHANGED <<ending, proxy, animation, menu, view>>

\* However the proxy stopped, its thread ends the process with 0.
ExitProcess ==
  /\ ServerGoes("stopping", "done")
  /\ exit' = "0"
  /\ UNCHANGED <<signal, shutdown, proxy, animation, menu, view>>

ArmSignal ==
  /\ signal = "spawned" /\ signal' = "armed"
  /\ UNCHANGED <<threads, shutdown, exit, proxy, animation, menu, view>>

\* Before the task waits for it Ctrl-C ends the process.
CtrlC ==
  /\ IF signal \in {"armed", "caught"} THEN signal' = "caught" /\ exit' = exit
                                       ELSE exit' = "killed" /\ signal' = signal
  /\ UNCHANGED <<threads, shutdown, proxy, animation, menu, view>>

-----------------------------------------------------------------------------
\* The event loop, in the main thread.

\* What update_tray_icon chooses: icons that are missing are replaced by the default.
IconFor(on, ticks) ==
  IF ~ on THEN IF "off" \in icons THEN "off" ELSE "default"
  ELSE IF ticks > 0 /\ "animated" \in icons THEN "animated" ELSE "default"

\* That set_icon fails is ignored, and leaves the icon that is shown.
SetIcon(on, ticks) ==
  \/ tray = "none" /\ UNCHANGED <<tray, outcome>>
  \/ tray # "none" /\ tray' = IconFor(on, ticks) /\ outcome' = "ok"
  \/ tray # "none" /\ tray' = tray /\ outcome' = "err"

\* Mistake: the icon is updated before the tick is counted.
TickLate ==
  /\ main = "loop"
  /\ LET ticks == IF received > last THEN Ticks ELSE remaining
     IN /\ last' = received
        /\ remaining' = IF ticks > 0 THEN ticks - 1 ELSE 0
        /\ IF ticks > 0 THEN SetIcon(enabled, ticks) ELSE UNCHANGED <<tray, outcome>>
  /\ UNCHANGED <<threads, ending, proxy, icons, menu, view>>

\* Mistake: a tick notes the connections that came, and goes on with the animation
\* as it is.
TickUnseen ==
  /\ main = "loop"
  /\ last' = received
  /\ remaining' = IF remaining > 0 THEN remaining - 1 ELSE 0
  /\ IF remaining > 0 THEN SetIcon(enabled, remaining - 1) ELSE UNCHANGED <<tray, outcome>>
  /\ UNCHANGED <<threads, ending, proxy, icons, menu, view>>

\* Mistake: the animation is counted down without a look at where it is.
TickOn ==
  /\ main = "loop"
  /\ LET ticks == IF received > last THEN Ticks ELSE remaining
     IN /\ last' = received
        /\ remaining' = ticks - 1
        /\ SetIcon(enabled, ticks - 1)
  /\ UNCHANGED <<threads, ending, proxy, icons, menu, view>>

\* Every 100 ms.  New connections start the animation anew; its last tick shows the
\* icon at rest.
Tick ==
  /\ main = "loop"
  /\ LET ticks == IF received > last THEN Ticks ELSE remaining
     IN /\ last' = received
        /\ remaining' = IF ticks > 0 THEN ticks - 1 ELSE 0
        /\ IF ticks > 0 THEN SetIcon(enabled, ticks - 1) ELSE UNCHANGED <<tray, outcome>>
  /\ UNCHANGED <<threads, ending, proxy, icons, menu, view>>

\* Mistake: the other clicks that wait are dropped with the one that is taken.
TakenAlone(kind) ==
  /\ main = "loop"
  /\ events # <<>> /\ Head(events) = kind
  /\ events' = <<>>
  /\ UNCHANGED <<clicks, check>>

\* The next click of this kind is taken.  A "show" may be one on the icon, which
\* comes through a channel of its own and may overtake the menu's clicks, or be
\* overtaken.
Taken(kind) ==
  /\ main = "loop"
  /\ \E i \in DOMAIN events :
       /\ events[i] = kind
       /\ \A j \in 1 .. i - 1 : (events[j] = "show") # (kind = "show")
       /\ events' = RemoveAt(events, i)
  /\ UNCHANGED <<clicks, check>>

ToggleTaken ==
  /\ Taken("toggle") /\ MainGoes("loop", "toggled")
  /\ enabled' = ~ enabled
  /\ UNCHANGED <<ending, received, animation, view>>

UpdateIcon ==
  /\ MainGoes("toggled", "loop")
  /\ SetIcon(enabled, remaining)
  /\ UNCHANGED <<ending, proxy, icons, last, remaining, menu, view>>

\* With handles the window is shown, if there is one yet.
ShowAgain ==
  /\ Taken("show") /\ handles
  /\ window' = IF window = "none" THEN window ELSE "shown"
  /\ UNCHANGED <<threads, ending, proxy, animation, handles>>

\* Without, a UI thread is started and its handles are waited for.
ShowFirst ==
  /\ Taken("show") /\ ~ handles
  /\ main' = "waiting" /\ ui' = "starting" /\ server' = server
  /\ UNCHANGED <<ending, proxy, animation, view>>

ReceiveHandles ==
  /\ ui # "starting"
  /\ MainGoes("waiting", "loop")
  /\ handles' = (ui # "dead")
  /\ UNCHANGED <<ending, proxy, animation, menu, window>>

\* The sender is taken and used by whoever is first.
Sent == IF shutdown = "open" THEN "sent" ELSE shutdown

ExitTaken ==
  /\ Taken("exit") /\ MainGoes("loop", "exiting")
  /\ shutdown' = Sent
  /\ UNCHANGED <<signal, exit, proxy, animation, view>>

ExitFromMenu ==
  /\ MainGoes("exiting", "done")
  /\ exit' = "0"
  /\ UNCHANGED <<signal, shutdown, proxy, animation, menu, view>>

\* The user's clicks on the icon and its menu.  The menu flips its check mark itself.
Click(kind) ==
  /\ tray # "none"
  /\ clicks < MaxClicks /\ clicks' = clicks + 1
  /\ events' = Append(events, kind)
  /\ check' = IF kind = "toggle" THEN ~ check ELSE check
  /\ UNCHANGED <<threads, ending, proxy, animation, view>>

-----------------------------------------------------------------------------
\* The UI thread.

\* It sends its handles before it makes the window.
StartUI ==
  /\ UIGoes("starting", "opening") \/ UIGoes("starting", "dead")
  /\ UNCHANGED <<ending, proxy, animation, menu, view>>

\* The window is there before its text is.
OpenWindow ==
  /\ UIGoes("opening", "filling")
  /\ window' = "hidden"
  /\ UNCHANGED <<ending, proxy, animation, menu, handles>>

\* Mistake: the window is made hidden, and left so.
LeaveHidden ==
  /\ UIGoes("filling", "running")
  /\ UNCHANGED <<ending, proxy, animation, menu, view>>

\* show_window is always on.
FillWindow ==
  /\ UIGoes("filling", "running")
  /\ window' = "shown"
  /\ UNCHANGED <<ending, proxy, animation, menu, handles>>

\* What the user does in the window.
InWindow ==
  /\ ui = "running" /\ window = "shown"
  /\ clicks < MaxClicks /\ clicks' = clicks + 1
  /\ UNCHANGED <<events, check>>

CloseWindow ==
  /\ InWindow
  /\ window' = "hidden"
  /\ UNCHANGED <<threads, ending, proxy, animation, handles>>

ClickClear ==
  /\ InWindow /\ UIGoes("running", "clearing")
  /\ UNCHANGED <<ending, proxy, animation, view>>

Cleared ==
  /\ UIGoes("clearing", "running")
  /\ UNCHANGED <<ending, proxy, animation, menu, view>>

ClickExit ==
  /\ InWindow /\ UIGoes("running", "exiting")
  /\ shutdown' = Sent
  /\ UNCHANGED <<signal, exit, proxy, animation, view>>

ExitFromWindow ==
  /\ UIGoes("exiting", "done")
  /\ exit' = "0"
  /\ UNCHANGED <<signal, shutdown, proxy, animation, menu, view>>

-----------------------------------------------------------------------------
\* What the icon, the menu and the window tell the user.

TrayTypeOK ==
  /\ main \in {"load", "logfile", "start", "new", "icons", "counter", "menu", "failed",
               "loop", "toggled", "waiting", "exiting", "done"}
  /\ server \in {"none", "binding", "serving", "stopping", "done"}
  /\ ui \in {"none", "starting", "dead", "opening", "filling", "running", "clearing",
             "exiting", "done"}
  /\ signal \in {"off", "spawned", "armed", "caught"}
  /\ shutdown \in {"open", "sent", "dropped"}
  /\ exit \in {"no", "0", "1", "killed"}
  /\ enabled \in BOOLEAN /\ check \in BOOLEAN /\ handles \in BOOLEAN
  /\ outcome \in {"ok", "err"}
  /\ received \in Nat /\ last \in Nat /\ remaining \in 0 .. Ticks /\ clicks \in Nat
  /\ icons \in IconSets \union {{}}
  /\ tray \in {"none", "default", "off", "animated"}
  /\ events \in Seq({"toggle", "show", "exit"})
  /\ window \in {"none", "hidden", "shown"}

\* Whenever the event loop waits, the icon is the one for the toggle and the
\* animation as they are, "off" if the proxy is disabled, at rest if it has been idle;
\* but for an icon that could not be set, which nothing sets again before the next
\* update.
IconTellsState ==
  main \in {"loop", "waiting", "exiting"} /\ tray # "none" /\ outcome = "ok"
    => tray = IconFor(enabled, remaining)

\* The menu's check mark, which the menu flips at once, and the toggle, which the
\* event loop flips when it gets to the click, agree but for the clicks that wait.
MenuTellsState ==
  (check = enabled) <=>
    Cardinality({i \in DOMAIN events : events[i] = "toggle"}) % 2 = 0
=============================================================================
