--------------------------------- MODULE Desktop ---------------------------------
(* The process of the tray build: the threads of Tray, each of which logs        *)
(* through Logger, until one of them ends the process and cuts the others off    *)
(* wherever they are.  A thread does nothing else while it logs; how many lines  *)
(* it logs, and where, is left open.                                             *)
EXTENDS Logger, Tray

vars == <<logVars, trayVars>>

Init == LogInit /\ TrayInit

\* The threads that may log; the Ctrl-C task is left out.
Runs(t) ==
  CASE t = "main" -> main \notin {"done"}
    [] t = "server" -> server \notin {"none", "done"}
    [] OTHER -> ui \notin {"none", "dead", "done"}

\* A thread's own step, between two lines that it logs.
Step(t, action) == Free(t) /\ action
Quiet(t, action) == Step(t, action) /\ UNCHANGED logVars

Logs(t) == Runs(t) /\ Find(t) /\ UNCHANGED trayVars
GoesOnLogging(t) == LogStep(t) /\ UNCHANGED trayVars

StartUp ==
  \/ Quiet("main", LoadConfig \/ (HasFile /\ LogFileFails) \/ StartProxy \/ LoadIcons
                   \/ ReadCounter \/ StartLoop \/ ReturnError)
  \/ Step("main", OpenLogFile /\ RegisterFile)
  \/ Step("main", NewApp /\ RegisterCache)

Takes == Quiet("main", ToggleTaken \/ ShowAgain \/ ShowFirst \/ ExitTaken)
Ticking == Quiet("main", Tick)
Continues == Quiet("main", UpdateIcon \/ ReceiveHandles \/ ExitFromMenu)

Proxying == Quiet("server", Bind \/ StopProxy \/ ExitProcess)

Windowing ==
  \/ Quiet("ui", StartUI \/ OpenWindow \/ ExitFromWindow)
  \/ Step("ui", FillWindow /\ FillText)
  \/ Step("ui", Cleared /\ ClearText)

\* Clear Log empties the cache under its lock, then the text.
Clears == Step("ui", ClickClear /\ ClearCache)

Interrupts == (ArmSignal \/ CtrlC) /\ UNCHANGED logVars

\* A proxy that ends by itself; it need not.
Fails == Quiet("server", LoopsEnd)

Acts ==
  /\ \/ Connection
     \/ \E kind \in {"toggle", "show", "exit"} : Click(kind)
     \/ Step("ui", CloseWindow \/ ClickExit)
  /\ UNCHANGED logVars

Next ==
  /\ exit = "no"
  /\ \/ \E t \in Thread : Logs(t) \/ GoesOnLogging(t)
     \/ StartUp \/ Takes \/ Ticking \/ Continues \/ Proxying \/ Windowing \/ Clears
     \/ Interrupts \/ Fails \/ Acts

Alive(action) == exit = "no" /\ action

\* The threads run; nobody has to click, connect or interrupt.  The event loop gets
\* to its clicks and to its ticks.
Fairness ==
  /\ \A t \in Thread : WF_vars(Alive(GoesOnLogging(t)))
  /\ WF_vars(Alive(StartUp)) /\ WF_vars(Alive(Takes)) /\ WF_vars(Alive(Ticking))
  /\ WF_vars(Alive(Continues)) /\ WF_vars(Alive(Proxying)) /\ WF_vars(Alive(Windowing))
  /\ WF_vars(Alive(ArmSignal /\ UNCHANGED logVars))

Spec == Init /\ [][Next]_vars /\ Fairness

-----------------------------------------------------------------------------
TypeOK == LogTypeOK /\ TrayTypeOK

\* A process that was asked to end, by Ctrl-C, by one of the two Exit items or by
\* a proxy or a tray icon that could not start, ends: no thread keeps it alive.
EndsWhenAsked ==
  (\/ signal = "caught" \/ shutdown # "open" \/ server = "stopping"
   \/ \E i \in DOMAIN events : events[i] = "exit") ~> (exit # "no")

\* A connection that is counted after the app has read the counter (those before it
\* are only noted) starts the animation, at the tick that notes it: a number of
\* connections in one tick start it together.
ActivityNoticed ==
  \A k \in 1 .. MaxReceived :
    (main \in {"menu", "loop", "toggled", "waiting"} /\ last < k /\ received >= k)
      ~> ((last >= k /\ remaining = Ticks - 1) \/ exit # "no")

\* A click on the icon brings the log window up, even one made while the window is
\* being made or after it was closed; only a UI that does not start prevents it.
ClickShowsWindow ==
  (\E i \in DOMAIN events : events[i] = "show")
    ~> (window = "shown" \/ (ui = "dead" /\ main # "waiting") \/ exit # "no")
=============================================================================
