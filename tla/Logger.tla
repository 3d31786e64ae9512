--------------------------------- MODULE Logger ---------------------------------
(* The log of the tray build: GuiLogLayer.on_event, the two registries that it   *)
(* reads late, and the log window's copy (src/src/logger.rs, and                 *)
(* setup_log_window of src/src/tray_icon.rs).                                    *)
(*                                                                               *)
(* The window's update while it is open is left out: it asks LOG_WINDOW_VISIBLE, *)
(* which nothing sets.  Flushing has no effect on a file without a buffer.       *)
EXTENDS Integers, Sequences, SequencesExt

CONSTANTS
  Thread,      \* the threads that log
  HasFile,     \* the configuration names a log file
  MaxLines,    \* max_buffer_lines, 1000 in the program
  MaxLogged    \* bound on the lines a thread logs

ASSUME LogAssumption == HasFile \in BOOLEAN /\ MaxLines \in Nat \ {0} /\ MaxLogged \in Nat

VARIABLES
  registry,    \* the registries that are filled, of {"file", "cache"}
  cache,       \* the lines of the GUI cache
  file,        \* the lines written to the log file
  lost,        \* the lines whose write failed, which the code does not note
  text,        \* the lines in the window's text area
  log          \* what each thread is about while it logs

logVars == <<registry, cache, file, lost, text, log>>

\* The n-th line of a thread.
Line(t) == <<t, log[t].n>>

Free(t) == t \in Thread => log[t].pc = "idle"

LogInit ==
  /\ registry = {}
  /\ cache = <<>> /\ file = {} /\ lost = {} /\ text = <<>>
  /\ log = [t \in Thread |-> [pc |-> "idle", n |-> 0, got |-> {}]]

-----------------------------------------------------------------------------
\* update_log_file and register_gui_cache.

RegisterFile ==
  /\ registry' = IF HasFile THEN registry \cup {"file"} ELSE registry
  /\ UNCHANGED <<cache, file, lost, text, log>>

RegisterCache ==
  /\ registry' = registry \cup {"cache"}
  /\ UNCHANGED <<cache, file, lost, text, log>>

-----------------------------------------------------------------------------
\* on_event, in the thread that logs.

\* A line is logged.  The two registries are read one after the other; no thread
\* logs while the file is registered, so that one step may stand for both.
Find(t) ==
  /\ log[t].pc = "idle"
  /\ log[t].n < MaxLogged
  /\ log' = [log EXCEPT ![t] = [pc |-> "push", n |-> @.n + 1, got |-> registry]]
  /\ UNCHANGED <<registry, cache, file, lost, text>>

\* The oldest lines are drained.
Drained(lines) ==
  IF Len(lines) > MaxLines THEN SubSeq(lines, Len(lines) - MaxLines + 1, Len(lines)) ELSE lines

\* Mistake: a line that went to the cache has been logged.
PushOnly(t) ==
  /\ log[t].pc = "push"
  /\ cache' = IF "cache" \in log[t].got THEN Drained(Append(cache, Line(t))) ELSE cache
  /\ log' = [log EXCEPT ![t].pc = IF "cache" \in log[t].got THEN "idle" ELSE "write"]
  /\ UNCHANGED <<registry, file, lost, text>>

\* Under the cache's lock.
Push(t) ==
  /\ log[t].pc = "push"
  /\ cache' = IF "cache" \in log[t].got THEN Drained(Append(cache, Line(t))) ELSE cache
  /\ log' = [log EXCEPT ![t].pc = "write"]
  /\ UNCHANGED <<registry, file, lost, text>>

\* Under the file's lock.  That the write fails is ignored: the line is lost, in
\* whole or in part, and the thread goes on.
Write(t) ==
  /\ log[t].pc = "write"
  /\ \/ /\ file' = IF "file" \in log[t].got THEN file \cup {Line(t)} ELSE file
        /\ lost' = lost
     \/ "file" \in log[t].got /\ lost' = lost \cup {Line(t)} /\ file' = file
  /\ log' = [log EXCEPT ![t].pc = "idle"]
  /\ UNCHANGED <<registry, cache, text>>

LogStep(t) == Push(t) \/ Write(t)

-----------------------------------------------------------------------------
\* The log window, in the UI thread.

\* setup_log_window copies the cache under its lock.
FillText ==
  /\ text' = cache
  /\ UNCHANGED <<registry, cache, file, lost, log>>

ClearCache ==
  /\ cache' = <<>>
  /\ UNCHANGED <<registry, file, lost, text, log>>

ClearText ==
  /\ text' = <<>>
  /\ UNCHANGED <<registry, cache, file, lost, log>>

-----------------------------------------------------------------------------
LogTypeOK ==
  /\ registry \subseteq {"file", "cache"}
  /\ cache \in Seq(Thread \X Nat) /\ text \in Seq(Thread \X Nat)
  /\ file \subseteq Thread \X Nat /\ lost \subseteq Thread \X Nat
  /\ log \in [Thread -> [pc : {"idle", "push", "write"}, n : Nat,
                         got : SUBSET {"file", "cache"}]]

\* A line that the log window can show is in the log file, or the thread that logs
\* it is about to write it there, or its write has failed: but for the end of the
\* process and an error of the file nothing keeps a line that was shown out of it.
\* The two registries are filled while threads log, and are read one after the other.
ShownIsLogged ==
  HasFile =>
    \A line \in ToSet(cache) \cup ToSet(text) :
      \/ line \in file \cup lost
      \/ \E t \in Thread : line = Line(t) /\ log[t].pc = "write" /\ "file" \in log[t].got

\* The cache never exceeds its limit and holds the latest lines: of each thread the
\* ones it logged last, in the order it logged them and without a gap.
CacheHoldsLatest ==
  /\ Len(cache) <= MaxLines
  /\ \A i, j \in DOMAIN cache :
       i < j /\ cache[i][1] = cache[j][1]
         => \/ cache[j][2] = cache[i][2] + 1
            \/ \E k \in i + 1 .. j - 1 :
                 cache[k][1] = cache[i][1] /\ cache[k][2] = cache[i][2] + 1
  /\ \A t \in Thread : \A i \in DOMAIN cache :
       cache[i][1] = t /\ log[t].pc = "idle" =>
         \E j \in DOMAIN cache : cache[j] = Line(t)
=============================================================================
