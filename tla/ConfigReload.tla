----------------------------- MODULE ConfigReload -----------------------------
(* Reloading the configuration: what each accept loop does between accepting a *)
(* connection and deciding on it (src/src/server.rs), Config::reload_if_changed *)
(* and Config::load (src/src/config.rs), against files an administrator edits.  *)
(*                                                                              *)
(* One config file names one actions file and one filter file.  A file's        *)
(* contents are identified by its modification time, a number from one clock;   *)
(* 0 is the time of a file that is not there and the contents of a file that    *)
(* was not loaded.                                                              *)
EXTENDS Integers

CONSTANTS
  Loops,   \* one accept loop for each
  MaxEdits,    \* bound on the number of edits
  MayDelete    \* the files that may be missing for a while

Files == {"config", "actions", "filter"}
Missing == 0

ASSUME ReloadAssumption == MaxEdits \in Nat /\ MayDelete \subseteq Files

VARIABLES
  disk,       \* the modification time of each file
  clock,      \* the latest modification time
  broken,     \* the contents that do not load: a config file with a value that
              \* does not parse, a file that is not text
  fatal,      \* the contents the parser of action strings panics on
  installed,  \* the shared Config: its config_file, file_modifications and
              \* the contents of each file it was made from
  place,      \* where each accept loop stands
  draft       \* the Config an accept loop is building

files == <<disk, clock, broken, fatal>>
reload_vars == <<files, installed, place, draft>>

\* Config::default().
Default == [config_file |-> FALSE, mods |-> {}, content |-> [f \in Files |-> 0]]

Loads(f) == IF disk[f] \in broken THEN 0 ELSE disk[f]

\* Mistake: only a newer file is a modified one.
has_become_newer(m) == disk[m[1]] > m[2]

has_been_modified(m) == disk[m[1]] # m[2]

\* Mistake: only the config file is watched.
needs_reload_config(c) == \E m \in c.mods : m[1] = "config" /\ has_been_modified(m)

needs_reload(c) == \E m \in c.mods : has_been_modified(m)

ReloadInit ==
  /\ disk = [f \in Files |-> 1] /\ clock = 1 /\ broken = {} /\ fatal = {}
  /\ installed = [config_file |-> TRUE,
                  mods |-> {<<f, 1>> : f \in Files},
                  content |-> disk]
  /\ place = [l \in Loops |-> "idle"]
  /\ draft = [l \in Loops |-> Default]

-----------------------------------------------------------------------------
\* The administrator.

\* What new contents may be; only the actions file has action strings.
Makes(f) == IF f = "actions" THEN {"sound", "broken", "fatal"} ELSE {"sound", "broken"}

Edit(f, made) ==
  /\ clock <= MaxEdits
  /\ clock' = clock + 1
  /\ disk' = [disk EXCEPT ![f] = clock']
  /\ broken' = broken \union {t \in {clock'} : made = "broken"}
  /\ fatal' = fatal \union {t \in {clock'} : made = "fatal"}
  /\ UNCHANGED <<installed, place, draft>>

\* An editor that replaces a file takes the old one away first.
Delete(f) ==
  /\ clock <= MaxEdits /\ disk[f] # Missing
  /\ disk' = [disk EXCEPT ![f] = Missing]
  /\ UNCHANGED <<clock, broken, fatal, installed, place, draft>>

-----------------------------------------------------------------------------
\* reload_if_changed and load, under the read lock of the shared Config.

Goes(l, to) == place' = [place EXCEPT ![l] = to]

\* A Config without a file to load from is never loaded again.
Check(l) ==
  /\ place[l] = "idle"
  /\ needs_reload(installed) /\ installed.config_file
  /\ Goes(l, "exists")
  /\ UNCHANGED <<files, installed, draft>>

Exists(l) ==
  /\ place[l] = "exists"
  /\ draft' = [draft EXCEPT ![l] = Default]
  /\ Goes(l, IF disk["config"] = Missing THEN "install" ELSE "read")
  /\ UNCHANGED <<files, installed>>

\* An unreadable or malformed config file leaves the old Config in place.
ReadConfig(l) ==
  /\ place[l] = "read"
  /\ IF Loads("config") = 0
     THEN Goes(l, "idle") /\ UNCHANGED draft
     ELSE /\ Goes(l, "actions")
          /\ draft' = [draft EXCEPT ![l].config_file = TRUE,
                                    ![l].content["config"] = disk["config"]]
  /\ UNCHANGED <<files, installed>>

\* Config::parse loads the actions file it names; one that does not load is
\* skipped, with a warning.
ReadActions(l) ==
  /\ place[l] = "actions" /\ disk["actions"] \notin fatal
  /\ draft' = [draft EXCEPT ![l].content["actions"] = Loads("actions")]
  /\ Goes(l, IF Loads("actions") = 0 THEN "stat_config" ELSE "stat_actions")
  /\ UNCHANGED <<files, installed>>

\* A rule's action string is cut at an offset beyond its end (ActionString.Panics):
\* the accept loop is no more, and its read lock is gone with it.
LoadDies(l) ==
  /\ place[l] = "actions" /\ disk["actions"] \in fatal
  /\ Goes(l, "dead")
  /\ UNCHANGED <<files, installed, draft>>

\* Only a file that is there has its modification time recorded.
Record(l, f, next) ==
  /\ draft' = IF disk[f] = Missing THEN draft
              ELSE [draft EXCEPT ![l].mods = @ \union {<<f, disk[f]>>}]
  /\ Goes(l, next)
  /\ UNCHANGED <<files, installed>>

StatActions(l) == place[l] = "stat_actions" /\ Record(l, "actions", "stat_config")
StatConfig(l) == place[l] = "stat_config" /\ Record(l, "config", "restat_actions")
RestatActions(l) == place[l] = "restat_actions" /\ Record(l, "actions", "find_filter")

\* The filter file is looked for, then its time is taken, then it is read, whatever
\* has become of it in between.
FindFilter(l) ==
  /\ place[l] = "find_filter"
  /\ Goes(l, IF disk["filter"] = Missing THEN "install" ELSE "stat_filter")
  /\ UNCHANGED <<files, installed, draft>>

StatFilter(l) == place[l] = "stat_filter" /\ Record(l, "filter", "filter")

ReadFilter(l) ==
  /\ place[l] = "filter"
  /\ draft' = [draft EXCEPT ![l].content["filter"] = Loads("filter")]
  /\ Goes(l, "install")
  /\ UNCHANGED <<files, installed>>

-----------------------------------------------------------------------------
\* accept_loop: the read lock is gone, the write lock waits for every reader.

Reading(l) == place[l] \notin {"idle", "install", "dead"}

Install(l) ==
  /\ place[l] = "install"
  /\ \A m \in Loops : ~Reading(m)
  /\ installed' = draft[l]
  /\ Goes(l, "idle")
  /\ UNCHANGED <<files, draft>>

-----------------------------------------------------------------------------

Load(l) ==
  \/ Exists(l) \/ ReadConfig(l) \/ ReadActions(l) \/ LoadDies(l) \/ StatActions(l)
  \/ StatConfig(l) \/ RestatActions(l) \/ FindFilter(l) \/ StatFilter(l) \/ ReadFilter(l)

Admin ==
  \/ \E f \in Files : \E made \in Makes(f) : Edit(f, made)
  \/ \E f \in MayDelete : Delete(f)

ReloadNext == Admin \/ \E l \in Loops : Check(l) \/ Load(l) \/ Install(l)

ReloadSpec == ReloadInit /\ [][ReloadNext]_reload_vars

\* A load goes on once it has begun, and a writer waiting for the lock is let in:
\* parking_lot admits no new reader before it.  Check is not fair: it takes a
\* connection to make a loop look at the files.
ReloadFairSpec ==
  /\ ReloadSpec
  /\ \A l \in Loops : WF_reload_vars(Load(l)) /\ SF_reload_vars(Install(l))

-----------------------------------------------------------------------------
Steps ==
  {"idle", "exists", "read", "actions", "stat_actions", "stat_config",
   "restat_actions", "find_filter", "stat_filter", "filter", "install", "dead"}

Config ==
  [config_file : BOOLEAN, mods : SUBSET (Files \X Nat), content : [Files -> Nat]]

\* Every variable keeps the type its field or local has.
ReloadTypeOK ==
  /\ disk \in [Files -> Nat] /\ clock \in Nat /\ broken \subseteq Nat /\ fatal \subseteq Nat
  /\ installed \in Config
  /\ place \in [Loops -> Steps]
  /\ draft \in [Loops -> Config]

Recorded(c, f) == \E m \in c.mods : m[1] = f

\* A filter file's time is taken before its contents: as long as the Config has
\* the file on record, contents it no longer agrees with make it reload,
\* whatever edits fell between the steps of the load that made it.
FilterEditNoticed ==
  Recorded(installed, "filter") /\ installed.content["filter"] # Loads("filter")
  => needs_reload(installed)

\* A listener that outlives every load and whose clients keep connecting, so that it
\* looks at the files again whenever there is something to load.
Visited(l) == [](place[l] # "dead") /\ WF_reload_vars(Check(l))

\* When the edits are over and have left a config file that parses, the filters
\* in force become those of the filter file, also when two accept loops load at
\* once and install their Configs in the other order, or one dies in its load.  It
\* takes one listener that is left and visited, and a config and a filter file that
\* are never away: the defaults installed while the config file was away know of no
\* file to look at.
FilterCatchesUp ==
  /\ [](disk["config"] # Missing /\ disk["filter"] # Missing)
  /\ <>[](Loads("config") # 0)
  /\ \E l \in Loops : Visited(l)
  => <>[](installed.content["filter"] = Loads("filter"))

=============================================================================
