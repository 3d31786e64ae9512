----------------------------- MODULE ServerProofs -----------------------------
(* Proofs about the accept loops: of ProxyServer, for every set of listeners,   *)
(* connections and configurations, and of ConfigReload, the step Reload of such *)
(* a loop, for any number of loops and edits and any choice of files that may   *)
(* be missing.                                                                  *)
EXTENDS ProxyServer, ConfigReload, FiniteSetTheorems, TLAPS

\* A loop between its accept and its decision holds a connection.
Held == \A l \in Listeners : Deciding(l) => conn[l] \in Conns

\* Ids are handed out in increasing order and the map stays finite.
IdsBelowNext == \A c \in Numbered : id[c] < nextId

IInv ==
  /\ TypeOK
  /\ Held
  /\ OneLoopPerConnection
  /\ IsFiniteSet(clients)
  /\ IdsBelowNext
  /\ UniqueIds
  /\ NoGhosts
  /\ RequestsCounted

-----------------------------------------------------------------------------
LEMMA InitInv == Init => IInv
  <1> SUFFICES ASSUME Init PROVE IInv
    OBVIOUS
  <1>1. TypeOK /\ Held /\ OneLoopPerConnection
    BY DEF Init, TypeOK, Held, OneLoopPerConnection, Deciding, Phases
  <1>2. Numbered = {} /\ Listed = {} /\ Served = {}
    BY DEF Init, Numbered, Listed, Served, In
  <1>3. IsFiniteSet(clients) /\ NoGhosts /\ RequestsCounted
    BY <1>2, FS_EmptySet DEF Init, NoGhosts, RequestsCounted
  <1>4. IdsBelowNext /\ UniqueIds
    BY <1>2 DEF IdsBelowNext, UniqueIds
  <1> QED
    BY <1>1, <1>3, <1>4 DEF IInv

\* TypeOK is inductive because the map is finite, so that it can be counted.
LEMMA TypeStep == IInv /\ [Next]_vars => TypeOK'
  <1> SUFFICES ASSUME TypeOK, Held, IsFiniteSet(clients), [Next]_vars PROVE TypeOK'
    BY DEF IInv
  <1> USE DEF TypeOK, Goto, Becomes, registry, loops, Phases, Running
  <1>1. ASSUME NEW l \in Listeners, NEW c \in Conns, Running(Accept(l, c)) PROVE TypeOK'
    BY <1>1 DEF Accept
  <1>2. ASSUME NEW l \in Listeners, Loop(l) PROVE TypeOK'
    <2>0. UNCHANGED up
      BY <1>2 DEF Loop
    <2>h. Deciding(l) => conn[l] \in Conns
      BY DEF Held
    <2>1. CASE Reload(l)
      BY <2>0, <2>1 DEF Reload
    <2>2. CASE Count(l)
      <3>1. Cardinality(clients) \in Nat
        BY FS_CardinalityType
      <3> QED
        BY <2>0, <2>2, <3>1 DEF Count
    <2>3. CASE TooMany(l)
      BY <2>0, <2>3 DEF TooMany
    <2>4. CASE BelowLimit(l)
      BY <2>0, <2>4 DEF BelowLimit
    <2>5. CASE AccessDenied(l)
      BY <2>0, <2>5 DEF AccessDenied
    <2>6. CASE Spawn(l)
      BY <2>0, <2>6 DEF Spawn
    <2>7. CASE LoadPanics(l)
      BY <2>0, <2>7 DEF LoadPanics
    <2> QED
      BY <1>2, <2>1, <2>2, <2>3, <2>4, <2>5, <2>6, <2>7 DEF Loop
  <1>3. ASSUME NEW c \in Conns, Task(c) PROVE TypeOK'
    <2>0. UNCHANGED up
      BY <1>3 DEF Task
    <2>1. CASE TakeId(c)
      BY <2>0, <2>1 DEF TakeId
    <2>2. CASE Insert(c)
      BY <2>0, <2>2 DEF Insert
    <2>3. CASE Serve(c)
      BY <2>0, <2>3 DEF Serve
    <2>4. CASE RemoveClient(c)
      BY <2>0, <2>4 DEF RemoveClient
    <2> QED
      BY <1>3, <2>1, <2>2, <2>3, <2>4 DEF Task
  <1>4. ASSUME NEW c \in Conns, Running(HandleReturns(c) \/ HandlePanics(c)) PROVE TypeOK'
    BY <1>4 DEF HandleReturns, HandlePanics
  <1>5. CASE RunEnds \/ UNCHANGED vars
    BY <1>5 DEF RunEnds, vars
  <1> QED
    BY <1>1, <1>2, <1>3, <1>4, <1>5 DEF Next

-----------------------------------------------------------------------------
\* A connection is decided on by the one loop that accepted it.
LEMMA LoopsStep == IInv /\ [Next]_vars => (Held /\ OneLoopPerConnection)'
  <1> SUFFICES ASSUME TypeOK, Held, OneLoopPerConnection, [Next]_vars
               PROVE  (Held /\ OneLoopPerConnection)'
    BY DEF IInv
  <1> USE DEF TypeOK, Goto, Becomes, registry, loops, Held, OneLoopPerConnection, Deciding
  <1>1. ASSUME NEW l \in Listeners, NEW c \in Conns, Accept(l, c)
        PROVE  (Held /\ OneLoopPerConnection)'
    BY <1>1 DEF Accept
  <1>2. ASSUME NEW l \in Listeners, Loop(l) PROVE (Held /\ OneLoopPerConnection)'
    <2>1. CASE Reload(l) \/ Count(l) \/ BelowLimit(l)
      BY <2>1 DEF Reload, Count, BelowLimit
    <2>2. CASE LoadPanics(l) \/ TooMany(l) \/ AccessDenied(l) \/ Spawn(l)
      BY <2>2 DEF LoadPanics, TooMany, AccessDenied, Spawn
    <2> QED
      BY <1>2, <2>1, <2>2 DEF Loop, Running
  <1>3. ASSUME NEW c \in Conns, Task(c) \/ HandleReturns(c) \/ HandlePanics(c)
        PROVE  (Held /\ OneLoopPerConnection)'
    BY <1>3 DEF Task, Running, TakeId, Insert, Serve, RemoveClient, HandleReturns, HandlePanics
  <1>4. CASE RunEnds \/ UNCHANGED vars
    BY <1>4 DEF RunEnds, vars
  <1> QED
    BY <1>1, <1>2, <1>3, <1>4 DEF Next, Running

-----------------------------------------------------------------------------
\* What IInv says of the registry.
RegistryInv ==
  /\ IsFiniteSet(clients) /\ IdsBelowNext /\ UniqueIds /\ NoGhosts /\ RequestsCounted

\* A step that leaves the registry and the three sets alone keeps RegistryInv.
LEMMA Elsewhere ==
  ASSUME RegistryInv, UNCHANGED <<registry, Numbered, Listed, Served>>
  PROVE  RegistryInv'
  BY DEF RegistryInv, registry, IdsBelowNext, UniqueIds, NoGhosts, RequestsCounted

\* The ids stay distinct, the map holds those it should, the counter counts.
LEMMA RegistryStep == IInv /\ [Next]_vars => RegistryInv'
  <1> SUFFICES ASSUME IInv, [Next]_vars PROVE RegistryInv'
    OBVIOUS
  <1>0. TypeOK /\ Held /\ OneLoopPerConnection /\ RegistryInv
    BY DEF IInv, RegistryInv
  <1> USE DEF Numbered, Listed, Served
  \* A move that leaves the registry alone and crosses no border.
  <1>1. ASSUME NEW c \in Conns, NEW p, Becomes(c, p), UNCHANGED registry,
               \/ /\ phase[c] \in {"outside", "accepted"}
                  /\ p \in {"accepted", "dropped", "refused", "denied", "spawned"}
               \/ phase[c] = "serving" /\ p \in {"leaving", "panicked"}
        PROVE  RegistryInv'
    <2>1. UNCHANGED <<Numbered, Listed, Served>>
      BY <1>0, <1>1 DEF TypeOK, Becomes, In
    <2> QED
      BY <1>0, <1>1, <2>1, Elsewhere
  <1>2. ASSUME NEW l \in Listeners, NEW c \in Conns, Accept(l, c) PROVE RegistryInv'
    BY <1>1, <1>2 DEF Accept
  <1>3. ASSUME NEW l \in Listeners, Loop(l) PROVE RegistryInv'
    <2>1. conn[l] \in Conns /\ phase[conn[l]] = "accepted" /\ UNCHANGED registry
      BY <1>0, <1>3 DEF Loop, Running, Reload, LoadPanics, Count, TooMany, BelowLimit,
         AccessDenied, Spawn, Held, OneLoopPerConnection, Deciding
    <2>2. CASE UNCHANGED phase
      BY <1>0, <2>1, <2>2, Elsewhere DEF In
    <2>3. CASE \E p \in {"dropped", "refused", "denied", "spawned"} : Becomes(conn[l], p)
      BY <1>1, <2>1, <2>3
    <2> QED
      BY <1>3, <2>2, <2>3 DEF Loop, Running, Reload, LoadPanics, Count, TooMany, BelowLimit,
         AccessDenied, Spawn
  <1>4. ASSUME NEW c \in Conns, HandleReturns(c) \/ HandlePanics(c) PROVE RegistryInv'
    BY <1>1, <1>4 DEF HandleReturns, HandlePanics
  <1>5. ASSUME NEW c \in Conns, TakeId(c) PROVE RegistryInv'
    <2>1. /\ Numbered' = Numbered \union {c} /\ c \notin Listed
          /\ UNCHANGED <<Listed, Served, clients, received>>
      BY <1>0, <1>5 DEF TakeId, TypeOK, Becomes, In
    <2>2. /\ nextId \in Nat /\ nextId' = nextId + 1 /\ id'[c] = nextId
          /\ \A d \in Conns : id[d] \in Nat /\ (d # c => id'[d] = id[d])
      BY <1>0, <1>5 DEF TakeId, TypeOK
    <2>3. Numbered \subseteq Conns /\ Listed \subseteq Conns
      BY DEF In
    <2> HIDE DEF Numbered, Listed, Served
    <2>4. IdsBelowNext' /\ UniqueIds'
      BY <1>0, <2>1, <2>2, <2>3 DEF RegistryInv, IdsBelowNext, UniqueIds
    <2>5. NoGhosts'
      BY <1>0, <2>1, <2>2, <2>3 DEF RegistryInv, NoGhosts
    <2> QED
      BY <1>0, <2>1, <2>4, <2>5 DEF RegistryInv, RequestsCounted
  <1>6. ASSUME NEW c \in Conns, Insert(c) PROVE RegistryInv'
    <2>1. /\ Listed' = Listed \union {c}
          /\ clients' = clients \union {id[c]}
          /\ UNCHANGED <<Numbered, Served, id, nextId, received>>
      BY <1>0, <1>6 DEF Insert, TypeOK, Becomes, In
    <2> HIDE DEF Numbered, Listed, Served
    <2>2. IsFiniteSet(clients')
      BY <1>0, <2>1, FS_AddElement DEF RegistryInv
    <2>3. NoGhosts'
      BY <1>0, <2>1 DEF RegistryInv, NoGhosts
    <2> QED
      BY <1>0, <2>1, <2>2, <2>3 DEF RegistryInv, IdsBelowNext, UniqueIds, RequestsCounted
  <1>7. ASSUME NEW c \in Conns, Serve(c) PROVE RegistryInv'
    <2>1. /\ Served' = Served \union {c} /\ c \notin Served /\ received' = received + 1
          /\ UNCHANGED <<Numbered, Listed, id, nextId, clients>>
      BY <1>0, <1>7 DEF Serve, TypeOK, Becomes, In
    <2>2. Served \in SUBSET Conns
      BY DEF In
    <2>3. IsFiniteSet(Served)
      BY <2>2, ServerAssumption, FS_Subset
    <2> HIDE DEF Numbered, Listed, Served
    <2>4. RequestsCounted'
      BY <1>0, <2>1, <2>3, FS_AddElement DEF RegistryInv, RequestsCounted
    <2> QED
      BY <1>0, <2>1, <2>4 DEF RegistryInv, IdsBelowNext, UniqueIds, NoGhosts
  <1>8. ASSUME NEW c \in Conns, RemoveClient(c) PROVE RegistryInv'
    <2>1. /\ Listed' = Listed \ {c} /\ clients' = clients \ {id[c]}
          /\ Listed \subseteq Numbered /\ c \in Listed
          /\ UNCHANGED <<Numbered, Served, id, nextId, received>>
      BY <1>0, <1>8 DEF RemoveClient, TypeOK, Becomes, In
    <2> HIDE DEF Numbered, Listed, Served
    <2>2. IsFiniteSet(clients')
      BY <1>0, <2>1, FS_RemoveElement DEF RegistryInv
    <2>3. NoGhosts'
      BY <1>0, <2>1 DEF RegistryInv, NoGhosts, UniqueIds
    <2> QED
      BY <1>0, <2>1, <2>2, <2>3 DEF RegistryInv, IdsBelowNext, UniqueIds, RequestsCounted
  <1>9. CASE RunEnds \/ UNCHANGED vars
    BY <1>0, <1>9, Elsewhere DEF RunEnds, vars, In
  <1> QED
    BY <1>2, <1>3, <1>4, <1>5, <1>6, <1>7, <1>8, <1>9 DEF Next, Task, Running

\* The inductive invariant holds throughout.
LEMMA Invariant == Spec => []IInv
  <1>1. IInv /\ [Next]_vars => IInv'
    BY TypeStep, LoopsStep, RegistryStep DEF IInv, RegistryInv
  <1> QED
    BY <1>1, InitInv, PTL DEF Spec

-----------------------------------------------------------------------------
\* Type correctness of the accept loops, the tasks and the registry.
THEOREM TypeCorrect == Spec => []TypeOK
  <1>1. IInv => TypeOK
    BY DEF IInv
  <1> QED
    BY <1>1, Invariant, PTL

\* create_client never gives one id to two tasks, however they interleave.
THEOREM IdsAreUnique == Spec => []UniqueIds
  <1>1. IInv => UniqueIds
    BY DEF IInv
  <1> QED
    BY <1>1, Invariant, PTL

\* The map holds exactly the clients in a handler and those whose handler died.
THEOREM NoGhostClients == Spec => []NoGhosts
  <1>1. IInv => NoGhosts
    BY DEF IInv
  <1> QED
    BY <1>1, Invariant, PTL

\* No two accept loops decide on one connection.
THEOREM OneLoopDecides == Spec => []OneLoopPerConnection
  <1>1. IInv => OneLoopPerConnection
    BY DEF IInv
  <1> QED
    BY <1>1, Invariant, PTL

\* The requests counter counts the connections that were handed to a handler.
THEOREM CounterIsExact == Spec => []RequestsCounted
  <1>1. IInv => RequestsCounted
    BY DEF IInv
  <1> QED
    BY <1>1, Invariant, PTL

-----------------------------------------------------------------------------
\* A move of one connection, as its client observes it.
LEMMA ObservedMove ==
  ASSUME TypeOK, NEW c \in Conns, NEW p, Becomes(c, p), UNCHANGED up
  PROVE  outcome' = [outcome EXCEPT ![c] = Observed(p)]
  BY DEF TypeOK, Becomes, outcome, Observed

\* Every step of the server is a step of Admission, or one it does not see.
LEMMA StepRefines == IInv /\ [Next]_vars => [Promise!Next]_outcome
  <1> SUFFICES ASSUME TypeOK, Held, OneLoopPerConnection, [Next]_vars
               PROVE  [Promise!Next]_outcome
    BY DEF IInv
  <1>1. ASSUME NEW c \in Conns, NEW p, Becomes(c, p), UNCHANGED up, Observed(p) = outcome[c]
        PROVE  UNCHANGED outcome
    BY <1>1, ObservedMove DEF outcome
  <1>2. ASSUME NEW c \in Conns, NEW p, Becomes(c, p), UNCHANGED up,
               \/ outcome[c] = "waiting" /\ Observed(p) \in {"dropped", "refused", "denied", "open"}
               \/ outcome[c] = "open" /\ Observed(p) \in {"closed", "died"}
        PROVE  Promise!Next
    BY <1>2, ObservedMove DEF Promise!Next, Promise!Decide, Promise!Leave
  <1>3. ASSUME NEW l \in Listeners, NEW c \in Conns, Running(Accept(l, c))
        PROVE  UNCHANGED outcome
    BY <1>1, <1>3 DEF Running, Accept, outcome, Observed
  <1>4. ASSUME NEW l \in Listeners, Loop(l) PROVE [Promise!Next]_outcome
    <2>1. /\ conn[l] \in Conns /\ outcome[conn[l]] = "waiting"
          /\ up /\ UNCHANGED up
      BY <1>4 DEF Loop, Running, Reload, LoadPanics, Count, TooMany, BelowLimit, AccessDenied,
         Spawn, Held, OneLoopPerConnection, Deciding, outcome, Observed
    <2>2. CASE UNCHANGED phase
      BY <2>1, <2>2 DEF outcome, Observed
    <2>3. CASE \E p \in {"dropped", "refused", "denied", "spawned"} : Becomes(conn[l], p)
      BY <1>2, <2>1, <2>3 DEF Observed
    <2> QED
      BY <1>4, <2>2, <2>3 DEF Loop, Running, Reload, LoadPanics, Count, TooMany, BelowLimit,
         AccessDenied, Spawn
  <1>5. ASSUME NEW c \in Conns, Task(c) PROVE UNCHANGED outcome
    BY <1>1, <1>5 DEF Task, Running, TakeId, Insert, Serve, RemoveClient, outcome, Observed
  <1>6. ASSUME NEW c \in Conns, Running(HandleReturns(c) \/ HandlePanics(c))
        PROVE  Promise!Next
    BY <1>2, <1>6 DEF Running, HandleReturns, HandlePanics, outcome, Observed
  \* The connections that are open die with the process.
  <1>7. CASE RunEnds
    <2>1. up /\ ~up' /\ UNCHANGED phase
      BY <1>7 DEF RunEnds
    <2>2. \A c \in Conns :
            Observed(phase[c])' = (IF Observed(phase[c]) = "open" THEN "died" ELSE Observed(phase[c]))
      BY <2>1 DEF Observed, TypeOK, Phases
    <2>3. Promise!Halt
      BY <2>2 DEF Promise!Halt, outcome
    <2> QED
      BY <2>3 DEF Promise!Next
  <1>8. CASE UNCHANGED vars
    BY <1>8 DEF vars, outcome, Observed
  <1> QED
    BY <1>3, <1>4, <1>5, <1>6, <1>7, <1>8 DEF Next

\* The server keeps its promise: every connection is decided once, and what was
\* let in stays open until its handler returns or dies.
THEOREM Refines == Spec => KeepsPromise
  <1>1. Init => Promise!Init
    BY DEF Init, Promise!Init, outcome, Observed
  <1> QED
    BY <1>1, StepRefines, Invariant, PTL DEF Spec, KeepsPromise, Promise!Spec

-----------------------------------------------------------------------------
\* The loads.

\* Every time ever seen is one the clock has passed.
SoundTimes ==
  /\ \A f \in Files : disk[f] <= clock
  /\ broken \subseteq 1 .. clock

\* The filters of c are those of the filter file, or its time shows they are not.
FilterTimes(c) == \A m \in c.mods : m[1] = "filter" => 1 <= m[2] /\ m[2] <= clock

FilterSound(c) ==
  \A m \in c.mods :
    m[1] = "filter" /\ disk["filter"] = m[2] => c.content["filter"] = Loads("filter")

BeforeFilter == {"read", "actions", "stat_actions", "stat_config", "restat_actions", "find_filter", "stat_filter"}

ReloadIInv ==
  /\ ReloadTypeOK
  /\ SoundTimes
  /\ FilterTimes(installed) /\ FilterSound(installed)
  /\ \A l \in Loops :
       /\ FilterTimes(draft[l])
       /\ place[l] \in BeforeFilter => ~Recorded(draft[l], "filter")
       /\ place[l] = "install" => FilterSound(draft[l])

-----------------------------------------------------------------------------
LEMMA ReloadInitInv == ReloadInit => ReloadIInv
  BY ReloadAssumption DEF ReloadInit, ReloadIInv, ReloadTypeOK, SoundTimes, FilterTimes, FilterSound,
     Recorded, BeforeFilter, Loads, Default, Config, Steps, Files

\* A step of one load changes its draft and its place, to a draft that is sound.
LEMMA DraftStep ==
  ASSUME ReloadIInv, NEW l \in Loops, NEW d \in Config, NEW p \in Steps,
         UNCHANGED <<files, installed>>,
         draft' = [draft EXCEPT ![l] = d], place' = [place EXCEPT ![l] = p],
         FilterTimes(d),
         p \in BeforeFilter => ~Recorded(d, "filter"),
         p = "install" => FilterSound(d)
  PROVE  ReloadIInv'
  <1>1. /\ UNCHANGED <<disk, clock, broken, fatal, installed>>
        /\ \A m \in Loops : draft'[m] = (IF m = l THEN d ELSE draft[m])
        /\ \A m \in Loops : place'[m] = (IF m = l THEN p ELSE place[m])
    BY DEF files, ReloadIInv, ReloadTypeOK
  <1>2. ReloadTypeOK'
    BY <1>1 DEF ReloadIInv, ReloadTypeOK, files
  <1> QED
    BY <1>1, <1>2 DEF ReloadIInv, SoundTimes, FilterTimes, FilterSound, Recorded, Loads

\* New contents of one file, and a new record, leave a Config a Config.
LEMMA NewContent ==
  ASSUME NEW c \in Config, NEW f \in Files, NEW t \in Nat
  PROVE  /\ [c EXCEPT !.content[f] = t] \in Config
         /\ [c EXCEPT !.content[f] = t].mods = c.mods
         /\ [c EXCEPT !.content[f] = t].content = [c.content EXCEPT ![f] = t]
         /\ [c.content EXCEPT ![f] = t] \in [Files -> Nat]
  BY DEF Config

LEMMA NewRecord ==
  ASSUME NEW c \in Config, NEW f \in Files, NEW t \in Nat
  PROVE  /\ [c EXCEPT !.mods = @ \union {<<f, t>>}] \in Config
         /\ [c EXCEPT !.mods = @ \union {<<f, t>>}].mods = c.mods \union {<<f, t>>}
         /\ [c EXCEPT !.mods = @ \union {<<f, t>>}].content = c.content
  BY DEF Config

LEMMA LoadedContent == ASSUME ReloadTypeOK, NEW f \in Files PROVE Loads(f) \in Nat
  BY DEF ReloadTypeOK, Loads

LEMMA Defaults ==
  ASSUME ReloadTypeOK, SoundTimes
  PROVE  /\ Default \in Config /\ FilterTimes(Default)
         /\ ~Recorded(Default, "filter") /\ FilterSound(Default)
  BY DEF ReloadTypeOK, SoundTimes, Default, Config, FilterTimes, Recorded, FilterSound

-----------------------------------------------------------------------------
\* An edit gives a file a time no record has, so a record that no longer says
\* what the file is has become one that shows it.
LEMMA AdminStep == ReloadIInv /\ Admin => ReloadIInv'
  <1> SUFFICES ASSUME ReloadIInv, Admin PROVE ReloadIInv'
    OBVIOUS
  <1>0. UNCHANGED <<installed, place, draft>>
    BY DEF Admin, Edit, Delete
  <1>a. fatal' \subseteq Nat
    <2>1. CASE \E f \in Files : \E made \in Makes(f) : Edit(f, made)
      <3>1. PICK made \in {"sound", "broken", "fatal"} :
              fatal' = fatal \union {t \in {clock'} : made = "fatal"}
        BY <2>1 DEF Edit, Makes
      <3>2. clock' \in Nat /\ fatal \subseteq Nat
        BY <2>1 DEF Edit, ReloadIInv, ReloadTypeOK
      <3> QED
        BY <3>1, <3>2
    <2>2. CASE \E f \in MayDelete : Delete(f)
      BY <2>2 DEF Delete, ReloadIInv, ReloadTypeOK
    <2> QED
      BY <2>1, <2>2 DEF Admin
  <1>1. /\ clock \in Nat /\ clock' \in Nat /\ clock <= clock'
        /\ broken \subseteq broken' /\ \A t \in broken' \ broken : t = clock' /\ clock < t
        /\ disk \in [Files -> Nat] /\ disk' \in [Files -> Nat]
        /\ \A f \in Files : disk'[f] = disk[f] \/ disk'[f] = 0 \/ (disk'[f] = clock' /\ clock < clock')
    BY DEF Admin, Edit, Delete, ReloadIInv, ReloadTypeOK, Missing
  <1>2. ReloadTypeOK'
    BY <1>0, <1>1, <1>a DEF ReloadIInv, ReloadTypeOK, SoundTimes
  <1>3. SoundTimes'
    BY <1>1 DEF ReloadIInv, SoundTimes
  <1>5. ASSUME NEW c \in Config, FilterTimes(c) PROVE FilterTimes(c)'
    <2> SUFFICES ASSUME NEW m \in c.mods, m[1] = "filter"
                 PROVE  1 <= m[2] /\ m[2] <= clock'
      BY DEF FilterTimes
    <2>1. m[2] \in Nat
      BY DEF Config
    <2> QED
      BY <1>1, <1>5, <2>1 DEF FilterTimes
  <1>6. ASSUME NEW c \in Config, FilterTimes(c), FilterSound(c) PROVE FilterSound(c)'
    <2> SUFFICES ASSUME NEW m \in c.mods, m[1] = "filter", disk'["filter"] = m[2]
                 PROVE  c.content["filter"] = Loads("filter")'
      BY DEF FilterSound
    <2>1. 1 <= m[2] /\ m[2] <= clock /\ m[2] \in Nat
      BY <1>6 DEF FilterTimes, Config
    <2>2. "filter" \in Files
      BY DEF Files
    <2>3. disk'["filter"] = disk["filter"]
      BY <1>1, <2>1, <2>2
    <2>4. c.content["filter"] = Loads("filter")
      BY <1>6, <2>3 DEF FilterSound
    <2>5. disk["filter"] \in broken' <=> disk["filter"] \in broken
      BY <1>1, <2>1, <2>2, <2>3
    <2> QED
      BY <2>3, <2>4, <2>5 DEF Loads
  <1>7. installed \in Config /\ \A l \in Loops : draft[l] \in Config
    BY DEF ReloadIInv, ReloadTypeOK
  <1>8. /\ FilterTimes(installed)' /\ FilterSound(installed)'
    BY <1>0, <1>5, <1>6, <1>7 DEF ReloadIInv, FilterTimes, FilterSound
  <1>9. ASSUME NEW l \in Loops
        PROVE  (/\ FilterTimes(draft[l])
                /\ place[l] \in BeforeFilter => ~Recorded(draft[l], "filter")
                /\ place[l] = "install" => FilterSound(draft[l]))'
    BY <1>0, <1>5, <1>6, <1>7 DEF ReloadIInv, FilterTimes, FilterSound, Recorded
  <1> QED
    BY <1>2, <1>3, <1>8, <1>9 DEF ReloadIInv

-----------------------------------------------------------------------------
\* A load: the filter file's time is recorded before it is read.
LEMMA LoadStep == ASSUME ReloadIInv, NEW l \in Loops, Check(l) \/ Load(l) PROVE ReloadIInv'
  <1> DEFINE d == draft[l]
  <1>0. /\ ReloadTypeOK /\ SoundTimes /\ d \in Config /\ FilterTimes(d)
        /\ place[l] \in BeforeFilter => ~Recorded(d, "filter")
        /\ draft = [draft EXCEPT ![l] = d]
        /\ clock \in Nat /\ disk \in [Files -> Nat]
    BY DEF ReloadIInv, ReloadTypeOK
  <1>f. "config" \in Files /\ "actions" \in Files /\ "filter" \in Files
    BY DEF Files
  <1>1. CASE Check(l) \/ LoadDies(l)
    <2>1. \E p \in {"exists", "dead"} : place' = [place EXCEPT ![l] = p]
      BY <1>1 DEF Check, LoadDies, Goes
    <2>2. UNCHANGED <<files, installed, draft>> /\ place[l] \in {"idle", "actions"}
      BY <1>1 DEF Check, LoadDies
    <2>3. CASE place' = [place EXCEPT ![l] = "dead"]
      BY <1>0, <2>2, <2>3, DraftStep DEF Steps, BeforeFilter
    <2>4. CASE place' = [place EXCEPT ![l] = "exists"]
      BY <1>0, <2>2, <2>4, DraftStep DEF Steps, BeforeFilter
    <2> QED
      BY <2>1, <2>3, <2>4
  <1>2. CASE Exists(l)
    <2>1. \E p \in {"install", "read"} :
            draft' = [draft EXCEPT ![l] = Default] /\ place' = [place EXCEPT ![l] = p]
      BY <1>2 DEF Exists, Goes
    <2>2. UNCHANGED <<files, installed>>
      BY <1>2 DEF Exists
    <2> QED
      BY <1>0, <2>1, <2>2, Defaults, DraftStep DEF Steps, BeforeFilter
  \* New contents, at a place where the filter file is not on record yet.
  <1>3. ASSUME NEW e \in Config, NEW p \in Steps \ {"install"}, UNCHANGED <<files, installed>>,
               draft' = [draft EXCEPT ![l] = e], place' = [place EXCEPT ![l] = p],
               e.mods = d.mods, place[l] \in BeforeFilter,
               NEW f \in Files, e.content = [d.content EXCEPT ![f] = Loads(f)]
        PROVE  ReloadIInv'
    <2>1. FilterTimes(e) /\ ~Recorded(e, "filter")
      BY <1>0, <1>3 DEF FilterTimes, Recorded
    <2> QED
      BY <1>3, <2>1, DraftStep
  <1>4. CASE ReadConfig(l)
    <2>1. CASE Loads("config") = 0
      BY <1>0, <1>4, <2>1, DraftStep DEF ReadConfig, Goes, Steps, BeforeFilter
    <2>2. CASE Loads("config") # 0
      <3> DEFINE e == [d EXCEPT !.config_file = TRUE, !.content["config"] = disk["config"]]
      <3>1. /\ draft' = [draft EXCEPT ![l] = e] /\ place' = [place EXCEPT ![l] = "actions"]
            /\ UNCHANGED <<files, installed>> /\ place[l] = "read"
        BY <1>0, <1>4, <2>2 DEF ReadConfig, Goes, ReloadTypeOK
      <3>2. disk["config"] = Loads("config")
        BY <2>2 DEF Loads
      <3>3. e \in Config /\ e.mods = d.mods /\ e.content = [d.content EXCEPT !["config"] = Loads("config")]
        BY <1>0, <1>f, <3>2 DEF Config
      <3> HIDE DEF e, d
      <3> QED
        BY <1>3, <1>f, <3>1, <3>3 DEF Steps, BeforeFilter
    <2> QED
      BY <2>1, <2>2
  <1>5. CASE ReadActions(l)
    <2> DEFINE e == [d EXCEPT !.content["actions"] = Loads("actions")]
    <2>1. /\ draft' = [draft EXCEPT ![l] = e] /\ UNCHANGED <<files, installed>> /\ place[l] = "actions"
          /\ \E p \in {"stat_config", "stat_actions"} : place' = [place EXCEPT ![l] = p]
      BY <1>0, <1>5 DEF ReadActions, Goes, ReloadTypeOK
    <2>2. /\ e \in Config /\ e.mods = d.mods
          /\ e.content = [d.content EXCEPT !["actions"] = Loads("actions")]
      BY <1>0, <1>f, NewContent, LoadedContent
    <2> HIDE DEF e, d
    <2> QED
      BY <1>3, <1>f, <2>1, <2>2 DEF Steps, BeforeFilter
  \* A record of another file than the filter file.
  <1>6. ASSUME NEW f \in {"config", "actions"}, NEW p \in BeforeFilter, Record(l, f, p),
               place[l] \in BeforeFilter
        PROVE  ReloadIInv'
    <2> DEFINE e == [d EXCEPT !.mods = @ \union {<<f, disk[f]>>}]
    <2>1. UNCHANGED <<files, installed>> /\ place' = [place EXCEPT ![l] = p] /\ f \in Files /\ p \in Steps
      BY <1>6, <1>f DEF Record, Goes, BeforeFilter, Steps
    <2>2. draft' = [draft EXCEPT ![l] = d] \/ draft' = [draft EXCEPT ![l] = e]
      BY <1>0, <1>6 DEF Record, ReloadTypeOK
    <2>3. CASE draft' = [draft EXCEPT ![l] = d]
      BY <1>0, <1>6, <2>1, <2>3, DraftStep DEF BeforeFilter
    <2>4. CASE draft' = [draft EXCEPT ![l] = e]
      <3>1. e \in Config /\ e.mods = d.mods \union {<<f, disk[f]>>} /\ e.content = d.content
        BY <1>0, <2>1, NewRecord
      <3>2. FilterTimes(e) /\ ~Recorded(e, "filter")
        BY <1>0, <1>6, <3>1 DEF FilterTimes, Recorded
      <3> HIDE DEF e
      <3> QED
        BY <1>6, <2>1, <2>4, <3>1, <3>2, DraftStep DEF BeforeFilter
    <2> QED
      BY <2>2, <2>3, <2>4
  <1>7. CASE StatActions(l) \/ StatConfig(l) \/ RestatActions(l)
    BY <1>6, <1>7 DEF StatActions, StatConfig, RestatActions, BeforeFilter
  <1>8. CASE FindFilter(l)
    <2>1. UNCHANGED <<files, installed, draft>> /\ place[l] = "find_filter"
          /\ \E p \in {"install", "stat_filter"} : place' = [place EXCEPT ![l] = p]
      BY <1>8 DEF FindFilter, Goes
    <2>2. ~Recorded(d, "filter")
      BY <1>0, <2>1 DEF BeforeFilter
    <2>3. FilterSound(d)
      BY <2>2 DEF FilterSound, Recorded
    <2> QED
      BY <1>0, <2>1, <2>2, <2>3, DraftStep DEF Steps, BeforeFilter
  <1>10. CASE StatFilter(l)
    <2> DEFINE e == [d EXCEPT !.mods = @ \union {<<"filter", disk["filter"]>>}]
    <2>1. UNCHANGED <<files, installed>> /\ place[l] = "stat_filter"
          /\ place' = [place EXCEPT ![l] = "filter"]
      BY <1>10 DEF StatFilter, Record, Goes
    <2>2. CASE disk["filter"] = Missing
      <3>1. draft' = [draft EXCEPT ![l] = d]
        BY <1>0, <1>10, <2>2 DEF StatFilter, Record
      <3> QED
        BY <1>0, <2>1, <3>1, DraftStep DEF Steps, BeforeFilter
    <2>3. CASE disk["filter"] # Missing
      <3>1. draft' = [draft EXCEPT ![l] = e]
        BY <1>0, <1>10, <2>3 DEF StatFilter, Record, ReloadTypeOK
      <3>2. e \in Config /\ e.mods = d.mods \union {<<"filter", disk["filter"]>>}
        BY <1>0, <1>f, NewRecord
      <3>3. 1 <= disk["filter"] /\ disk["filter"] <= clock
        BY <1>0, <1>f, <2>3 DEF SoundTimes, Missing
      <3>4. FilterTimes(e)
        BY <1>0, <3>2, <3>3 DEF FilterTimes
      <3> HIDE DEF e
      <3> QED
        BY <2>1, <3>1, <3>2, <3>4, DraftStep DEF Steps, BeforeFilter
    <2> QED
      BY <2>2, <2>3
  <1>9. CASE ReadFilter(l)
    <2> DEFINE e == [d EXCEPT !.content["filter"] = Loads("filter")]
    <2>1. /\ draft' = [draft EXCEPT ![l] = e] /\ UNCHANGED <<files, installed>>
          /\ place' = [place EXCEPT ![l] = "install"]
      BY <1>0, <1>9 DEF ReadFilter, Goes, ReloadTypeOK
    <2>2. /\ e \in Config /\ e.mods = d.mods
          /\ e.content = [d.content EXCEPT !["filter"] = Loads("filter")]
          /\ d.content \in [Files -> Nat]
      BY <1>0, <1>f, NewContent, LoadedContent DEF Config
    <2>3. FilterTimes(e)
      BY <1>0, <2>2 DEF FilterTimes
    <2>4. FilterSound(e)
      BY <1>f, <2>2 DEF FilterSound
    <2> HIDE DEF e, d
    <2> QED
      BY <2>1, <2>2, <2>3, <2>4, DraftStep DEF Steps, BeforeFilter
  <1> QED
    BY <1>1, <1>2, <1>4, <1>5, <1>7, <1>8, <1>9, <1>10 DEF Load

LEMMA InstallStep == ASSUME ReloadIInv, NEW l \in Loops, Install(l) PROVE ReloadIInv'
  <1>1. /\ place[l] = "install" /\ installed' = draft[l] /\ place' = [place EXCEPT ![l] = "idle"]
        /\ UNCHANGED <<disk, clock, broken, fatal, draft>>
    BY DEF Install, Goes, files
  <1>2. ReloadTypeOK' /\ SoundTimes'
    BY <1>1 DEF ReloadIInv, ReloadTypeOK, SoundTimes, Steps
  <1>3. FilterTimes(installed)' /\ FilterSound(installed)'
    BY <1>1 DEF ReloadIInv, FilterTimes, FilterSound, Loads
  <1>4. ASSUME NEW m \in Loops
        PROVE  (/\ FilterTimes(draft[m])
                /\ place[m] \in BeforeFilter => ~Recorded(draft[m], "filter")
                /\ place[m] = "install" => FilterSound(draft[m]))'
    BY <1>1 DEF ReloadIInv, ReloadTypeOK, BeforeFilter, FilterTimes, FilterSound, Recorded, Loads
  <1> QED
    BY <1>2, <1>3, <1>4 DEF ReloadIInv

LEMMA ReloadInvariant == ReloadSpec => []ReloadIInv
  <1>1. ReloadIInv /\ UNCHANGED reload_vars => ReloadIInv'
    BY DEF reload_vars, files, ReloadIInv, ReloadTypeOK, SoundTimes, FilterTimes, FilterSound,
       Recorded, Loads
  <1>2. ReloadIInv /\ [ReloadNext]_reload_vars => ReloadIInv'
    BY <1>1, AdminStep, LoadStep, InstallStep DEF ReloadNext
  <1> QED
    BY <1>2, ReloadInitInv, PTL DEF ReloadSpec

-----------------------------------------------------------------------------
\* Type correctness of the loads and of the Configs they make.
THEOREM ReloadTypeCorrect == ReloadSpec => []ReloadTypeOK
  <1>1. ReloadIInv => ReloadTypeOK
    BY DEF ReloadIInv
  <1> QED
    BY <1>1, ReloadInvariant, PTL

\* A Config with the filter file on record and other filters than that file's
\* is one that needs_reload, whatever edits fell into the load that made it.
THEOREM FilterEditIsNoticed == ReloadSpec => []FilterEditNoticed
  <1>1. ReloadIInv => FilterEditNoticed
    BY DEF ReloadIInv, FilterSound, FilterEditNoticed, Recorded, needs_reload, has_been_modified
  <1> QED
    BY <1>1, ReloadInvariant, PTL

=============================================================================
