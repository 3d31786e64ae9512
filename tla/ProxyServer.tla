----------------------------- MODULE ProxyServer -----------------------------
(* The accept loops of ProxyServer (src/src/server.rs), one task per listener,  *)
(* the task each spawns per connection, and the ClientManager they share        *)
(* (src/src/state.rs).                                                          *)
EXTENDS Integers, FiniteSets

CONSTANTS
  Listeners,   \* the addresses the server listens on
  Conns,       \* the connections that may arrive, each from a peer of its own
  Configs,     \* the configurations a reload may install
  Nobody       \* what a loop holds before its first connection

ASSUME ServerAssumption ==
  /\ IsFiniteSet(Conns) /\ Nobody \notin Conns
  /\ \A g \in Configs : g.max \in Nat /\ g.denied \subseteq Conns

VARIABLES
  up,         \* ProxyServer::run has not returned
  config,     \* the shared configuration: its connection limit and the peers
              \* its access control list denies
  pc,         \* where each accept loop stands
  conn,       \* the connection a loop is deciding on
  count,      \* the client_count a loop has read
  phase,      \* how far each connection has come
  id,         \* the client id of a connection's task
  nextId,     \* ClientManager.next_id
  clients,    \* the keys of ClientManager.clients
  received    \* Statistics.requests_received

loops == <<pc, conn, count>>
registry == <<id, nextId, clients, received>>
vars == <<up, config, loops, phase, registry>>

Init ==
  /\ up = TRUE
  /\ config \in Configs
  /\ pc = [l \in Listeners |-> "accept"]
  /\ conn = [l \in Listeners |-> Nobody]
  /\ count = [l \in Listeners |-> 0]
  /\ phase = [c \in Conns |-> "outside"]
  /\ id = [c \in Conns |-> 0]
  /\ nextId = 1 /\ clients = {} /\ received = 0

-----------------------------------------------------------------------------
\* accept_loop.

Goto(l, to) == pc' = [pc EXCEPT ![l] = to]
Becomes(c, to) == phase' = [phase EXCEPT ![c] = to]

Accept(l, c) ==
  /\ pc[l] = "accept" /\ phase[c] = "outside"
  /\ conn' = [conn EXCEPT ![l] = c]
  /\ Becomes(c, "accepted")
  /\ Goto(l, "reload")
  /\ UNCHANGED <<config, count, registry>>

\* reload_if_changed found nothing to load or failed, or gave a new Config (the
\* steps of a load are in ConfigReload).
Reload(l) ==
  /\ pc[l] = "reload"
  /\ config' \in Configs
  /\ Goto(l, "count")
  /\ UNCHANGED <<conn, count, phase, registry>>

\* It panics, on an actions file ActionString.Panics says so of: the unwinding ends
\* the loop's task, drops the connection and lets go of the configuration's lock.
LoadPanics(l) ==
  /\ pc[l] = "reload"
  /\ Becomes(conn[l], "dropped")
  /\ Goto(l, "dead")
  /\ UNCHANGED <<config, conn, count, registry>>

Count(l) ==
  /\ pc[l] = "count"
  /\ count' = [count EXCEPT ![l] = Cardinality(clients)]
  /\ Goto(l, "limit")
  /\ UNCHANGED <<config, conn, phase, registry>>

\* Mistakes: the two tests of the limit leave a gap; no return to accept.
TooManyAbove(l) ==
  /\ pc[l] = "limit" /\ count[l] > config.max
  /\ Becomes(conn[l], "refused")
  /\ Goto(l, "accept")
  /\ UNCHANGED <<config, conn, count, registry>>

TooManyGoesOn(l) ==
  /\ pc[l] = "limit" /\ count[l] >= config.max
  /\ Becomes(conn[l], "refused")
  /\ Goto(l, "access")
  /\ UNCHANGED <<config, conn, count, registry>>

\* The limit is read after the count, under a lock of its own.
TooMany(l) ==
  /\ pc[l] = "limit" /\ count[l] >= config.max
  /\ Becomes(conn[l], "refused")
  /\ Goto(l, "accept")
  /\ UNCHANGED <<config, conn, count, registry>>

BelowLimit(l) ==
  /\ pc[l] = "limit" /\ count[l] < config.max
  /\ Goto(l, "access")
  /\ UNCHANGED <<config, conn, count, phase, registry>>

AccessDenied(l) ==
  /\ pc[l] = "access" /\ conn[l] \in config.denied
  /\ Becomes(conn[l], "denied")
  /\ Goto(l, "accept")
  /\ UNCHANGED <<config, conn, count, registry>>

Spawn(l) ==
  /\ pc[l] = "access" /\ conn[l] \notin config.denied
  /\ Becomes(conn[l], "spawned")
  /\ Goto(l, "accept")
  /\ UNCHANGED <<config, conn, count, registry>>

-----------------------------------------------------------------------------
\* handle_connection, in the task of connection c.

\* create_client: the id first, then the map once its write lock is had.
TakeId(c) ==
  /\ phase[c] = "spawned"
  /\ id' = [id EXCEPT ![c] = nextId]
  /\ nextId' = nextId + 1
  /\ Becomes(c, "numbered")
  /\ UNCHANGED <<config, loops, clients, received>>

Insert(c) ==
  /\ phase[c] = "numbered"
  /\ clients' = clients \union {id[c]}
  /\ Becomes(c, "registered")
  /\ UNCHANGED <<config, loops, id, nextId, received>>

Serve(c) ==
  /\ phase[c] = "registered"
  /\ received' = received + 1
  /\ Becomes(c, "serving")
  /\ UNCHANGED <<config, loops, id, nextId, clients>>

\* Mistake: an error of the handler is returned before remove_client.
HandleReturnsEarly(c) ==
  /\ phase[c] = "serving"
  /\ phase' \in {[phase EXCEPT ![c] = "leaving"], [phase EXCEPT ![c] = "gone"]}
  /\ UNCHANGED <<config, loops, registry>>

\* ConnectionHandler::handle returns, with a result or with an error.
HandleReturns(c) ==
  /\ phase[c] = "serving"
  /\ Becomes(c, "leaving")
  /\ UNCHANGED <<config, loops, registry>>

\* It panics: tokio drops the task, and remove_client is never called.
HandlePanics(c) ==
  /\ phase[c] = "serving"
  /\ Becomes(c, "panicked")
  /\ UNCHANGED <<config, loops, registry>>

RemoveClient(c) ==
  /\ phase[c] = "leaving"
  /\ clients' = clients \ {id[c]}
  /\ Becomes(c, "gone")
  /\ UNCHANGED <<config, loops, id, nextId, received>>

-----------------------------------------------------------------------------

\* run has awaited the tasks of all the loops; main returns or exits, and the
\* connections still served end with the process.
RunEnds ==
  /\ up /\ \A l \in Listeners : pc[l] = "dead"
  /\ up' = FALSE
  /\ UNCHANGED <<config, loops, phase, registry>>

Running(A) == up /\ A /\ UNCHANGED up

Loop(l) ==
  Running(\/ Reload(l) \/ LoadPanics(l) \/ Count(l) \/ TooMany(l) \/ BelowLimit(l)
          \/ AccessDenied(l) \/ Spawn(l))

Task(c) == Running(TakeId(c) \/ Insert(c) \/ Serve(c) \/ RemoveClient(c))

Next ==
  \/ \E l \in Listeners : Loop(l) \/ \E c \in Conns : Running(Accept(l, c))
  \/ \E c \in Conns : Task(c) \/ Running(HandleReturns(c) \/ HandlePanics(c))
  \/ RunEnds

Spec == Init /\ [][Next]_vars

\* Loops and tasks are run by tokio; a refusal is a few bytes for an empty send
\* buffer, and waits for nothing.  Nothing obliges a client to connect or a handler
\* to return: a CONNECT tunnel has no timeout.
FairSpec ==
  /\ Spec
  /\ \A l \in Listeners : WF_vars(Loop(l))
  /\ \A c \in Conns : WF_vars(Task(c))

-----------------------------------------------------------------------------
Phases ==
  {"outside", "accepted", "dropped", "refused", "denied", "spawned", "numbered",
   "registered", "serving", "leaving", "gone", "panicked"}

\* Every variable keeps the type of its field or local.
TypeOK ==
  /\ up \in BOOLEAN /\ config \in Configs
  /\ pc \in [Listeners -> {"accept", "reload", "count", "limit", "access", "dead"}]
  /\ conn \in [Listeners -> Conns \union {Nobody}]
  /\ count \in [Listeners -> Nat]
  /\ phase \in [Conns -> Phases]
  /\ id \in [Conns -> Nat]
  /\ nextId \in Nat /\ clients \subseteq Nat /\ received \in Nat

In(phases) == {c \in Conns : phase[c] \in phases}

Numbered == In({"numbered", "registered", "serving", "leaving", "gone", "panicked"})
Listed == In({"registered", "serving", "leaving", "panicked"})
Served == In({"serving", "leaving", "gone", "panicked"})

\* No two tasks ever get one id: a shared id would make the second insert
\* replace the first entry and the first removal delete the second's.
UniqueIds == \A c, d \in Numbered : id[c] = id[d] => c = d

\* The map holds the clients being served and those whose handler panicked, and
\* so, no handler having panicked, it is empty whenever no task is alive.
NoGhosts == clients = {id[c] : c \in Listed}

\* One loop decides on a connection, and it does so until the phase says more.
Deciding(l) == pc[l] \in {"reload", "count", "limit", "access"}

OneLoopPerConnection ==
  /\ \A l \in Listeners : Deciding(l) => phase[conn[l]] = "accepted"
  /\ \A l, m \in Listeners : Deciding(l) /\ Deciding(m) /\ conn[l] = conn[m] => l = m

\* The requests counter agrees with what happened to the connections.
RequestsCounted == received = Cardinality(Served)

\* A connection whose loop died in the reload it had caused.
LostWithItsLoop(c) == \E l \in Listeners : pc[l] = "dead" /\ conn[l] = c

\* Every accepted connection is refused, denied or handed to a handler, however
\* many handlers are busy and whatever they wait for.  The exceptions are one
\* connection for each loop that dies in a reload, and the end of the process once
\* no loop is left.
AcceptedIsAnswered ==
  \A c \in Conns :
    phase[c] = "accepted" ~>
      \/ phase[c] \in {"refused", "denied", "serving", "leaving", "gone", "panicked"}
      \/ LostWithItsLoop(c)
      \/ ~up

\* The outcome a client observes.
Observed(p) ==
  CASE p \in {"outside", "accepted"} -> "waiting"
    [] p \in {"dropped", "refused", "denied"} -> p
    [] p \in {"gone", "leaving"} -> "closed"
    [] p = "panicked" -> "died"
    [] OTHER -> IF up THEN "open" ELSE "died"

outcome == [c \in Conns |-> Observed(phase[c])]

Promise == INSTANCE Admission

\* The accept loops and the tasks implement Admission: no interleaving of the
\* loops decides a connection twice or reopens a closed one.
KeepsPromise == Promise!Spec
=============================================================================
