------------------------------- MODULE Loading -------------------------------
(* What the files make of a request.  Config::parse (src/src/config.rs) reads    *)
(* the configuration, then ActionsFile::load (src/src/loaders.rs) the actions    *)
(* files one after the other; a client that the access list lets in is then      *)
(* given the action of find_action_for_url (src/src/action.rs) and the route of  *)
(* find_forward_spec (src/src/connection.rs).                                    *)
(*                                                                               *)
(* A file is read as it is chosen, a line, header, action or pattern at a time.  *)
EXTENDS UrlMatch, ActionString, ConfigFile, FiniteSetsExt

CONSTANTS
  Lines,     \* the lines the configuration may have, but for those of actionsfile
  Tokens,    \* the actions a header may have
  Patterns,  \* the patterns below it
  Requests,  \* the requests that come when all is read
  Clients,   \* the addresses they come from
  MaxFiles,  \* the actions files the configuration names
  MaxRead    \* lines, headers, actions and patterns read

PatternType ==
  [left : BOOLEAN, core : Seq(Seq(STRING)), right : BOOLEAN, path : Seq(STRING),
   regex : BOOLEAN]

RequestType ==
  [host : Seq(Seq(STRING)), path : Seq(STRING), form : {"origin", "absolute", "connect"},
   port : Nat]

\* The words of a line may be of any kind, but the first one of a forward line is
\* a pattern.
ASSUME LoadingAssumption ==
  /\ Patterns \subseteq PatternType
  /\ Requests \subseteq RequestType
  /\ Tokens \subseteq TokenType
  /\ Clients \subseteq [family : {4, 6}, bits : Seq({0, 1})]
  /\ \A l \in Lines :
       /\ Len(l.words) \in Nat /\ DOMAIN l.words = 1 .. Len(l.words)
       /\ l.key \in Forwarding /\ l.words # <<>> => l.words[1] \in PatternType

-----------------------------------------------------------------------------
VARIABLES
  status,       \* "config", "rejected", "reading", "panicked", "loaded", "refused" or "answered"
  lines,        \* the lines read of the configuration, as they are written
  config,       \* the Config they make, but for the rules
  file,         \* the sections read of the file at hand, as they are written
  action,       \* current_action
  url_actions,  \* the rules made of them
  accepted,     \* the sections of the files read before, but for those rejected
  rules,        \* config.url_actions
  files, read,  \* files begun, and lines and actions read
  client,       \* the address of the client that comes
  request,      \* what it asks for, if it is let in
  found,        \* the action find_action_for_url returns
  route         \* the spec find_forward_spec returns

settings == <<lines, config>>
loading == <<file, action, url_actions, accepted, rules, files>>
asked == <<client, request, found, route>>
vars == <<status, settings, loading, read, asked>>

NoRequest == [host |-> <<>>, path |-> <<>>, form |-> "none", port |-> 0]

Init ==
  /\ status = "config"
  /\ lines = <<>> /\ config = DefaultConfig
  /\ file = <<>> /\ action = NoAction /\ url_actions = <<>>
  /\ accepted = <<>> /\ rules = <<>>
  /\ files = 1 /\ read = 0
  /\ client = [family |-> "none"] /\ request = NoRequest /\ found = NoAction /\ route = Direct

Reads(what) == status = what /\ read < MaxRead /\ read' = read + 1

\* Config::parse, up to the actions files.

ReadLine(l) ==
  /\ Reads("config") /\ ~Fails(l)
  /\ lines' = Append(lines, l)
  /\ config' = parse_line(config, l)
  /\ UNCHANGED <<status, loading, asked>>

RejectConfig ==
  /\ Reads("config") /\ \E l \in Lines : Fails(l)
  /\ status' = "rejected"
  /\ UNCHANGED <<settings, loading, asked>>

EndOfConfig ==
  /\ status = "config"
  /\ status' = "reading"
  /\ UNCHANGED <<settings, loading, read, asked>>

-----------------------------------------------------------------------------

\* ActionsFile::load: a header begins with Action::default().

\* Mistake: a section begins with the actions of the one before it.
ReadHeaderOnly ==
  /\ Reads("reading")
  /\ file' = Append(file, [tokens |-> <<>>, urls |-> <<>>])
  /\ UNCHANGED <<status, settings, action, url_actions, accepted, rules, files, asked>>

ReadHeader ==
  /\ Reads("reading")
  /\ file' = Append(file, [tokens |-> <<>>, urls |-> <<>>])
  /\ action' = NoAction
  /\ UNCHANGED <<status, settings, url_actions, accepted, rules, files, asked>>

Written(t) == [file EXCEPT ![Len(file)].tokens = Append(@, t)]

ReadToken(t) ==
  /\ Reads("reading") /\ file # <<>> /\ file[Len(file)].urls = <<>>
  /\ ~Panics(t) /\ ~Malformed(t)
  /\ file' = Written(t)
  /\ action' = Apply(action, t)
  /\ UNCHANGED <<status, settings, url_actions, accepted, rules, files, asked>>

ReadPattern(p) ==
  /\ Reads("reading") /\ file # <<>>
  /\ file' = [file EXCEPT ![Len(file)].urls = Append(@, p)]
  /\ url_actions' = Append(url_actions, [pattern |-> p, action |-> action])
  /\ UNCHANGED <<status, settings, action, accepted, rules, files, asked>>

NextFile ==
  /\ file' = <<>> /\ action' = NoAction /\ url_actions' = <<>>
  /\ files' = files + 1
  /\ status' = IF files = MaxFiles THEN "loaded" ELSE "reading"
  /\ UNCHANGED <<settings, asked>>

\* An error drops the file, and Config::parse goes on with the next.
RejectFile ==
  /\ Reads("reading") /\ file # <<>> /\ file[Len(file)].urls = <<>>
  /\ \E t \in Tokens : Malformed(t)
  /\ NextFile
  /\ UNCHANGED <<accepted, rules>>

Panic ==
  /\ Reads("reading") /\ file # <<>> /\ file[Len(file)].urls = <<>>
  /\ \E t \in Tokens : Panics(t)
  /\ status' = "panicked"
  /\ UNCHANGED <<settings, loading, asked>>

EndOfFile ==
  /\ status = "reading"
  /\ rules' = rules \o url_actions
  /\ accepted' = accepted \o file
  /\ NextFile
  /\ UNCHANGED read

-----------------------------------------------------------------------------
\* The look-ups of a request.

Matching(r) == {i \in DOMAIN rules : url_matches_pattern(r, rules[i].pattern)}

find_action_for_url(r) ==
  IF Matching(r) = {} THEN NoAction ELSE rules[Min(Matching(r))].action

Overrides(a) ==
  "forward-override" \in DOMAIN a.value /\ ParsesAsForward(a.value["forward-override"].text)

Routing(host) ==
  {i \in DOMAIN rules :
     matches_host_pattern(host, rules[i].pattern) /\ Overrides(rules[i].action)}

Specs(host) ==
  {i \in Of(config, Forwarding) : matches_host_pattern(host, forward_spec(config, i).pattern)}

find_forward_spec(host) ==
  IF Routing(host) # {}
  THEN parse_forward_directive(rules[Min(Routing(host))].action.value["forward-override"].text)
  ELSE IF Specs(host) # {} THEN forward_spec(config, Min(Specs(host))).spec
  ELSE Direct

\* accept_loop, then handle_connect, which may refuse a port, or
\* handle_http_request.

TurnAway(addr) ==
  /\ status = "loaded" /\ ~is_access_allowed(config, addr)
  /\ status' = "answered"
  /\ client' = addr
  /\ UNCHANGED <<settings, loading, read, request, found, route>>

PortAllowed(r) ==
  r.form = "connect" => check_limit_connect(find_action_for_url(r), r.port)

Refuse(addr, r) ==
  /\ status = "loaded" /\ is_access_allowed(config, addr) /\ ~PortAllowed(r)
  /\ status' = "refused"
  /\ client' = addr
  /\ request' = r
  /\ found' = find_action_for_url(r)
  /\ UNCHANGED <<settings, loading, read, route>>

Ask(addr, r) ==
  /\ status = "loaded" /\ is_access_allowed(config, addr) /\ PortAllowed(r)
  /\ status' = "answered"
  /\ client' = addr
  /\ request' = r
  /\ found' = find_action_for_url(r)
  /\ route' = find_forward_spec(r.host)
  /\ UNCHANGED <<settings, loading, read>>

-----------------------------------------------------------------------------

Next ==
  \/ RejectConfig \/ EndOfConfig
  \/ \E l \in Lines : ReadLine(l)
  \/ ReadHeader \/ RejectFile \/ Panic \/ EndOfFile
  \/ \E t \in Tokens : ReadToken(t)
  \/ \E p \in Patterns : ReadPattern(p)
  \/ \E addr \in Clients : TurnAway(addr) \/ \E r \in Requests : Refuse(addr, r) \/ Ask(addr, r)

Spec == Init /\ [][Next]_vars

-----------------------------------------------------------------------------

\* What the lines of a configuration stand for: the last one that gives a field
\* its value counts, those of a list are all entries of it, in their order, and
\* the addresses are those of all lines, or the default if there is no line.

Stands(l) == l.words # <<>>

LinesOf(ls, f) == {i \in DOMAIN ls : Stands(ls[i]) /\ Field(ls[i].key) = f}

StatedValue(ls) ==
  [f \in {Field(ls[i].key) : i \in {k \in DOMAIN ls : Stands(ls[k]) /\ Scalar(ls[k])}} |->
     Value(ls[Max(LinesOf(ls, f))])]

StatedList(ls) ==
  FlattenSeq([i \in DOMAIN ls |->
    IF Stands(ls[i]) /\ AddsToList(ls[i]) THEN <<ListEntry(ls[i])>> ELSE <<>>])

StatedListen(ls) ==
  IF LinesOf(ls, "listen-address") = {} THEN DefaultListen
  ELSE FlattenSeq([i \in DOMAIN ls |->
         IF i \in LinesOf(ls, "listen-address") THEN Addresses(ls[i]) ELSE <<>>])

Stated(ls) ==
  [value |-> StatedValue(ls), listed |-> StatedList(ls),
   levels |-> Usual \union UNION {Levels(ls[i]) : i \in LinesOf(ls, "debug")},
   listen |-> StatedListen(ls), first_listen |-> LinesOf(ls, "listen-address") = {}]

\* The settings in force are those that the configuration states, whatever its
\* lines say before and after.
SettingsAsWritten == config = Stated(lines)

\* A client is let in if the configuration restricts nobody, or has a line that
\* permits its address and no line after it that denies it.
AccessAsWritten ==
  LET On(i, key) == lines[i].key = key /\ matches_pattern(client, lines[i].words)
  IN client \in Clients =>
       (request # NoRequest <=>
          \/ \A i \in DOMAIN lines : ~(lines[i].key \in Access /\ Stands(lines[i]))
          \/ \E i \in DOMAIN lines :
               /\ On(i, "permit-access")
               /\ \A j \in DOMAIN lines : j > i => ~On(j, "deny-access"))

\* What the actions of a header stand for: the last one that speaks of a setting
\* decides it.

LastOf(tokens, S) ==
  LET js == {j \in DOMAIN tokens : tokens[j] \in S}
  IN IF js = {} THEN [sign |-> "-"] ELSE tokens[Max(js)]

\* A switch takes no argument: an action that gives it one is unknown.
Switching(n) ==
  {t \in Tokens : t.name = n /\ (t.bare \/ (t.sign = "+" /\ n \notin Switches))}

Setting(n) ==
  {t \in Tokens :
     t.name = n /\ IF t.bare THEN t.sign = "-" \/ n \in DOMAIN Default ELSE t.sign = "+"}

Listing(u) == {t \in Tokens : ~t.bare /\ t.name = u.name /\ t.arg = u.arg}

Argument(t) == IF t.bare THEN [off |-> 0, text |-> Default[t.name]] ELSE Stored(t)

Meant(tokens) ==
  [on |-> {n \in Switches \union {"block", "filter"} : LastOf(tokens, Switching(n)).sign = "+"},
   value |-> [n \in {o \in Options : LastOf(tokens, Setting(o)).sign = "+"} |->
                Argument(LastOf(tokens, Setting(n)))],
   listed |-> {Entry(t) : t \in {u \in ToSet(tokens) :
                  /\ HasArgument(u) /\ u.name \in Lists \union {"filter"}
                  /\ LastOf(tokens, Listing(u)).sign = "+"}}]

Effect(a) ==
  [on |-> a.on, value |-> Restrict(a.value, DOMAIN a.value \ {"block"}),
   listed |-> ToSet(a.listed)]

RulesOf(sections) ==
  FlattenSeq([i \in DOMAIN sections |->
    [k \in DOMAIN sections[i].urls |->
       [pattern |-> sections[i].urls[k], action |-> Meant(sections[i].tokens)]]])

\* The rules in force are those of the files that were read to their end, in
\* their order: each pattern has the actions of its own header, of which the last
\* word on each setting counts, and a file with an error leaves no rule behind.
RulesAsWritten ==
  [i \in DOMAIN rules |-> [rules[i] EXCEPT !.action = Effect(@)]] = RulesOf(accepted)

\* A request in the form of a path, or a CONNECT, gets the action of the first rule
\* whose pattern covers its URL.  This is not said of a request line with the full
\* URL, of which the code takes the scheme for a part of the host.
FirstRuleDecides ==
  request.form \in {"origin", "connect"} =>
    LET covering == {i \in DOMAIN rules : Covers(rules[i].pattern, request)}
    IN found = IF covering = {} THEN NoAction ELSE rules[Min(covering)].action

\* The two look-ups agree on hosts and domains: where all patterns are such, the
\* route is that of the first rule for the URL that has a usable override, or else
\* of the first forward line of the configuration for it.
RoutesFollowRules ==
  LET routing == {i \in DOMAIN rules :
                    Covers(rules[i].pattern, request) /\ Overrides(rules[i].action)}
      specs == Of(config, Forwarding)
      lined == {i \in specs : Covers(forward_spec(config, i).pattern, request)}
  IN (/\ status = "answered" /\ request # NoRequest
      /\ \A i \in DOMAIN rules : Plain(rules[i].pattern)
      /\ \A i \in specs : Plain(forward_spec(config, i).pattern)) =>
       route = IF routing # {}
               THEN parse_forward_directive(
                      rules[Min(routing)].action.value["forward-override"].text)
               ELSE IF lined # {} THEN forward_spec(config, Min(lined)).spec ELSE Direct
=============================================================================
