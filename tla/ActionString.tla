----------------------------- MODULE ActionString -----------------------------
(* parse_action_string and parse_forward_directive (src/src/loaders.rs): what     *)
(* the actions in a header of an actions file come to, one after the other.       *)
(*                                                                                *)
(* An argument is a sequence of words; what a word means as a number, a port      *)
(* range or a proxy is given by constants.                                        *)
EXTENDS Integers, Sequences, SequencesExt, TLC

CONSTANTS
  Numerals,   \* the words that parse as a number
  PortRange,  \* the lowest and highest port a word of limit-connect names
  Proxy       \* the host and port a word that names a proxy stands for

TokenType == [sign : {"+", "-"}, name : STRING, bare : BOOLEAN, arg : Seq(STRING)]

Action(sign, name) == [sign |-> sign, name |-> name, bare |-> TRUE, arg |-> <<>>]
ActionWith(sign, name, arg) == [sign |-> sign, name |-> name, bare |-> FALSE, arg |-> arg]

-----------------------------------------------------------------------------
\* The names of parse_action_string, by what they set.

Switches ==
  {"handle-as-empty-document", "handle-as-image", "inspect-jpegs", "prevent-compression",
   "session-cookies-only", "crunch-incoming-cookies", "crunch-outgoing-cookies",
   "crunch-if-none-match", "force-text-mode", "downgrade-http-version",
   "https-inspection", "ignore-certificate-errors", "kill-popups"}

\* An option given without an argument has this one.
Blockers == {"hide-from-header", "hide-referrer", "hide-accept-language"}

Default ==
  [n \in Blockers \union {"redirect", "deanimate-gifs", "hide-user-agent", "set-image-blocker"} |->
     CASE n \in Blockers -> <<"block">>
       [] n = "deanimate-gifs" -> <<"last">>
       [] n = "set-image-blocker" -> <<"pattern">>
       [] OTHER -> <<>>]

Numbers == {"limit-connect-retries", "limit-cookie-lifetime", "delay-response"}

Options ==
  DOMAIN Default \union Numbers \union
  {"content-type-overwrite", "send-user-agent", "send-wafer", "fast-redirects",
   "limit-connect", "overwrite-last-modified", "change-x-forwarded-for",
   "forward-override", "hide-content-disposition", "hide-if-modified-since"}

Lists ==
  {"add-header", "crunch-client-header", "crunch-server-header", "client-header-tagger",
   "server-header-tagger"}

\* The argument is cut out at an offset written as a number: how far it lies
\* behind the opening brace.  Before it, the argument gets the end of the name;
\* behind it, it loses its first characters, and an empty one has none to lose.
Offset(name) ==
  IF name = "limit-connect" THEN -2
  ELSE IF name \in {"crunch-server-header", "fast-redirects", "limit-connect-retries",
                    "change-x-forwarded-for", "delay-response", "hide-if-modified-since"}
  THEN -1
  ELSE IF name \in {"set-image-blocker", "hide-content-disposition"} THEN 1
  ELSE 0

Stored(t) == [off |-> Offset(t.name), text |-> t.arg]

HasArgument(t) ==
  /\ ~t.bare
  /\ \/ t.sign = "+" /\ t.name \in Options \union Lists \union {"block", "filter"}
     \/ t.sign = "-" /\ t.name \in Lists \union {"filter"}

\* The slice begins behind its end.
Panics(t) == HasArgument(t) /\ t.arg = <<>> /\ Offset(t.name) > 0

Malformed(t) ==
  /\ HasArgument(t) /\ t.name \in Numbers
  /\ ~(Offset(t.name) = 0 /\ Len(t.arg) = 1 /\ t.arg[1] \in Numerals)

-----------------------------------------------------------------------------
\* parse_action_string, one token.

NoAction == [on |-> {}, value |-> <<>>, listed |-> <<>>]

Switched(on, t) ==
  IF t.bare /\ t.sign = "-" /\ t.name \in Switches \union {"block", "filter"}
  THEN on \ {t.name}
  ELSE IF \/ t.bare /\ t.sign = "+" /\ t.name \in Switches \union {"block", "filter"}
          \/ HasArgument(t) /\ t.sign = "+" /\ t.name \in {"block", "filter"}
  THEN on \union {t.name}
  ELSE on

Given(value, name, arg) ==
  [n \in DOMAIN value \union {name} |-> IF n = name THEN arg ELSE value[n]]

Valued(value, t) ==
  IF t.bare /\ t.sign = "-" /\ t.name \in Options
  THEN [n \in DOMAIN value \ {t.name} |-> value[n]]
  ELSE IF t.bare /\ t.sign = "+" /\ t.name \in DOMAIN Default
  THEN Given(value, t.name, [off |-> 0, text |-> Default[t.name]])
  ELSE IF HasArgument(t) /\ t.name \in Options \union {"block"}
  THEN Given(value, t.name, Stored(t))
  ELSE value

Entry(t) == <<t.name, Stored(t)>>

\* retain: every entry but those equal to e.
Without(s, e) == FlattenSeq([i \in DOMAIN s |-> IF s[i] = e THEN <<>> ELSE <<s[i]>>])

Listed(listed, t) ==
  IF ~HasArgument(t) \/ t.name \notin Lists \union {"filter"} THEN listed
  ELSE IF t.sign = "+" THEN Append(listed, Entry(t))
  ELSE Without(listed, Entry(t))

Apply(a, t) ==
  [on |-> Switched(a.on, t), value |-> Valued(a.value, t), listed |-> Listed(a.listed, t)]

-----------------------------------------------------------------------------
\* parse_forward_directive: a directive it does not know is a direct connection.

Directives ==
  {"forward", "forward-http", "forward-webserver", "forward-socks4", "forward-socks4a",
   "forward-socks5", "forward-socks5t"}
Socks == {"forward-socks4", "forward-socks4a", "forward-socks5", "forward-socks5t"}

Direct == [type |-> "forward", gateway |-> "none", forward |-> "none"]

ParsesAsForward(text) ==
  text = <<>> \/ text[1] \notin Directives \/
  /\ Len(text) >= 2 /\ text[2] \in DOMAIN Proxy
  /\ text[1] \in Socks /\ Len(text) >= 3 => text[3] \in DOMAIN Proxy

parse_forward_directive(text) ==
  IF text = <<>> \/ text[1] \notin Directives THEN Direct
  ELSE IF text[1] \in Socks
  THEN [type |-> text[1], gateway |-> Proxy[text[2]],
        forward |-> IF Len(text) >= 3 THEN Proxy[text[3]] ELSE "none"]
  ELSE [type |-> text[1], gateway |-> "none", forward |-> Proxy[text[2]]]

-----------------------------------------------------------------------------
\* check_limit_connect.

InRange(word, port) == PortRange[word][1] <= port /\ port <= PortRange[word][2]

\* A first part that begins with the end of the name does not parse.
check_limit_connect(a, port) ==
  LET limit == a.value["limit-connect"]
  IN "limit-connect" \in DOMAIN a.value =>
       \E i \in DOMAIN limit.text : (i > 1 \/ limit.off = 0) /\ InRange(limit.text[i], port)
=============================================================================
