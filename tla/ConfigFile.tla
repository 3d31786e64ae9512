------------------------------ MODULE ConfigFile ------------------------------
(* The configuration file: the lines of Config::parse, parse_forward_spec and     *)
(* is_access_allowed (src/src/config.rs).                                         *)
(*                                                                                *)
(* A line is its directive and the words after it.  A Config is the value of each *)
(* field that has one, and the entries of the fields that are lists, in one       *)
(* sequence.  An address is its family and its bits.                              *)
EXTENDS Integers, Sequences, SequencesExt, Functions, TLC

CONSTANTS
  Bool,     \* what a word means as a boolean
  Number,   \* as a number
  Level,    \* as a log level
  Listen,   \* as an address to listen on
  Parent,   \* as a proxy, where its port may be left out
  Net       \* as an address or a network: its family, its bits, its mask

Line(key, words) == [key |-> key, words |-> words]

-----------------------------------------------------------------------------
\* The directives, by what they do with their words.

Switch ==
  {"toggle", "enable-remote-toggle", "enable-edit-actions", "handle-as-empty-doc-returns-ok",
   "enable-compression", "enable-remote-http-toggle", "enforce-blocks",
   "enable-proxy-authentication-forwarding", "single-threaded",
   "accept-intercepted-requests", "connection-sharing", "tolerate-pipelining",
   "suppress-blocklists"}

Count ==
  {"buffer-limit", "max-client-connections", "socket-timeout", "keep-alive-timeout",
   "forwarded-connect-retries", "receive-buffer-size", "compression-level",
   "client-tag-lifetime", "listen-backlog", "default-server-timeout"}

Text ==
  {"logfile", "admin-address", "user-manual", "confdir", "templdir", "temporary-directory",
   "logdir", "hostname", "proxy-info-url", "client-header-order", "ca-cert-file",
   "ca-key-file", "ca-directory", "ca-password", "certificate-directory",
   "trusted-cas-file", "cipher-list"}

Forwarding ==
  {"forward", "forward-socks4", "forward-socks4a", "forward-socks5", "forward-socks5t",
   "forward-http", "forward-webserver"}

Access == {"permit-access", "deny-access"}

Repeated ==
  Forwarding \union Access \union
  {"actionsfile", "filterfile", "trustfile", "trust-info-url", "trusted-cgi-referer",
   "cors-allowed-origin", "client-specific-tag"}

\* Two names for one field.
Alias ==
  [k \in {"connection-timeout", "log-file", "log-level"} |->
     CASE k = "connection-timeout" -> "socket-timeout"
       [] k = "log-file" -> "logfile"
       [] OTHER -> "debug"]

Field(key) == IF key \in DOMAIN Alias THEN Alias[key] ELSE key

-----------------------------------------------------------------------------
\* parse_forward_spec: the pattern, then a gateway for the SOCKS types, then an
\* HTTP parent.

SocksKey == {"forward-socks4", "forward-socks4a", "forward-socks5", "forward-socks5t"}

Hops(key) == IF key \in SocksKey THEN 2 ELSE 1

ForwardParses(l) ==
  \A i \in 2 .. Len(l.words) : i <= Hops(l.key) + 1 => l.words[i] \in DOMAIN Parent

Hop(words, i) == IF i <= Len(words) THEN Parent[words[i]] ELSE "none"

parse_forward_spec(l) ==
  [pattern |-> l.words[1],
   spec |-> [type |-> l.key,
             gateway |-> IF l.key \in SocksKey THEN Hop(l.words, 2) ELSE "none",
             forward |-> Hop(l.words, IF l.key \in SocksKey THEN 3 ELSE 2)]]

-----------------------------------------------------------------------------
\* Config::parse, one line.  A line without words, or with a directive that is
\* not known, is passed over; any other error rejects the file.

Fails(l) ==
  LET f == Field(l.key)
  IN /\ l.words # <<>>
     /\ \/ f \in Switch /\ ~(Len(l.words) = 1 /\ l.words[1] \in DOMAIN Bool)
        \/ f \in Count /\ ~(Len(l.words) = 1 /\ l.words[1] \in DOMAIN Number)
        \/ f = "compression-level" /\ Number[l.words[1]] > 9
        \/ f = "listen-address" /\ ~(ToSet(l.words) \subseteq DOMAIN Listen)
        \/ f \in Forwarding /\ ~ForwardParses(l)

Scalar(l) == Field(l.key) \in Switch \union Count \union Text

Value(l) ==
  LET f == Field(l.key)
  IN IF f \in Switch THEN Bool[l.words[1]]
     ELSE IF f \in Count THEN Number[l.words[1]] * (IF f = "buffer-limit" THEN 1024 ELSE 1)
     ELSE l.words

ListEntry(l) ==
  IF l.key \in Forwarding THEN <<l.key, parse_forward_spec(l)>> ELSE <<l.key, l.words>>

\* The second word of a tag is its description.
AddsToList(l) == l.key \in Repeated /\ (l.key = "client-specific-tag" => Len(l.words) > 1)

\* A line of log levels adds to those there are; one that names none adds these.
Usual == {"info", "error", "fatal"}

Levels(l) ==
  LET named == {Level[w] : w \in ToSet(l.words) \intersect DOMAIN Level}
  IN IF named = {} THEN Usual ELSE named

DefaultListen == <<"127.0.0.1:8118">>

DefaultConfig ==
  [value |-> <<>>, listed |-> <<>>, levels |-> Usual, listen |-> DefaultListen,
   first_listen |-> TRUE]

Addresses(l) == [i \in DOMAIN l.words |-> Listen[l.words[i]]]

\* Mistake: each line of addresses replaces those of the lines before.
ListenLast(c, l) == [c EXCEPT !.listen = Addresses(l), !.first_listen = FALSE]

ListenOn(c, l) ==
  [c EXCEPT !.listen = (IF c.first_listen THEN <<>> ELSE @) \o Addresses(l),
            !.first_listen = FALSE]

SetField(c, f, v) ==
  [c EXCEPT !.value = [g \in DOMAIN @ \union {f} |-> IF g = f THEN v ELSE @[g]]]

parse_line(c, l) ==
  IF l.words = <<>> THEN c
  ELSE IF Scalar(l) THEN SetField(c, Field(l.key), Value(l))
  ELSE IF AddsToList(l) THEN [c EXCEPT !.listed = Append(@, ListEntry(l))]
  ELSE IF Field(l.key) = "debug" THEN [c EXCEPT !.levels = @ \union Levels(l)]
  ELSE IF l.key = "listen-address" THEN ListenOn(c, l)
  ELSE c

-----------------------------------------------------------------------------
\* Where the entries of a list are.
Of(c, keys) == {i \in DOMAIN c.listed : c.listed[i][1] \in keys}

forward_spec(c, i) == c.listed[i][2]

\* matches_pattern: everything, an address, or a network by its mask, which may
\* be written as a prefix; a pattern of several words is no address.
Everyone == {<<"*">>, <<"0.0.0.0/0">>, <<"::/0">>}

matches_pattern(addr, words) ==
  \/ words \in Everyone
  \/ /\ Len(words) = 1 /\ words[1] \in DOMAIN Net
     /\ LET n == Net[words[1]]
        IN /\ addr.family = n.family
           /\ \A i \in DOMAIN addr.bits : n.mask[i] = 1 => addr.bits[i] = n.bits[i]

\* Mistake: the first rule that matches decides.
is_access_allowed_first(c, addr) ==
  LET on == {i \in Of(c, Access) : matches_pattern(addr, c.listed[i][2])}
  IN \/ Of(c, Access) = {}
     \/ \E i \in on : c.listed[i][1] = "permit-access" /\ \A j \in on : j >= i

is_access_allowed(c, addr) ==
  LET on == {i \in Of(c, Access) : matches_pattern(addr, c.listed[i][2])}
  IN \/ Of(c, Access) = {}
     \/ \E i \in on : c.listed[i][1] = "permit-access" /\ \A j \in on : j <= i
=============================================================================
