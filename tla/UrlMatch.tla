------------------------------- MODULE UrlMatch -------------------------------
(* How a request is matched against the URL patterns of the actions files        *)
(* (src/src/action.rs), and how its host is matched against the same patterns    *)
(* when a route is looked for (matches_host_pattern in src/src/config.rs).       *)
(*                                                                               *)
(* A host is a sequence of labels, a label and a path are sequences of           *)
(* characters, all in lower case.  A pattern is split where the code splits it:  *)
(* whether it begins and ends with a dot, the labels between, and the path.      *)
EXTENDS Integers, Sequences, SequencesExt

CONSTANT Regex(_, _)    \* external: a path matches a regular expression at its start

Pattern(left, core, right, path) ==
  [left |-> left, core |-> core, right |-> right, path |-> path, regex |-> FALSE]

PathRegex(p) == [p EXCEPT !.regex = TRUE]

-----------------------------------------------------------------------------
\* A request, and what parse_url_components makes of the host and the request
\* target put one after the other.  A target in absolute form begins with
\* "http://": the scheme sticks to the host's last label, and the path begins at
\* the first of the two slashes.

Joined(host) ==
  FlattenSeq([i \in DOMAIN host |-> IF i = 1 THEN host[i] ELSE <<".">> \o host[i]])

parse_url_components(r) ==
  IF r.form = "connect" THEN [host |-> r.host, path |-> <<"/">>]
  ELSE IF r.form = "origin" THEN [host |-> r.host, path |-> r.path]
  ELSE [host |-> [r.host EXCEPT ![Len(r.host)] = @ \o <<"h", "t", "t", "p", ":">>],
        path |-> <<"/", "/">> \o Joined(r.host) \o r.path]

-----------------------------------------------------------------------------
\* simplematch: from[p] is where in the text the pattern from p on matches the rest.

\* Mistake: a star stands for one character at least.
simplematch_some(pat, txt) ==
  LET from[p \in 1 .. Len(pat) + 1] ==
        IF p > Len(pat) THEN {Len(txt) + 1}
        ELSE IF pat[p] = "*" THEN UNION {1 .. t - 1 : t \in from[p + 1]}
        ELSE {t \in DOMAIN txt : pat[p] \in {"?", txt[t]} /\ t + 1 \in from[p + 1]}
  IN 1 \in from[1]

simplematch(pat, txt) ==
  LET from[p \in 1 .. Len(pat) + 1] ==
        IF p > Len(pat) THEN {Len(txt) + 1}
        ELSE IF pat[p] = "*" THEN UNION {1 .. t : t \in from[p + 1]}
        ELSE {t \in DOMAIN txt : pat[p] \in {"?", txt[t]} /\ t + 1 \in from[p + 1]}
  IN 1 \in from[1]

domain_components_match(pattern, labels) ==
  Len(pattern) = Len(labels) /\ \A i \in DOMAIN pattern : simplematch(pattern[i], labels[i])

\* A dot at an end of the pattern lets the host go on at that end.
host_pattern_matches(host, p) ==
  LET over == Len(host) - Len(p.core)
  IN \/ p.core = <<>>
     \/ \E n \in 0 .. over :
          /\ p.left \/ n = 0
          /\ p.right \/ n = over
          /\ domain_components_match(p.core, SubSeq(host, n + 1, n + Len(p.core)))

path_pattern_matches(path, p) ==
  IF p.regex THEN Regex(path, p.path) ELSE IsPrefix(p.path, path)

AnyHost(p) == p.core \in {<<>>, <<<<"*">>>>} /\ ~p.left /\ ~p.right /\ p.path = <<>>

url_matches_pattern(r, p) ==
  LET url == parse_url_components(r)
  IN \/ AnyHost(p)
     \/ /\ host_pattern_matches(url.host, p)
        /\ Len(p.path) <= 1 \/ path_pattern_matches(url.path, p)

-----------------------------------------------------------------------------
\* matches_host_pattern: a pattern with a path matches no host, one that begins
\* with a dot takes its labels as they are, and a star may stand for dots.  (The
\* expression made of a pattern with a star would read a question mark beside it
\* as its own operator.)

Uses(labels, signs) ==
  \E i \in DOMAIN labels : \E k \in DOMAIN labels[i] : labels[i][k] \in signs

\* Mistake: the text of the domain may end in the middle of a label.
EndsWithText(host, labels) == IsSuffix(Joined(labels), Joined(host))

EndsWith(host, labels) ==
  Len(labels) <= Len(host) /\ SubSeq(host, Len(host) - Len(labels) + 1, Len(host)) = labels

matches_host_pattern(host, p) ==
  \/ p.left /\ p.core = <<>> /\ p.path = <<>>
  \/ /\ p.core # <<>> /\ Len(p.path) <= 1 /\ ~p.right
     /\ IF p.left THEN EndsWith(host, p.core)
        ELSE \/ host = p.core
             \/ Uses(p.core, {"*"}) /\ simplematch(Joined(p.core), Joined(host))

-----------------------------------------------------------------------------
\* What a pattern stands for.

\* The text can be cut into the pieces that the pattern's characters stand for.
Denotes(pat, txt) ==
  \E cut \in [0 .. Len(pat) -> 0 .. Len(txt)] :
    /\ cut[0] = 0 /\ cut[Len(pat)] = Len(txt)
    /\ \A i \in DOMAIN pat :
         IF pat[i] = "*" THEN cut[i - 1] <= cut[i]
         ELSE cut[i] = cut[i - 1] + 1 /\ pat[i] \in {"?", txt[cut[i]]}

\* The rule a pattern expresses, of the host and path the administrator sees.
Covers(p, r) ==
  LET h == Len(r.host)
      c == Len(p.core)
  IN /\ \/ p.core = <<>> \/ AnyHost(p)
        \/ \E first \in 1 .. h :
             LET last == first + c - 1
             IN /\ last <= h
                /\ first > 1 => p.left
                /\ last < h => p.right
                /\ \A i \in 1 .. c : Denotes(p.core[i], r.host[first + i - 1])
     /\ \/ Len(p.path) <= 1
        \/ path_pattern_matches(IF r.form = "connect" THEN <<"/">> ELSE r.path, p)

\* A pattern that both look-ups understand alike: a host or a domain.
Plain(p) ==
  p.core # <<>> /\ ~p.right /\ Len(p.path) <= 1 /\ ~Uses(p.core, {"*", "?"})
=============================================================================
