------------------------------- MODULE RuleList -------------------------------
(* What the actions editor does to the rules of an actions file: a request      *)
(* takes the rules as they are, and later puts in their place what one edit     *)
(* makes of the rules it took.                                                  *)
EXTENDS Integers, Sequences, SequencesExt

CONSTANTS Sessions, Actions, Patterns

VARIABLES
  rules,  \* the sections of the file, and the patterns that stand before them
  taken,  \* the rules each session's request took
  fresh,  \* whether they are the rules the administrator was shown
  reply   \* the answer to each session's latest request

Init ==
  /\ rules.stray = <<>>
  /\ taken = [s \in Sessions |-> rules]
  /\ fresh = [s \in Sessions |-> TRUE]
  /\ reply = [s \in Sessions |-> "none"]

AddUrl(r, n) ==
  \E i \in DOMAIN r.sections, p \in Patterns :
    n = [r EXCEPT !.sections[i].urls = <<p>> \o @]

EditUrl(r, n) ==
  \E i \in DOMAIN r.sections : \E k \in DOMAIN r.sections[i].urls, p \in Patterns :
    n = [r EXCEPT !.sections[i].urls[k] = p]

RemoveUrl(r, n) ==
  \E i \in DOMAIN r.sections : \E k \in DOMAIN r.sections[i].urls :
    n = [r EXCEPT !.sections[i].urls = RemoveAt(@, k)]

AddSection(r, n) ==
  \E a \in Actions :
    n = [r EXCEPT !.sections = Append(@, [actions |-> a, urls |-> <<>>])]

ChangeActions(r, n) ==
  \E i \in DOMAIN r.sections, a \in Actions : n = [r EXCEPT !.sections[i].actions = a]

\* The patterns of a section whose header goes fall to the section before it,
\* or to none.
RemoveHeader(r, n) ==
  \E i \in DOMAIN r.sections :
    LET rest == RemoveAt(r.sections, i)
        orphans == r.sections[i].urls
    IN n = IF i = 1 THEN [stray |-> orphans, sections |-> rest]
           ELSE [r EXCEPT !.sections = [rest EXCEPT ![i - 1].urls = @ \o orphans]]

\* Two sections exchange their actions and keep their patterns.
SwapHeaders(r, n) ==
  \E i, j \in DOMAIN r.sections :
    n = [r EXCEPT !.sections[i].actions = r.sections[j].actions,
                  !.sections[j].actions = r.sections[i].actions]

OneEdit(r, n) ==
  /\ r.stray = <<>>
  /\ \/ n = r
     \/ AddUrl(r, n) \/ EditUrl(r, n) \/ RemoveUrl(r, n)
     \/ AddSection(r, n) \/ ChangeActions(r, n)
     \/ RemoveHeader(r, n) \/ SwapHeaders(r, n)

Answer(s, a) == reply' = [reply EXCEPT ![s] = a]

Show(s) ==
  /\ fresh' \in [Sessions -> BOOLEAN] /\ \A t \in Sessions \ {s} : fresh'[t] = fresh[t]
  /\ UNCHANGED <<rules, taken, reply>>

Take(s) ==
  /\ taken' = [taken EXCEPT ![s] = rules]
  /\ fresh' \in [Sessions -> BOOLEAN] /\ \A t \in Sessions \ {s} : fresh'[t] = fresh[t]
  /\ Answer(s, "none")
  /\ UNCHANGED rules

Refuse(s) ==
  /\ \E a \in {"refused", "unsaved"} : Answer(s, a)
  /\ UNCHANGED <<rules, taken, fresh>>

\* A request made from a page that is out of date may hit any line.
Save(s) ==
  /\ fresh[s] => OneEdit(taken[s], rules')
  /\ Answer(s, "saved")
  /\ UNCHANGED <<taken, fresh>>

\* A disk that fails keeps no promise.
Fail(s) ==
  /\ Answer(s, "failed")
  /\ UNCHANGED <<taken, fresh>>

Next == \E s \in Sessions : Show(s) \/ Take(s) \/ Refuse(s) \/ Save(s) \/ Fail(s)

Spec == Init /\ [][Next]_<<rules, taken, fresh, reply>>
=============================================================================
