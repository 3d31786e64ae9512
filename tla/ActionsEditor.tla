---------------------------- MODULE ActionsEditor ----------------------------
(* The actions editor: the requests /eas and /edit-actions-submit               *)
(* (src/src/cgi.rs), each of which reads an actions file into an EditableFile,  *)
(* edits a line of it and writes it back (src/src/cgiedit.rs).                  *)
(*                                                                              *)
(* A file is a row of lines.  An action header and a URL pattern are told apart *)
(* by their text; a line continued with a backslash counts as one, and comments *)
(* at the end of a line are left out.                                           *)
EXTENDS Integers, Sequences, SequencesExt

CONSTANTS
  Sessions,     \* the requests that can be in progress at once
  ActionsFiles, \* the actions files to begin with
  Actions,      \* the action strings a request may give
  Patterns,     \* the URL patterns it may give, none of them empty
  Words,        \* those that contain "Failed", "Unknown" or "Invalid"
  MaxRequests   \* bound on the number of requests

Header(a) == [kind |-> "header", text |-> a]
Url(p) == [kind |-> "url", text |-> p]
Blank == [kind |-> "blank", text |-> ""]
CommentLine == [kind |-> "comment", text |-> ""]

Lines == {Header(a) : a \in Actions} \union {Url(p) : p \in Patterns} \union {Blank, CommentLine}

ASSUME EditorAssumption ==
  /\ \A f \in ActionsFiles : f \in Seq(Lines)
  /\ Words \subseteq Actions \union Patterns
  /\ "" \notin Patterns
  /\ MaxRequests \in Nat

VARIABLES
  file,      \* the lines of the actions file
  pc,        \* where each session's request stands
  request,   \* its operation, line, second line (for a swap) and text
  shown,     \* the lines the administrator saw when asking
  copy,      \* the lines of its EditableFile
  reply,     \* what the page it was answered with says
  asked      \* the number of requests so far

editor_vars == <<file, pc, request, shown, copy, reply, asked>>

NoRequest == [op |-> "none", line |-> 1, other |-> 1, text |-> ""]

\* EditableFile::parse: the first line that is not blank is a header.
Parses(f) ==
  \A i \in DOMAIN f : f[i].kind = "url" => \E h \in 1 .. i - 1 : f[h].kind = "header"

EditorInit ==
  /\ file \in ActionsFiles /\ Parses(file)
  /\ pc = [s \in Sessions |-> "idle"]
  /\ request = [s \in Sessions |-> NoRequest]
  /\ shown = [s \in Sessions |-> file]
  /\ copy = [s \in Sessions |-> file]
  /\ reply = [s \in Sessions |-> "none"]
  /\ asked = 0

-----------------------------------------------------------------------------
\* The administrator asks for what the page of the file offers.

Of(f, kind) == {i \in DOMAIN f : f[i].kind = kind}

Offers(f, r) ==
  \/ r.op = "add_url" /\ r.line \in Of(f, "header") /\ r.text \in Patterns \union {""}
  \/ r.op = "edit_url" /\ r.line \in Of(f, "url") /\ r.text \in Patterns \union {""}
  \/ r.op = "remove_url" /\ r.line \in Of(f, "url") /\ r.text = ""
  \/ r.op = "add_section" /\ r.line = Len(f) + 1 /\ r.text \in Actions
  \/ r.op = "remove_section" /\ r.line \in Of(f, "header") /\ r.text = ""
  \/ r.op = "submit" /\ r.line \in Of(f, "header") /\ r.text \in Actions
  \/ /\ r.op = "swap_sections" /\ r.text = ""
     /\ r.line \in Of(f, "header") /\ r.other \in Of(f, "header")

Operations ==
  {"add_url", "edit_url", "remove_url", "add_section", "remove_section", "submit",
   "swap_sections"}

Ask(s) ==
  /\ pc[s] = "idle" /\ asked < MaxRequests
  /\ \E op \in Operations, line \in 1 .. Len(file) + 1,
        text \in Actions \union Patterns \union {""} :
       \E other \in IF op = "swap_sections" THEN line + 1 .. Len(file) ELSE {1} :
         LET r == [op |-> op, line |-> line, other |-> other, text |-> text]
         IN Offers(file, r) /\ request' = [request EXCEPT ![s] = r]
  /\ pc' = [pc EXCEPT ![s] = "asked"]
  /\ shown' = [shown EXCEPT ![s] = file]
  /\ asked' = asked + 1
  /\ UNCHANGED <<file, copy, reply>>

-----------------------------------------------------------------------------
\* read_file and parse.

ReadFile(s) ==
  /\ pc[s] = "asked" /\ Parses(file)
  /\ copy' = [copy EXCEPT ![s] = file]
  /\ reply' = [reply EXCEPT ![s] = "none"]
  /\ pc' = [pc EXCEPT ![s] = "edit"]
  /\ UNCHANGED <<file, request, shown, asked>>

Reply(s, says) ==
  /\ reply' = [reply EXCEPT ![s] = says]
  /\ pc' = [pc EXCEPT ![s] = "idle"]

\* The file cannot be read, or its lines do not parse.
ReadFails(s) ==
  /\ pc[s] = "asked"
  /\ Reply(s, "refused")
  /\ UNCHANGED <<file, request, shown, copy, asked>>

-----------------------------------------------------------------------------
\* write_file: a comment becomes a blank line, as does a pattern that is empty,
\* with another one for the line end it carries.

WrittenLine(l) ==
  IF l.kind = "comment" THEN <<Blank>>
  ELSE IF l = Url("") THEN <<Blank, Blank>>
  ELSE <<l>>

Whole(lines) ==
  LET out[i \in 0 .. Len(lines)] ==
        IF i = 0 THEN <<>> ELSE out[i - 1] \o WrittenLine(lines[i])
  IN out[Len(lines)]

\* File::create empties the file, and an error may end the writing anywhere.
Save(s, lines) ==
  LET whole == Whole(lines)
  IN /\ \/ file' = whole /\ Reply(s, "saved")
        \/ \E n \in 0 .. Len(whole) - 1 : file' = SubSeq(whole, 1, n) /\ Reply(s, "failed")
     /\ UNCHANGED <<request, shown, copy, asked>>

\* The message that answers an edit repeats its text: one that contains a word
\* of failure keeps the file from being written.
SaveUnless(s, words, lines) ==
  IF request[s].text \in words
  THEN Reply(s, "unsaved") /\ UNCHANGED <<file, request, shown, copy, asked>>
  ELSE Save(s, lines)

Editing(s, op) == pc[s] = "edit" /\ request[s].op = op
InFile(s, i) == i \in DOMAIN copy[s]

\* Mistake: the new line goes before the one asked for.
InsertBefore(f, i, l) == IF i > Len(f) THEN Append(f, l) ELSE InsertAt(f, i, l)

InsertAfter(f, i, l) == IF i > Len(f) THEN Append(f, l) ELSE InsertAt(f, i + 1, l)

AddUrl(s) ==
  /\ Editing(s, "add_url") /\ request[s].text # ""
  /\ SaveUnless(s, Words, InsertAfter(copy[s], request[s].line, Url(request[s].text)))

AddSection(s) ==
  /\ Editing(s, "add_section")
  /\ SaveUnless(s, Words, InsertAfter(copy[s], request[s].line, Header(request[s].text)))

\* A line that is no pattern any more is left as it is, and the file written.
EditUrl(s) ==
  /\ Editing(s, "edit_url") /\ InFile(s, request[s].line)
  /\ IF copy[s][request[s].line].kind = "url"
     THEN SaveUnless(s, Words, ReplaceAt(copy[s], request[s].line, Url(request[s].text)))
     ELSE Save(s, copy[s])

\* remove_url and remove_section both remove one line, whatever it is.
RemoveLine(s) ==
  /\ Editing(s, "remove_url") \/ Editing(s, "remove_section")
  /\ InFile(s, request[s].line)
  /\ Save(s, RemoveAt(copy[s], request[s].line))

SwapLines(s) ==
  LET i == request[s].line
      j == request[s].other
  IN /\ Editing(s, "swap_sections") /\ InFile(s, i) /\ InFile(s, j)
     /\ Save(s, [copy[s] EXCEPT ![i] = copy[s][j], ![j] = copy[s][i]])

\* handle_edit_actions_submit: write_file looks at the new actions in a header only.
Submit(s) ==
  LET i == request[s].line
  IN /\ Editing(s, "submit") /\ InFile(s, i)
     /\ Save(s, IF copy[s][i].kind = "header"
                THEN ReplaceAt(copy[s], i, Header(request[s].text))
                ELSE copy[s])

\* An empty pattern to add, or a line that is not in the file any more.
EditFails(s) ==
  /\ pc[s] = "edit"
  /\ \/ request[s].op = "add_url" /\ request[s].text = ""
     \/ /\ request[s].op \notin {"add_url", "add_section"}
        /\ ~InFile(s, request[s].line)
     \/ request[s].op = "swap_sections" /\ ~InFile(s, request[s].other)
  /\ Reply(s, "refused")
  /\ UNCHANGED <<file, request, shown, copy, asked>>

-----------------------------------------------------------------------------

Handle(s) ==
  \/ ReadFile(s) \/ ReadFails(s) \/ EditFails(s)
  \/ AddUrl(s) \/ AddSection(s) \/ EditUrl(s) \/ RemoveLine(s) \/ SwapLines(s) \/ Submit(s)

EditorNext == \E s \in Sessions : Ask(s) \/ Handle(s)

EditorSpec == EditorInit /\ [][EditorNext]_editor_vars

-----------------------------------------------------------------------------
\* ActionsFile::load (src/src/loaders.rs): a pattern belongs to the header before
\* it, and to none before the first.

NoRules == [stray |-> <<>>, sections |-> <<>>]

Read(r, l) ==
  CASE l.kind = "header" ->
         [r EXCEPT !.sections = Append(@, [actions |-> l.text, urls |-> <<>>])]
    [] l.kind = "url" /\ r.sections = <<>> -> [r EXCEPT !.stray = Append(@, l.text)]
    [] l.kind = "url" /\ r.sections # <<>> ->
         [r EXCEPT !.sections[Len(r.sections)].urls = Append(@, l.text)]
    [] OTHER -> r

Outline(f) ==
  LET made[i \in 0 .. Len(f)] == IF i = 0 THEN NoRules ELSE Read(made[i - 1], f[i])
  IN made[Len(f)]

\* As write_file leaves it.
Plain(f) == [i \in DOMAIN f |-> IF f[i] = CommentLine THEN Blank ELSE f[i]]

Promise == INSTANCE RuleList
  WITH rules <- Outline(file),
       taken <- [s \in Sessions |-> Outline(copy[s])],
       fresh <- [s \in Sessions |-> Plain(shown[s]) = Plain(copy[s])]

\* A request that is answered as saved has made one edit to the rules it read,
\* provided they were still those its page showed, and one that is not has made
\* none, unless the disk failed: lines are counted with the blank ones and the
\* comments, and no rule is lost, moved or given other actions by that.
KeepsPromise == Promise!Spec
=============================================================================
