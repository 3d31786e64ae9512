-------------------------------- MODULE Filters --------------------------------
(* Filter files and what they do to an exchange: parse_filter_file and the jobs  *)
(* of a Filter (src/src/filter.rs, with read_lines of src/src/util.rs), the      *)
(* taggers and content filters of src/src/action.rs, and the places of           *)
(* src/src/connection.rs that call them.                                         *)
(*                                                                               *)
(* A text is a sequence of characters, but for the start of a filter's header    *)
(* and the name of a variable, which are one element each.                       *)
EXTENDS Integers, Sequences, SequencesExt, FiniteSetsExt

CONSTANTS
  Lines,      \* the lines a filter file may have
  MaxLines,   \* of both files together
  Word,       \* the characters that may follow a "$" in the name of a group
  Literal,    \* the regular expressions that are valid, with the text each stands for
  Types,      \* the type of filter that a header announces
  Rules,      \* the filters a rule may name, by type
  Urls,       \* the hosts and paths of requests
  Requests,   \* the header lines of a request, as they are sent to the server
  Answers     \* what the server may answer, with the header lines the client gets

\* No regular expression matches where there is no text.
ASSUME FiltersAssumption ==
  /\ Lines \subseteq Seq(STRING)
  /\ \A pattern \in DOMAIN Literal : Literal[pattern] \in Seq(STRING) \ {<<>>}
  /\ Rules \subseteq [{"content", "client-header-tagger", "server-header-tagger"}
                        -> Seq(Seq(STRING))]
  /\ Urls \subseteq [host : Seq(STRING), path : Seq(STRING)]
  /\ Requests \subseteq Seq(Seq(STRING))
  /\ Answers \subseteq [headers : Seq(Seq(STRING)), body : Seq(STRING), text : BOOLEAN]

Blank == " "

\* The text without the blanks at both ends.
trim(text) ==
  LET solid == {i \in DOMAIN text : text[i] # Blank}
  IN IF solid = {} THEN <<>> ELSE SubSeq(text, Min(solid), Max(solid))

\* Mistake: a backslash escapes the next character, even if it is escaped itself.
ScanPlain(text, c) ==
  LET found == {i \in DOMAIN text : text[i] = c /\ (i = 1 \/ text[i - 1] # "\\")}
  IN IF found = {} THEN 0 ELSE Min(found)

\* Where c first stands in text without a backslash that escapes it, or 0.  The
\* backslash is tested first, so that it never is found itself.
Scan(text, c) ==
  FoldLeftDomain(
    LAMBDA s, i :
      IF s.at > 0 THEN s
      ELSE IF s.escaped THEN [s EXCEPT !.escaped = FALSE]
      ELSE IF text[i] = "\\" THEN [s EXCEPT !.escaped = TRUE]
      ELSE IF text[i] = c THEN [s EXCEPT !.at = i] ELSE s,
    [at |-> 0, escaped |-> FALSE], text).at

StandsAt(text, i, part) ==
  i + Len(part) - 1 <= Len(text) /\ SubSeq(text, i, i + Len(part) - 1) = part

\* What replace and replace_all do: every occurrence of a text, from the left.
Replaced(text, old, new) ==
  IF old = <<>> THEN text
  ELSE FoldLeftDomain(
    LAMBDA r, i :
      IF r.skip > 0 THEN [r EXCEPT !.skip = r.skip - 1]
      ELSE IF StandsAt(text, i, old)
      THEN [out |-> r.out \o new, skip |-> Len(old) - 1]
      ELSE [r EXCEPT !.out = Append(r.out, text[i])],
    [out |-> <<>>, skip |-> 0], text).out

-----------------------------------------------------------------------------
\* Reading a filter file.

\* A backslash that only blanks follow joins a line to the next.
Backslashes(line) == {i \in DOMAIN line : line[i] = "\\"}

Continues(line) ==
  \E i \in Backslashes(line) : \A j \in i + 1 .. Len(line) : line[j] = Blank

Cut(line) == SubSeq(line, 1, Max(Backslashes(line)) - 1)

process_line(text) ==
  LET hash == Scan(text, "#")
      content == IF hash = 0 THEN text ELSE SubSeq(text, 1, hash - 1)
  IN trim(Replaced(content, <<"\\", "#">>, <<"#">>))

IsHeader(line) == line # <<>> /\ line[1] \in DOMAIN Types

Filter(type, name) == [type |-> type, name |-> name, jobs |-> <<>>, dynamic |-> FALSE]

\* The name ends at the first blank; what follows is a description.
parse_filter_header(line) ==
  LET rest == trim(Tail(line))
      blanks == {i \in DOMAIN rest : rest[i] = Blank}
  IN Filter(Types[line[1]], IF blanks = {} THEN rest ELSE SubSeq(rest, 1, Min(blanks) - 1))

\* An escape is a backslash and a character that has a meaning after one.
Unescaped(text, meaning) ==
  LET Escapes(i) == /\ text[i] = "\\" /\ i < Len(text) /\ text[i + 1] \in DOMAIN meaning
  IN FoldLeftDomain(
       LAMBDA out, i :
         IF Escapes(i) THEN out
         ELSE IF i > 1 /\ Escapes(i - 1) THEN Append(out, meaning[text[i]])
         ELSE Append(out, text[i]),
       <<>>, text)

unescape_pattern(text, delimiter) == Unescaped(text, [c \in {delimiter} |-> c])

unescape_replacement(text, delimiter) ==
  LET controls == [n |-> "newline", t |-> "tab", r |-> "return"]
  IN Unescaped(text, [c \in {delimiter} \union DOMAIN controls |->
                        IF c = delimiter THEN c ELSE controls[c]])

Job(text, replacement, flags) ==
  [text |-> text, replacement |-> replacement,
   dynamic |-> Contains(flags, "D"), trivial |-> Contains(flags, "T")]

\* The jobs of a line: one, or none if the line is no job, if its pattern is not
\* terminated or if it is no regular expression.
parse_filter_job(line) ==
  IF Len(line) < 2 \/ line[1] \notin {"s", "S"} THEN <<>>
  ELSE LET delimiter == line[2]
           rest == SubSeq(line, 3, Len(line))
           end == Scan(rest, delimiter)
           pattern == unescape_pattern(SubSeq(rest, 1, end - 1), delimiter)
           after == SubSeq(rest, end + 1, Len(rest))
           last == Scan(after, delimiter)
           replacement == IF last = 0 THEN after ELSE SubSeq(after, 1, last - 1)
           flags == IF last = 0 THEN <<>> ELSE SubSeq(after, last + 1, Len(after))
       IN IF end = 0 \/ pattern \notin DOMAIN Literal THEN <<>>
          ELSE <<Job(Literal[pattern], unescape_replacement(replacement, delimiter), flags)>>

\* A job in front of the first header of its file belongs to no filter.
add_jobs(fs, jobs) ==
  IF fs = <<>> \/ jobs = <<>> THEN fs
  ELSE [fs EXCEPT ![Len(fs)].jobs = @ \o jobs, ![Len(fs)].dynamic = @ \/ jobs[1].dynamic]

\* One line of parse_filter_lines; fs holds the filters of the file so far, with
\* current_filter as its last.
parse_filter_line(fs, line) ==
  IF IsHeader(line) THEN Append(fs, parse_filter_header(line))
  ELSE add_jobs(fs, parse_filter_job(line))

-----------------------------------------------------------------------------
\* Applying filters.

Names == <<"$host", "$url", "$path", "$origin">>

\* The path begins with one slash more than the request's.
FilterVariables(u) ==
  [name \in ToSet(Names) |->
     CASE name = "$host" -> u.host
       [] name = "$url" -> <<"http://">> \o u.host \o u.path
       [] name = "$path" -> IF u.path = <<>> THEN <<>> ELSE <<"/">> \o u.path
       [] name = "$origin" -> <<"client">>]

Of(n, variables, text) == Replaced(text, <<Names[n]>>, variables[Names[n]])

\* One name after the other, so that a name in a value is replaced in its turn.
substitute_variables(text, variables) ==
  Of(4, variables, Of(3, variables, Of(2, variables, Of(1, variables, text))))

\* The regular expressions have no groups: replace_all takes every "$name" out,
\* with all the characters that may belong to the name.
Expanded(text) ==
  LET InGroup(i) ==
        \E j \in 1 .. i : text[j] \in ToSet(Names) /\ \A k \in j + 1 .. i : text[k] \in Word
  IN FoldLeftDomain(LAMBDA out, i : IF InGroup(i) THEN out ELSE Append(out, text[i]), <<>>, text)

ApplyJob(job, text, dynamic, variables) ==
  LET replacement == IF dynamic /\ job.dynamic /\ ~job.trivial
                     THEN substitute_variables(job.replacement, variables)
                     ELSE job.replacement
  IN Replaced(text, job.text, Expanded(replacement))

\* A filter that is not dynamic is applied without the variables.
apply(filter, text, variables) ==
  FoldLeft(LAMBDA t, job : ApplyJob(job, t, filter.dynamic, variables), text, filter.jobs)

-----------------------------------------------------------------------------
VARIABLES
  files,      \* the lines of the filter files, as far as they are read
  joined,     \* current_line: the lines that wait for the one they continue on
  current,    \* the filters of the file that is read
  filters,    \* the filters of the Config
  stage,      \* "files", "request", "response" or "done"
  rule,       \* the filters that the action for this URL names
  url, request, answer,
  tags,       \* of the ActionContext
  delivered   \* the body the client is sent

vars == <<files, joined, current, filters, stage, rule, url, request, answer, tags, delivered>>

exchange == <<rule, url, request, answer, tags, delivered>>

NoUrl == [host |-> <<>>, path |-> <<>>]
NoAnswer == [headers |-> <<>>, body |-> <<>>, text |-> FALSE]

Init ==
  /\ files = << <<>> >> /\ joined = <<>> /\ current = <<>> /\ filters = <<>>
  /\ stage = "files" /\ rule = <<>> /\ url = NoUrl /\ request = <<>> /\ answer = NoAnswer
  /\ tags = {} /\ delivered = <<>>

Parsed(text) == IF text = <<>> THEN current ELSE parse_filter_line(current, text)

Read == FoldLeft(LAMBDA n, f : n + Len(f), 0, files)

ReadLine(line) ==
  /\ stage = "files" /\ Read < MaxLines
  /\ files' = [files EXCEPT ![Len(files)] = Append(@, line)]
  /\ IF Continues(line)
     THEN joined' = joined \o Cut(line) /\ current' = current
     ELSE joined' = <<>> /\ current' = Parsed(process_line(joined \o line))
  /\ UNCHANGED <<filters, stage, exchange>>

\* There are two filter files, read one after the other.
EndOfFile ==
  /\ stage = "files"
  /\ filters' = filters \o Parsed(process_line(joined))
  /\ current' = <<>> /\ joined' = <<>>
  /\ IF Len(files) = 1 THEN files' = Append(files, <<>>) /\ stage' = stage
     ELSE stage' = "request" /\ files' = files
  /\ UNCHANGED exchange

-----------------------------------------------------------------------------

\* Mistake: names are shared by the types.
find_filter_named(name, type) ==
  LET same == {i \in DOMAIN filters : filters[i].name = name}
  IN IF same = {} THEN <<>> ELSE <<filters[Min(same)]>>

\* The filter of a name and type: where there are several, the first one.
find_filter(name, type) ==
  LET same == {i \in DOMAIN filters : filters[i].name = name /\ filters[i].type = type}
  IN IF same = {} THEN <<>> ELSE <<filters[Min(same)]>>

\* The rule's filters of one type that exist.
Found(r, type) ==
  FoldLeft(LAMBDA fs, name : fs \o find_filter(name, type), <<>>, r[type])

apply_tagger(filter, line, variables) == {apply(filter, line, variables)} \ {line, <<>>}

\* The tags a rule sets for these header lines.  No rule suppresses tags.
TagsOf(r, type, lines, u) ==
  UNION {apply_tagger(filter, line, FilterVariables(u)) :
           filter \in ToSet(Found(r, type)), line \in ToSet(lines)}

apply_content_filters(body) ==
  FoldLeft(LAMBDA b, filter : apply(filter, b, FilterVariables(url)),
           body, Found(rule, "content"))

Ask(u, r, h) ==
  /\ stage = "request"
  /\ stage' = "response"
  /\ url' = u /\ rule' = r /\ request' = h
  /\ tags' = TagsOf(r, "client-header-tagger", h, u)
  /\ UNCHANGED <<files, joined, current, filters, answer, delivered>>

\* A body is filtered if its content type says that it is text and if it is one.
Answer(a) ==
  /\ stage = "response"
  /\ stage' = "done"
  /\ answer' = a
  /\ tags' = tags \union TagsOf(rule, "server-header-tagger", a.headers, url)
  /\ delivered' = IF a.text THEN apply_content_filters(a.body) ELSE a.body
  /\ UNCHANGED <<files, joined, current, filters, rule, url, request>>

Next ==
  \/ \E line \in Lines : ReadLine(line)
  \/ EndOfFile
  \/ \E u \in Urls, r \in Rules, h \in Requests : Ask(u, r, h)
  \/ \E a \in Answers : Answer(a)

Spec == Init /\ [][Next]_vars

-----------------------------------------------------------------------------

\* A character is escaped by an odd number of backslashes in front of it: those
\* behind the last other character.
Bare(text, c) ==
  LET other(i) == Max({0} \union {m \in 1 .. i - 1 : text[m] # "\\"})
  IN {i \in DOMAIN text : text[i] = c /\ (i - 1 - other(i)) % 2 = 0}

\* The occurrences of a text that are replaced: those that no occurrence further
\* left overlaps which is replaced itself.
Occurrences(text, old) ==
  LET all == {i \in DOMAIN text : StandsAt(text, i, old)}
  IN CHOOSE chosen \in SUBSET all :
       \A i \in all : i \in chosen <=> \A j \in chosen : j < i => j + Len(old) <= i

Rewritten(text, old, new) ==
  LET at == Occurrences(text, old)
      Inside(i) == \E j \in at : j < i /\ i < j + Len(old)
  IN FlattenSeq([i \in DOMAIN text |->
       IF i \in at THEN new ELSE IF Inside(i) THEN <<>> ELSE <<text[i]>>])

\* What a line says once its comment is gone and "\#" is a plain "#".
Said(text) ==
  LET hashes == Bare(text, "#")
      kept == IF hashes = {} THEN text ELSE SubSeq(text, 1, Min(hashes) - 1)
  IN trim(Rewritten(kept, <<"\\", "#">>, <<"#">>))

\* Line i of a file, with the lines in front of it that continue on it.
LineAt(file, i) ==
  LET from == Max({0} \union {j \in 1 .. i - 1 : ~Continues(file[j])}) + 1
  IN FlattenSeq([k \in 1 .. i - from + 1 |->
       LET line == file[from + k - 1] IN IF Continues(line) THEN Cut(line) ELSE line])

\* What the lines of a file say, each with those that it continues.
Contents(file) ==
  FlattenSeq([i \in DOMAIN file |->
    IF i < Len(file) /\ Continues(file[i]) THEN <<>> ELSE <<Said(LineAt(file, i))>>])

\* s, a delimiter, a pattern, the delimiter, a replacement, and possibly the
\* delimiter once more and flags.
JobsOf(line) ==
  LET body == SubSeq(line, 3, Len(line))
      ends == Bare(body, line[2])
      first == Min(ends)
      more == ends \ {first}
      pattern == unescape_pattern(SubSeq(body, 1, first - 1), line[2])
      replacement == SubSeq(body, first + 1, IF more = {} THEN Len(body) ELSE Min(more) - 1)
      flags == IF more = {} THEN <<>> ELSE SubSeq(body, Min(more) + 1, Len(body))
      IsJob == Len(line) > 1 /\ line[1] \in {"s", "S"} /\ line[2] # "\\" /\ ends # {}
  IN IF IsJob /\ pattern \in DOMAIN Literal
     THEN <<Job(Literal[pattern], unescape_replacement(replacement, line[2]), flags)>>
     ELSE <<>>

\* The filter whose header is line i, with the jobs up to the next header.
FilterAt(lines, i) ==
  LET next == {j \in i + 1 .. Len(lines) : IsHeader(lines[j])}
      last == IF next = {} THEN Len(lines) ELSE Min(next) - 1
      jobs == FlattenSeq([k \in 1 .. last - i |-> JobsOf(lines[i + k])])
  IN [parse_filter_header(lines[i])
       EXCEPT !.jobs = jobs, !.dynamic = \E j \in ToSet(jobs) : j.dynamic]

FiltersOf(file) ==
  LET lines == Contents(file)
  IN FlattenSeq([i \in DOMAIN lines |->
       IF IsHeader(lines[i]) THEN <<FilterAt(lines, i)>> ELSE <<>>])

\* What parse_filter_file makes of two files read line by line, with state carried
\* from one line to the next: of every header a filter with the jobs up to the
\* next one of its file, whose patterns, replacements and flags end at the
\* delimiters that are not escaped.
FiltersAsWritten ==
  stage # "files" => filters = FiltersOf(files[1]) \o FiltersOf(files[2])

\* What stands for a job's replacement: in a dynamic one the values of all names
\* at once, in another one nothing.
ValueOf(job) ==
  LET values == FilterVariables(url)
      text == job.replacement
      After(i) == \E j \in 1 .. i - 1 :
                    text[j] \in ToSet(Names) /\ \A k \in j + 1 .. i : text[k] \in Word
  IN FlattenSeq([i \in DOMAIN text |->
       IF job.dynamic /\ ~job.trivial
       THEN IF text[i] \in ToSet(Names) THEN values[text[i]] ELSE <<text[i]>>
       ELSE IF text[i] \in ToSet(Names) \/ After(i) THEN <<>> ELSE <<text[i]>>])

\* The jobs that a name of the rule stands for.
JobsNamed(name, type) ==
  LET fs == {i \in DOMAIN filters : filters[i].name = name /\ filters[i].type = type}
  IN IF fs = {} THEN <<>> ELSE filters[Min(fs)].jobs

ByJobs(text, jobs) == FoldLeft(LAMBDA t, j : Rewritten(t, j.text, ValueOf(j)), text, jobs)

TagsFrom(type, lines) ==
  UNION {{ByJobs(line, JobsNamed(name, type))} \ {line, <<>>} :
           line \in lines, name \in ToSet(rule[type])}

\* What an exchange gets out of the filters of its rule: the tags its header lines
\* become, and a body rewritten by the content filters in the rule's order, each
\* with its own jobs in theirs.  A URL that holds the name of a variable is not
\* covered: the name is replaced again, or taken out.
RewrittenAsRuled ==
  (stage = "done" /\ ToSet(url.host \o url.path) \cap ToSet(Names) = {}) =>
    /\ delivered = IF answer.text
                   THEN ByJobs(answer.body, FlattenSeq([i \in DOMAIN rule["content"] |->
                                 JobsNamed(rule["content"][i], "content")]))
                   ELSE answer.body
    /\ tags = TagsFrom("client-header-tagger", ToSet(request))
                \union TagsFrom("server-header-tagger", ToSet(answer.headers))
=============================================================================
