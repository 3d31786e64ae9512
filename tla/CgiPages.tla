------------------------------- MODULE CgiPages -------------------------------
(* The pages the proxy answers itself: is_cgi_request, handle_cgi_request and    *)
(* the page generators of src/src/cgi.rs that it reaches, as tasks of several    *)
(* connections that read the toggle and the counter of requests one read after   *)
(* the other while the tray icon and the accept loops change them.  The web      *)
(* interface of start_web_interface, which nothing calls, is left out.           *)
EXTENDS Templates, TLC

CONSTANTS
  Conn,          \* connections
  Directories,   \* what the templates directory may hold: names to lines
  Settings,      \* the configuration the handler was made with
  Requests       \* what clients may ask

ASSUME PagesAssumption ==
  \A files \in Directories : \A name \in DOMAIN files : files[name] \in Seq(Line)

VARIABLES
  directory,     \* the templates that are there
  settings,      \* has an admin address, allows the toggle page, listens on a port
  enabled,       \* global_toggle
  received,      \* requests_received
  conn           \* the connections' tasks

vars == <<directory, settings, enabled, received, conn>>

\* A task: where it is, the page it makes, what it has read (the toggle, the
\* counter three times) and the page.
Fresh == [pc |-> "accepted", kind |-> "none", on |-> FALSE, first |-> 0, shown |-> 0,
          last |-> 0, page |-> <<>>]

Init ==
  /\ directory \in Directories
  /\ settings \in Settings
  /\ enabled = TRUE
  /\ received = 0
  /\ conn = [c \in Conn |-> Fresh]

-----------------------------------------------------------------------------
\* Which requests are answered by a page, and which page it is.

IsCgiRequest(request) ==
  \/ request.host = "privoxy"
  \/ request.host = "localhost" /\ request.port \in {"8118"} \cup settings.ports

\* The page for a path without its scheme, host and query.
RouteOf(request) ==
  IF request.method = "POST" /\ request.path \in {"/eas", "/edit-actions-submit"}
  THEN "edited"
  ELSE CASE request.path \in {"/", "/index.html"} -> "default"
         [] request.path \in {"/show-status", "/status"} -> "show-status"
         [] request.path = "/show-request" -> "Show Request"
         [] request.path = "/show-url-info" -> "URL Info"
         [] request.path = "/user-manual" -> "User Manual"
         [] request.path = "/toggle" -> IF settings.toggle THEN "Toggle Privoxy" ELSE "Disabled"
         [] OTHER -> "404 Not Found"

-----------------------------------------------------------------------------
\* The symbols of a page.

Number(n) == ToString(n)

\* The symbols common to all pages that the templates of an instance use.  Only one
\* of a pair of conditions is set; the other has no value or an empty one.
CommonSymbols(on, first) ==
  LET unset == {IF first = 0 THEN "have-stats" ELSE "have-no-stats"}
                 \cup (IF settings.admin THEN {} ELSE {"have-adminaddr-info"})
  IN [name \in {"enabled-display", "disabled", "requests-received", "requests-blocked"} \cup unset |->
       CASE name = "enabled-display" -> IF on THEN "enabled" ELSE ""
         [] name = "disabled" -> IF on THEN "" ELSE "disabled"
         [] name = "requests-received" -> Number(first)
         [] name = "requests-blocked" -> Number(0)
         [] OTHER -> ""]

\* What the main and the status page insert, over the common symbols.
PageSymbols(on, first, shown, last) ==
  LET common == CommonSymbols(on, first)
      stats == IF last > 0 THEN "have-stats" ELSE "have-no-stats"
  IN [name \in DOMAIN common \cup {stats} |->
       CASE name = stats -> "1"
         [] name = "requests-received" -> Number(shown)
         [] OTHER -> common[name]]

-----------------------------------------------------------------------------
\* Mistake: a request is counted when it has been answered.
RegisterUncounted(c) ==
  /\ conn[c].pc = "accepted"
  /\ conn' = [conn EXCEPT ![c].pc = "reading"]
  /\ UNCHANGED <<directory, settings, enabled, received>>

\* handle_connection counts the request before it reads it.
Register(c) ==
  /\ conn[c].pc = "accepted"
  /\ conn' = [conn EXCEPT ![c].pc = "reading"]
  /\ received' = received + 1
  /\ UNCHANGED <<directory, settings, enabled>>

Proxied(c, request) ==
  /\ conn[c].pc = "reading"
  /\ ~ IsCgiRequest(request)
  /\ conn' = [conn EXCEPT ![c].pc = "proxied"]
  /\ UNCHANGED <<directory, settings, enabled, received>>

\* A page without numbers is made at once.
StaticPage(c, request) ==
  /\ conn[c].pc = "reading"
  /\ IsCgiRequest(request)
  /\ RouteOf(request) \notin {"default", "show-status"}
  /\ conn' = [conn EXCEPT ![c].pc = "done", ![c].kind = RouteOf(request),
                          ![c].page = <<Tok("text", RouteOf(request))>>]
  /\ UNCHANGED <<directory, settings, enabled, received>>

\* The template is read when its page is begun; without one the page that is built
\* into the program is made.
BeginPage(c, request) ==
  /\ conn[c].pc = "reading"
  /\ IsCgiRequest(request)
  /\ RouteOf(request) \in {"default", "show-status"}
  /\ conn' = [conn EXCEPT ![c].kind = RouteOf(request),
                          ![c].pc = IF RouteOf(request) \in DOMAIN directory
                                    THEN "toggle" ELSE "hardcoded"]
  /\ UNCHANGED <<directory, settings, enabled, received>>

HardcodedPage(c) ==
  /\ conn[c].pc = "hardcoded"
  /\ conn' = [conn EXCEPT ![c].pc = "done", ![c].first = received, ![c].shown = received,
                          ![c].last = received,
                          ![c].page = <<Tok("text", conn[c].kind), Tok("text", Number(received))>>]
  /\ UNCHANGED <<directory, settings, enabled, received>>

ReadToggle(c) ==
  /\ conn[c].pc = "toggle"
  /\ conn' = [conn EXCEPT ![c].pc = "common", ![c].on = enabled]
  /\ UNCHANGED <<directory, settings, enabled, received>>

ReadCommonCount(c) ==
  /\ conn[c].pc = "common"
  /\ conn' = [conn EXCEPT ![c].pc = "count", ![c].first = received]
  /\ UNCHANGED <<directory, settings, enabled, received>>

ReadShownCount(c) ==
  /\ conn[c].pc = "count"
  /\ conn' = [conn EXCEPT ![c].pc = "decide", ![c].shown = received]
  /\ UNCHANGED <<directory, settings, enabled, received>>

\* The third read of the counter decides which block is shown; then the page is made.
RenderPage(c) ==
  /\ conn[c].pc = "decide"
  /\ LET symbols == PageSymbols(conn[c].on, conn[c].first, conn[c].shown, received)
     IN conn' = [conn EXCEPT ![c].pc = "done", ![c].last = received,
                             ![c].page = Render(LoadTemplate(directory, conn[c].kind), symbols)]
  /\ UNCHANGED <<directory, settings, enabled, received>>

\* The tray icon's menu.
Toggle ==
  /\ enabled' = ~ enabled
  /\ UNCHANGED <<directory, settings, received, conn>>

Next ==
  \/ \E c \in Conn :
       \/ Register(c)
       \/ \E request \in Requests :
            Proxied(c, request) \/ StaticPage(c, request) \/ BeginPage(c, request)
       \/ HardcodedPage(c)
       \/ ReadToggle(c) \/ ReadCommonCount(c) \/ ReadShownCount(c) \/ RenderPage(c)
  \/ Toggle

Spec == Init /\ [][Next]_vars

-----------------------------------------------------------------------------
\* Every variable has its type.
TypeOK ==
  /\ directory \in Directories /\ settings \in Settings
  /\ enabled \in BOOLEAN /\ received \in Nat
  /\ \A c \in Conn :
       /\ conn[c].pc \in {"accepted", "reading", "proxied", "hardcoded", "toggle", "common",
                          "count", "decide", "done"}
       /\ conn[c].on \in BOOLEAN
       /\ {conn[c].first, conn[c].shown, conn[c].last} \subseteq Nat

\* A page with statistics counts the request it answers and every one that was
\* counted before it: its three reads of the counter, each of which other
\* connections may come between, are never 0, never go back and never exceed the
\* counter, so that the number and the blocks chosen by it belong together.
PageCountsItself ==
  \A c \in Conn :
    conn[c].pc = "done" /\ conn[c].kind \in {"default", "show-status"} =>
      /\ 1 <= conn[c].first
      /\ conn[c].first <= conn[c].shown
      /\ conn[c].shown <= conn[c].last
      /\ conn[c].last <= received

-----------------------------------------------------------------------------
\* What an author means by a template.

\* The lines of a template: no comments, and in the place of a line that names a
\* file the lines of that file, but none that it includes in its turn.
LinesOf(name) ==
  LET Own(file, i) == IF file[i].is = "tokens" THEN <<file[i]>> ELSE <<>>
      Here(file, i) ==
        IF file[i].is = "include" /\ file[i].name \in DOMAIN directory
        THEN FlattenSeq([j \in DOMAIN directory[file[i].name] |-> Own(directory[file[i].name], j)])
        ELSE Own(file, i)
  IN FlattenSeq([i \in DOMAIN directory[name] |-> Here(directory[name], i)])

TextOf(name) ==
  LET lines == LinesOf(name)
  IN FlattenSeq([i \in DOMAIN lines |-> Append(lines[i].toks, Tok("nl", ""))])

IsMarker(token) == token.kind \in Markers

\* The condition or the block that begins at position i: where its second branch
\* begins, which a block does not have, and where it ends, 0 if it does not.
ForkAt(text, i) ==
  LET else == After(text, i, Tok("else", text[i].name))
      endif == After(text, else, Tok("endif", text[i].name))
      end == After(text, i, Tok("end", text[i].name))
  IN IF text[i].kind = "start" THEN [from |-> i, else |-> end, to |-> end]
     ELSE [from |-> i, else |-> else, to |-> IF else = 0 THEN 0 ELSE endif]

Forks(text, n) == {ForkAt(text, i) : i \in {j \in 1 .. n : text[j].kind \in {"then", "start"}}}

InBranch(f, g) ==
  \/ g.from < f.from /\ f.to < g.else
  \/ g.else < f.from /\ f.to < g.to

\* The first n tokens make sense: every marker has its partners among them, and of
\* two conditions or blocks one ends before the other or stands in a branch of it.
MakesSense(text, n) ==
  /\ \A f \in Forks(text, n) : f.to \in 1 .. n
  /\ \A i \in 1 .. n : IsMarker(text[i]) => \E f \in Forks(text, n) : i \in {f.from, f.else, f.to}
  /\ \A f, g \in Forks(text, n) :
       f = g \/ f.to < g.from \/ g.to < f.from \/ InBranch(f, g) \/ InBranch(g, f)

\* The value of a symbol; a name that is not known stays as it is written.
Value(c, name) ==
  CASE name = "requests-received" -> Tok("text", Number(conn[c].shown))
    [] name = "requests-blocked" -> Tok("text", Number(0))
    [] name = "enabled-display" -> Tok("text", IF conn[c].on THEN "enabled" ELSE "")
    [] name = "disabled" -> Tok("text", IF conn[c].on THEN "" ELSE "disabled")
    [] name = "have-stats" -> Tok("text", "1")
    [] name = "have-no-stats" -> Tok("text", "")
    [] name = "have-adminaddr-info" /\ ~ settings.admin -> Tok("text", "")
    [] OTHER -> Tok("sym", name)

\* A condition holds if it has a value; the one about the administrator's address
\* holds if there is an address, as generate_default_symbols says of it.
Holds(c, name) ==
  \/ name = "have-adminaddr-info" /\ settings.admin
  \/ Value(c, name).kind = "text" /\ Value(c, name).name # ""

\* What the first n tokens say: those that stand in the branch that applies of each
\* condition or block around them.
Meaning(c, text, n) ==
  LET Applies(i) == \A f \in Forks(text, n) :
        f.from < i /\ i < f.to => (i < f.else <=> Holds(c, text[f.from].name))
  IN FlattenSeq([i \in 1 .. n |->
       IF Applies(i) /\ text[i].kind = "sym" THEN <<Value(c, text[i].name)>>
       ELSE IF Applies(i) /\ text[i].kind = "text" THEN <<text[i]>> ELSE <<>>])

Visible(page) == Without(page, {"nl"})

\* A finished page that is made from a template each marker of which ends its line:
\* "@if-" begins a match for any that follows on the same line.
Templated(c) ==
  /\ conn[c].pc = "done"
  /\ conn[c].kind \in {"default", "show-status"} \cap DOMAIN directory
  /\ LET text == TextOf(conn[c].kind)
     IN \A i \in DOMAIN text :
          IsMarker(text[i]) => i + 1 \in DOMAIN text /\ text[i + 1].kind = "nl"

\* The page says what the first n tokens of its template mean, and if they are all
\* of it, nothing else.
SaysFirst(c, n) ==
  LET text == TextOf(conn[c].kind)
      page == Visible(conn[c].page)
  IN /\ IsPrefix(Meaning(c, text, n), page)
     /\ n = Len(text) => Meaning(c, text, n) = page

\* There is an administrator's address and the first n tokens ask for it.
AsksForAdmin(text, n) ==
  /\ settings.admin
  /\ \E i \in 1 .. n : IsMarker(text[i]) /\ text[i].name = "have-adminaddr-info"

\* A page made from a template is what its author meant, with the toggle and the
\* numbers that its task read, however other tasks changed them meanwhile; and a
\* marker without a partner spoils nothing that makes sense in front of it.  It is
\* said up to the first marker that asks for an administrator's address that there
\* is: generate_default_symbols means to keep such a block, and the code drops it.
PageAsWritten ==
  \A c \in Conn : Templated(c) =>
    LET text == TextOf(conn[c].kind)
    IN \A n \in 0 .. Len(text) :
         MakesSense(text, n) /\ ~ AsksForAdmin(text, n) => SaysFirst(c, n)
=============================================================================
