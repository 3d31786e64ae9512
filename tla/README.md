# TLA+ models of privoxy-rust

privoxy-rust is a filtering HTTP proxy: it accepts connections, decides whether
to serve them, reads one request from each, finds the action rule for its URL,
blocks, redirects or forwards the request (directly, through an HTTP parent or
a SOCKS gateway), and relays the response, rewriting its body when a rule asks
for it.  The configuration and the rules are files that may change while it
runs.  This directory models the parts where ordering, failure and concurrency
matter, checks them with TLC on small instances and proves the safety
properties with TLAPS for every value of the constants.

Paths below are relative to the repository's crate: `connection.rs` is
`src/src/connection.rs`.

## 1. The system's parts

| part | source | state | operations |
|---|---|---|---|
| accept loops | server.rs 66-177 | one task per listen address; the connection in hand | accept, reload the configuration, check the limit, check the access list, spawn a task |
| connection task | server.rs 179-205 | its client id | register, count, run the handler, remove |
| client registry, statistics, toggle | state.rs | `next_id`, `clients`, `requests_received`, `global_toggle` | create_client, remove_client, client_count, toggle |
| request path | connection.rs 57-476, 854-862 | read buffer, action, forward spec, sockets | read_request, handle_connect, handle_http_request, find_forward_spec, connect_to_target, build_request_bytes, run_tunnel |
| response path | connection.rs 478-852 | read buffer, response head and body, what was written | forward_response, read_full_body, read_chunked_body, apply_content_filters, forward_remaining |
| decompression | compression.rs | none | decompress |
| configuration reload | config.rs 58-78, 383-495, 793-835 | `config_file`, `file_modifications` and the contents loaded | needs_reload, reload_if_changed, load |
| configuration parsing, ACL | config.rs | none | parse, parse_forward_spec, is_access_allowed, matches_pattern |
| actions-file loader | loaders.rs | `FileList` | ActionsFile::load, parse_action_string, parse_forward_directive |
| action lookup and application | action.rs | none | find_action_for_url, url_matches_pattern, taggers, header and body filters |
| content filters | filter.rs, action.rs 322-531 | filters with their compiled jobs | parse_filter_file, taggers, rewriting of a body |
| GIF deanimation | deanimate.rs | none | gif_deanimate |
| HTTP messages | http.rs | none | parse and build of requests and responses |
| CGI pages | cgi.rs | none of its own; a template while it is rendered | is_cgi_request, handle_cgi_request, the page generators, load_template, render_template |
| actions editor | cgiedit.rs, cgi.rs 1343-1792 | an editable copy of an actions file | read_file, edits, write_file |
| client tags | client_tags.rs, cgi.rs 2111-2340 | tags per client address with expiry | enable, disable, has, get, cleanup |
| tray icon, log window | tray_icon.rs | icon, menu, countdown of the animation, last counter seen, window handles, text area | run (the event loop: ticks, clicks), show_window, setup_log_window, Clear Log, Exit |
| log | logger.rs, errlog.rs | a cache of lines, the log file, two registries filled late | on_event, update_log_file, register_gui_cache |
| Windows service | windows_service.rs | service status | start, stop, shutdown |
| start-up and end | main.rs, build.rs | shutdown channel, threads | arguments, threads, Ctrl-C, three ways to end the process |
| helpers | encode.rs, util.rs, constants.rs, feature.rs, error.rs, errlog.rs, ssl.rs | none | string functions, error values; ssl.rs is not used |

### How they interact

* Every accept loop loads and installs the shared configuration
  (`Arc<RwLock<Config>>`); every handler reads it, each time under a lock of
  its own.  Values read earlier may therefore disagree with values read later
  in one exchange.
* An accept loop reads the number of clients in the registry; the task it
  spawns adds the client later.  The two are not one step.
* A handler calls the CGI dispatcher for internal pages, and the editor pages
  write the actions files that the next accept will load again.
* The tray icon flips `global_toggle`, which a handler reads once, when it looks
  the action up, and a page once, when it is made.  It shows what the accept
  loops count in `requests_received`, and a page reads that counter three times.
* Every thread logs through one cache and one file; the log window copies and
  clears the cache.  The proxy's thread, the event loop and the log window each
  end the process, and are told of each other's end by one channel.
* One function hands the response over to the next: the header loop, the body
  reader and the relay loop each have a buffer, and what one of them has read
  too much must reach the client by way of the others.

### What is hard about it

* Interleaving: several accept loops and many tasks share registry and
  configuration under short locks, and a load that panics ends its loop; three threads share the tray, the log and the
  end of the process.
* Ordering: bytes of one response pass through three loops.
* Partial failure: a response that is cut, malformed, reset or stalled at any
  point; a gateway that fails in the middle of a handshake; a handler that
  panics; a file that does not parse or is away.
* Timeouts and retries: `socket_timeout` around reads and connection attempts,
  `forwarded-connect-retries` around attempts.
* Stale values: contents and modification times of files, the rule of a URL,
  the toggle, the client count.

### What correct means for each part

* Accept loops: each accepted connection gets one decision; ids are unique; the
  registry holds the clients that are served; the counter agrees with them.
* Request path: one answer per request, no connection for a request that is
  stopped, 502 only after the last attempt, one socket and none left over, one
  route for all attempts, a request target in the form its receiver understands.
* Response path: nothing repeated or reordered, nothing lost except where the
  code gives up on the body, a response that was filtered was filtered whole,
  every exchange ends with a client that reads or goes away.
* Reload: what is in force is what the files say once they stop changing, for as
  long as there is a listener that lives and is connected to.
* Configuration: the last line on a setting decides it, lists have all their
  lines, and the access list lets in whom its last matching line permits.
* Rules: a pattern has the actions of its own header, the first rule that covers
  a URL decides, and a file with an error leaves nothing behind.
* Headers: each header gets what the rule says of it, whatever else the rule
  does, and the others come through in their order.
* Filters: a job has the pattern, replacement and flags that its line writes
  between delimiters, belongs to the filter above it, and a body or a header is
  rewritten by the filters its rule names and no others.
* Editor: a request changes the one rule it was made for, or says that it failed.
* Pages: a page is what the author of its template means, with numbers that
  belong together whatever other connections do meanwhile, and counts itself.
* Tray: the icon shows the toggle and the traffic, the check mark the toggle, a
  click opens the log window, and the process ends when it is asked to.
* Log: what the window shows is in the file unless its write failed, and the
  cache holds each thread's latest lines.

## 2. Modules

| module | models | extends |
|---|---|---|
| `Relay` | the response path of one exchange | - |
| `Exchange` | the request path of one connection, up to the server's answer | - |
| `ProxyServer` | accept loops, connection tasks, registry | - |
| `Admission` | what the accept loops promise to each connection | - |
| `ConfigReload` | the loads and installs of the accept loops against edited files | - |
| `ActionsEditor` | the requests to the actions editor and the file they share | - |
| `RuleList` | what the editor does to the rules of a file, one edit at a time | - |
| `UrlMatch` | the two matchers of URL patterns | - |
| `ActionString` | parse_action_string and parse_forward_directive | - |
| `ConfigFile` | the lines of the configuration, and the access list | - |
| `Loading` | the configuration, the actions files and the look-ups of a request | `UrlMatch`, `ActionString`, `ConfigFile` |
| `Headers` | the headers of a request and its response under a rule | `ActionString` |
| `Filters` | filter files, taggers and content filters | - |
| `Templates` | load_template and render_template | - |
| `CgiPages` | the tasks that make pages, and what an author means by a template | `Templates` |
| `Logger` | GuiLogLayer, its registries and the log window's copy | - |
| `Tray` | start-up, the proxy's thread, the event loop, the log window, the end | - |
| `Desktop` | the process: the threads of Tray, each logging through Logger | `Logger`, `Tray` |
| `MCRelay`, `MCExchange`, `MCProxyServer`, `MCActionsEditor`, `MCLoading`, `MCHeaders`, `MCFilters`, `MCCgiPages`, `MCDesktop` | small instances for TLC | the module |
| `RelayProofs`, `ExchangeProofs`, `ServerProofs` (ProxyServer and ConfigReload), `CgiProofs` (CgiPages and ActionsEditor), `DesktopProofs`, `LoadingProofs`, `HeadersProofs`, `FiltersProofs` | theorems | the module |

Definitions commented as "Mistake" are faults a change of the code could bring
in (a lost return, an off-by-one, a missing timeout).  No specification uses
them; each replaces the definition after it to show that a property notices it.

### Relay

The server's answer is a row of numbered units: `head` units of header, then
content, chunk-size lines, the last chunk and what follows it.  `taken` counts
the units read from the socket, `body` is `response.body`, `out` the sequence of
`write_all` calls to the client, a set of units each.  Units keep apart what
the properties tell apart, which is where each read ends, and nothing else.

| action | code |
|---|---|
| `ReadHead`, `HeadEof`, `HeadFails`, `WriteRaw` | the header loop, 484-508: EOF or an unparsable header sends the bytes on as they are; a timeout or a reset ends the handler |
| `ReadBody`, `FullBody`, `BodyFails` | read_full_body and read_chunked_body: a declared length, chunks, or the end of the stream; on an error, which a bad chunk size is whatever has been read behind it, forward_response goes on with what came with the header |
| `Finish` | decompress, taggers and deanimation (no effect on the units), apply_content_filters, and the write at 608 |
| `Relay`, `RelayEnds` | forward_remaining: EOF and timeout end it well, a reset badly |
| `Send`, `ServerEnds`, `ClientGone`, `Reload` | the peers and other connections |

The rule is looked up twice, when the request came in (`action`) and in
apply_content_filters (`rule`); `Reload` may come in between, and the toggle is
looked at only the first time.  `filtered` is what the filters were given.

`Reads` are the steps that await the server, under `socket_timeout`; `Writes` are
those that await the client in write_all, which have no timeout in the code.

Assumed of the library: decompress gives nothing of a gzip stream that is not
whole, and may give the start of a deflate stream (`Decodes`).

### Exchange

`pc` follows handle: request, then a CGI page, or `connect`/`http`, `decide`,
`route`, the attempts (`dial`, `redial`, `handshake`), `connected`, and the
response or the tunnel.  A forward spec is its type and whether it names a
gateway and a further proxy.  With a SOCKS5 gateway connect_to_target opens a
TCP connection that it does not use and a second one inside Socks5Stream, hence
`redial` and the count `sockets`.  The timeout at 226 is around the whole
attempt, so an attempt fails at each of its steps (`AttemptFails`); after the last
failure `BadGateway` answers 502.  `Reply` is a `write_all` to the client, which fails when
the client has reset.  `form` is the form of the request target that
build_request_bytes writes: the URL of a request that was already an absolute
URL gets scheme and host put in front once more (`doubled`).

`ResponseEnds` stands for forward_response, which `Relay` models by itself: it
starts with the request sent and one socket open, the state `pc = "response"`.
The steps are `Timed` (they wait for nothing, or under a timeout), `Writes` (they
wait in write_all) or `Relaying` (a tunnel or a response, which last as long as
their ends like).

### ProxyServer and Admission

A loop steps through `accept`, `reload`, `count`, `limit`, `access`; a
connection's `phase` says how far it has come.  The steps are the code's lock
scopes: the count is read (135), then the limit (136), then the access list
(147), each under a lock of its own, and create_client takes the id with
`fetch_add` before it waits for the map.  A handler that panics
(`HandlePanics`) ends its task without remove_client.  A reload that panics, on
an actions file that `Loading` shows to do so (`LoadPanics`), ends the loop
itself: the connection that caused it is dropped, the listener is closed, and the
read lock is given back (parking_lot does not poison).  When every loop has died
`run` returns and the process ends with the connections it still serves
(`RunEnds`; server.rs 107-115, main.rs 237).  `Admission` knows only what a client
sees: waiting, then dropped, refused, denied or open, then closed or dead.

### ConfigReload

A loop's load under the read lock: the check, the test that the file exists,
reading the config file, loading the actions file it names, and the
modification times recorded for each, in the order of the code, which reads the
config and the actions file before it asks for their times and the filter file
after.  `Install` takes the write lock and waits for the loops that are reading.
A file's contents are named by its modification time; the edits may come
between any two steps, break a file, make an actions file one whose reading
panics (`fatal`; `LoadDies` ends the loop that reads it), or take the config or
the filter file away for a while, which `FindFilter` and `StatFilter`, two calls
in the code, may see apart.

Assumed: the proxy runs in its configuration directory (the code opens an
actions file by its name as written and resolves it only for the time), and two
edits never leave the same modification time.

### ActionsEditor and RuleList

Two requests of the running proxy reach the editor: `/eas`
(handle_edit_actions_for_url_submit) and `/edit-actions-submit`.  Each reads and
parses the whole file into its own copy, edits a line of the copy by its number,
and writes the copy back; no lock is held and nothing is compared with the file.

| action | code |
|---|---|
| `Ask` | the administrator follows a link of a page: what the page offers for the lines the file has then; by the time the request is handled they may be others |
| `ReadFile`, `ReadFails` | cgiedit.rs 121-348: read_file and parse; a URL pattern before the first header does not parse |
| `AddUrl`, `EditUrl`, `AddSection`, `RemoveLine`, `SwapLines` | the branches of /eas; removing a pattern and removing a section are one operation, delete_line |
| `Submit` | /edit-actions-submit: sets a line's actions, which write_file uses in a header only |
| `EditFails` | an empty pattern to add, or a line that is not there |
| `SaveUnless`, `Save` | cgi.rs 1683: no saving when the page's message has "Failed", "Unknown" or "Invalid" in it, and the message quotes the edit's text (`Words`); write_file empties the file and writes the lines, and an error may stop it after any of them |

`RuleList` sees the rules as ActionsFile::load does, which goes through the lines
once (`Outline`, a `Read` for each line): sections with their patterns, and the
patterns before the first header, which no rule comes from (`stray`).  What
write_file writes is put together line by line as well (`Whole`).  `Save` is
one edit to the rules the request read, if its page was up to date (`fresh`).
Line numbers count blank lines and comments and the rules do not, so the
refinement says that the two ways of counting never come apart: the numbers the
pages give out are the numbers the edits use, although saving turns comments
into blank lines and an emptied pattern into two.

What it does not promise, because the code does not: a second save undoes the
first (pages carry a version that no request looks at), a page that is out of
date may hit any line, a section that goes leaves its patterns to the one
before it (`RemoveHeader`; removing the first makes the file one that the editor
refuses to parse), and swapping two sections swaps their headers only.

Abstracted: text within a line, comments at its end, continued lines; a failing
write ends between two lines; two writes do not mix.

### ConfigFile, ActionString, UrlMatch and Loading

A file is read as it is chosen: each step brings the next line, header, action
or pattern, so that every short file is some behaviour's file.

| action | code |
|---|---|
| `ReadLine`, `RejectConfig`, `EndOfConfig` | Config::parse: a line sets a field, adds to a list or is passed over; a value that does not parse rejects the configuration |
| `ReadHeader`, `ReadToken`, `ReadPattern` | ActionsFile::load: a line in braces starts with `Action::default()` and runs parse_action_string over its tokens, any other line is a rule with a copy of the current action |
| `RejectFile` | a value that is no number makes parse_action_string fail, and Config::parse goes on with the next file |
| `Panic` | a slice that begins behind its end, loaders.rs 305 and 415 |
| `EndOfFile` | the file's rules are appended to those of the files before it |
| `TurnAway` | the access list of accept_loop |
| `Refuse` | handle_connect refuses a port that `limit-connect` does not list |
| `Ask` | find_action_for_url and find_forward_spec, as handle_connect and handle_http_request call them |

A configuration is the value of each field that has one (`value`), the entries
of the fields that are lists (`listed`), the log levels and the addresses to
listen on.  `connection-timeout`, `log-file` and `log-level` are second names of
other directives.  The actions files are read in the order of their lines, so
these lines are not among `Lines`: `MaxFiles` says how many there are.

An action is its flags (`on`), its options (`value`) and its lists (`listed`).
parse_action_string cuts each argument out at an offset written as a number,
and nine of these offsets are wrong.  `Offset` gives for each name how far it
is from the right one, and a stored argument keeps it (`off`), which is all that
is needed to tell which arguments lost or gained a character, which numbers do
not parse (`+delay-response{7}` rejects its file), and which arguments panic
(`+set-image-blocker{}`).  What the panic does to the accept loop that loads the
file is in `ProxyServer` and `ConfigReload`.

`UrlMatch` has both matchers of the code.  url_matches_pattern (action.rs) takes
a host with a path, lets the host go on beyond a dot at either end of the
pattern, and matches label by label; matches_host_pattern (config.rs) takes a
host, refuses patterns with a path, and lets a star run across dots.
parse_url_components gets the host and the request target in one string:
with a target in absolute form the host it finds is `example.comhttp:`.

Abstracted: what a word of the configuration means as a boolean, a number, an
address or a network is given by constants, and a network by its bits and mask;
a directive that the code does not know, or without a word after it, changes
nothing; text is in lower case (matches_host_pattern is case sensitive,
url_matches_pattern is not); an argument is a sequence of words, whose meaning
as number, port range or proxy is given by constants; whether a path matches a
regular expression is the constant `Regex`; a pattern without labels is `.`, `/`
or empty; find_action_for_url's `None` and a default action are one, `NoAction`,
which act alike.  `LoadingAssumption` says of the constants only that each is of
its kind: patterns are sequences of labels of characters, tokens are a sign, a
name and a sequence of words, addresses are bits, and a line that forwards names
a pattern first, which is what the code takes its word for.  Not modelled: a `?`
in a pattern with a star in
matches_host_pattern, and the overflow of a `buffer-limit` times 1024.

### Headers

A rule's action is made by `ActionString`; a request then has its headers
rewritten on the way to the server (`Forward`) and the answer's on the way back
(`Answer`), unless the handler stops it (`Stop`).  The functions have the
names of action.rs, in the order in which apply_client_header_actions,
apply_server_header_actions and apply_action_to_response call them.  A header
may come several times: get_header reads the first and set_header leaves one.

An argument that was cut at a wrong offset is never equal to one of the words
the code compares it with, so most of the options concerned never act;
`+hide-content-disposition{block}` sets the header to `lock`.
`+hide-if-modified-since` and `+change-x-forwarded-for` can never act, whatever
their argument (lemma `NeverActs`), and `+crunch-server-header{Server}` looks for a
name with a brace in it; `+overwrite-last-modified{randomize}` and
`{reset-to-request-time}` set the clock's time, and
`+hide-referrer{conditional-block}` removes the header, whatever host it names.
A crunched name is any that contains the argument.  `Now` stands for the clock.

What a rule says is another matter, and is taken from the rule as it is written
(`Says`, `Written`, `Named` read the argument that stands in the braces, not the
one that was cut out): `RuledRequest` and `RuledResponse` give for each header what
should be sent of it.  RequestAsRuled and ResponseAsRuled hold the code to that
and except, by name, the headers whose option has a miscut argument (`Miscut`:
If-Modified-Since, X-Forwarded-For, Content-Disposition) and those that a miscut
argument of crunch-server-header names.  HeadersAsWritten makes no such exception,
and the code breaks it (section 3).

Abstracted: a value is words; which of a cookie's words hold `secure` or
`httponly`, and which name a lifetime, are constants; a header name is compared
without regard to case.  `HeadersAssumption` says that sections are sequences of
tokens and messages sequences of headers.  Header filters do not occur, since
parse_action_string knows no action that names one.  The redirect of
set-image-blocker is left out: it asks for a rule that blocks, and of such a
request nothing is forwarded.

### Filters

| action | code |
|---|---|
| `ReadLine` | read_lines joins lines that end in a backslash; process_line cuts the comment; parse_filter_lines starts a filter at a header and adds a job to the filter at hand at any other line |
| `EndOfFile` | the last joined line and the last filter; Config::load reads the next file, where no filter is at hand |
| `Ask` | apply_client_header_taggers, for the headers the server is sent |
| `Answer` | apply_server_header_taggers, then apply_content_filters for a body that is text |

Lines are kept character by character here, because the cutting of lines is what
the properties are about: a backslash counts in the continuation, before `#`,
before a delimiter and before `n`, `t` and `r`, in four passes of which each sees
what the one before has left.  A regular expression stands for one text, and
`Literal` is defined on those that compile; the flags `i`, `m`, `s`, `x` and
`U` are left out, and `$` in a replacement is only modelled with the names of the
variables.  `$listen-address` is left out as well: its value never changes, and a
regular expression takes `$listen` for the name.

What the code folds over, character by character and line by line, the
properties say by sets of places: `Bare` are the places no backslash protects,
`LineAt` and `Contents` the lines between the ends that are not continued,
`JobsOf` the lines between one header and the next, `Occurrences` the matches of
a pattern from left to right, none of which overlaps the one before.

As the code does: a replacement may lack its closing delimiter; a job whose
pattern is not terminated or does not compile is skipped; jobs under the header
of an external filter, a type that the default features leave out, go to the
filter before it; a job without `D` replaces `$host` by nothing, together with
the word characters after it; a tag is an input line that changed and did not
vanish.

### Templates and CgiPages

A template is a sequence of tokens: text, `@name@`, the markers of conditions
(`then`, `else`, `endif`) and of blocks (`start`, `end`), and the ends of lines.
The rendering goes over it as the code does, in loops that each look for the
leftmost match: conditions first, then blocks, then the symbols, then what is
left of the markers is cleaned away.  Nesting works because an inner condition
is found after the outer one has been replaced by a branch.

| action | code |
|---|---|
| `Register` | handle_connection counts the request before it reads it |
| `Proxied`, `StaticPage`, `BeginPage` | is_cgi_request and the routes of handle_cgi_request |
| `HardcodedPage` | the page without a template: the one built into the program |
| `ReadToggle`, `ReadCommonCount` | create_common_symbols: two locks, one after the other |
| `ReadShownCount`, `RenderPage` | generate_status_page and generate_main_page read the counter twice more, for the number and for the block |
| `Toggle` | the tray icon |

PageAsWritten holds a page against what its author meant, which is said of the
places in the text and not of passes over it: a token is on the page if it stands
in the branch that applies of every condition and block around it (`Meaning`), a
symbol with its value, the lines of an included file (whose own includes count
as comments, cgi.rs:381) in the place of the include.  A text makes sense if its
markers pair up and what is opened last is closed first (`MakesSense`); if only
its beginning does, the page begins with what that means: a marker whose partner
is missing spoils nothing in front of it.  Each marker is taken to end its line,
because `@if-` begins a match with any marker that follows on the same line
(cgi.rs:459).  A condition holds if its name has a value, and the one about the
administrator's address if there is an address, which is what cgi.rs:335 says of
it.  The code drops such a block in any case (section 3): PageAsWritten speaks of a
text up to the first marker that asks for an address that there is.

Abstracted: of the symbols, the ones that change while pages are made, and one
that has no value (`have-adminaddr-info`); of the pages, which one it is, unless
it comes from a template; a name is one token, so that it never ends inside
another.

### Logger, Tray and Desktop

This is the build with the tray icon, on Windows; the other one runs the proxy on
the main thread and has none of it.  `main`, `server` and `ui` say where the three
threads are.  A thread may log a line between any two of its steps, and does
nothing else until it has pushed it to the cache and written it to the file.

| action | code |
|---|---|
| `LoadConfig`, `OpenLogFile`, `LogFileFails`, `StartProxy` | main 139-218, each with the error that ends the process |
| `NewApp`, `LoadIcons`, `ReadCounter`, `StartLoop`, `ReturnError` | TrayIconApp::new and run up to the first event; the app is dropped, and the channel with it, when it fails |
| `Bind`, `Connection`, `LoopsEnd`, `StopProxy`, `ExitProcess` | the proxy's thread: run, which ends with an error or when every accept loop has died, its select, and process::exit(0) whatever ended it |
| `ArmSignal`, `CtrlC` | setup_shutdown_handler: until its task runs, Ctrl-C kills the process |
| `Tick` | every 100 ms: new requests set the countdown, which is counted and shown in the same tick |
| `SetIcon` | update_tray_icon: that set_icon fails is ignored, and leaves the icon as it is (`outcome`) |
| `ToggleTaken`, `UpdateIcon`, `ShowAgain`, `ShowFirst`, `ReceiveHandles`, `ExitTaken`, `ExitFromMenu` | the menu's events; the icon's clicks come through a channel of their own, hence `Taken` |
| `StartUI`, `OpenWindow`, `FillWindow`, `CloseWindow`, `ClickClear`, `Cleared`, `ClickExit`, `ExitFromWindow` | the UI thread; it sends its handles before it makes the window |
| `Find`, `Push`, `Write` | on_event: the registries, the cache under its lock, the file under its lock; a write that fails is ignored (`lost` notes the line, which the code does not) |
| `RegisterFile`, `RegisterCache`, `FillText`, `ClearCache`, `ClearText` | the registries filled late, and the window |

Left out: the about window, the items that open a file or a page, the frames
of the animation, a failure of the event loop itself once it runs, and the update
of an open log window, which waits for LOG_WINDOW_VISIBLE, a flag nothing sets.
The two registries are read one after the other by a thread that logs; the file's
is filled before other threads exist and the cache's after, so that one step
(`Find`) gives the same choices.

## 3. Runs

Passing runs:

| run | instance | shows |
|---|---|---|
| `relay` | nine answers: length, chunked and to-EOF framing, plain, gzip and deflate, cut, with a bad chunk size alone or in front of the last chunk, with a header that does not parse; reads of 1 to 3 units; four kinds of rule | InOrder, PassThroughExact, LossOnlyAfterFailedFetch, FetchedBodyFilteredWhole, CutOffOnlyByReset, ExchangeEnds |
| `exchange` | a CGI page, a CONNECT, two HTTP requests and a malformed one; five routes; at most one retry; reads of 1 or 2 units | OneVerdict, StoppedNotDialled, BadGatewayIsFinal, OneSocketInUse, SameRouteOnRetry, RequestIsHandled |
| `server` | two loops, three connections, limits 1 and 2, an access list that denies one peer or none, reloads that panic | NoGhosts, AcceptedIsAnswered, and that ProxyServer implements Admission (KeepsPromise) |
| `reload` | two loops, two edits; every file may break, the actions file may be one that panics, the config and the filter file may be away | FilterEditNoticed, FilterCatchesUp |
| `loading` | five lines, headers, actions and patterns between a configuration and two actions files, out of eight lines (a setting under two names, one that does not parse, addresses, an access list over networks, a forward line), twelve actions and six patterns (a dot, a domain, a star with an open end, a host, a host with a path, a regular expression); three clients; five requests: a domain itself, a host, a host deeper in it, a URL in full, a CONNECT | SettingsAsWritten, AccessAsWritten, RulesAsWritten, FirstRuleDecides, RoutesFollowRules |
| `headers` | up to three of 24 actions, two requests and two answers, with names that come twice, contain one another or are missing | RequestAsRuled, ResponseAsRuled |
| `filters` | four lines between two files, out of eleven: headers of three types and an unknown one, jobs with escaped delimiters, escaped backslashes before `#`, a continuation, `#` as delimiter, an unbalanced bracket, dynamic and trivial ones; two rules, two URLs, two answers | FiltersAsWritten, RewrittenAsRuled |
| `editor` | two sessions, two requests of every kind, two files of three and five lines with a comment, two action strings, two patterns of which one contains a word of failure | that ActionsEditor implements RuleList (KeepsPromise) |
| `pages` | two connections and six requests; templates with every nesting of conditions and blocks over two pairs of names, that include a file which includes another, that include one that is missing, or that break off; the page for `/status` from its template, the one for `/` from a template or the program | PageCountsItself, PageAsWritten |
| `desktop` | all three threads, of which the proxy's logs a line; a cache of one line; a connection; three clicks on icon, menu or window; all icons or only the default one; a countdown of two | ShownIsLogged, IconTellsState, MenuTellsState, EndsWhenAsked, ActivityNoticed, ClickShowsWindow |

`relay`, `exchange` and `desktop` also check the module's `TypeOK`.  For
`server`, `reload` and `pages` it is proved, and for `loading` the invariant
`Typed` of LoadingProofs stands in its place.  In `headers`, `filters` and
`editor` the properties say of each variable which value it has, its type
included.

Why the bounds are enough.  In `relay` an answer is longer than a read, reads
end before, at and after every boundary (header, chunk-size line, last chunk),
and a read may cross two of them.  In `exchange` one retry has an attempt that
is the last and one that is not, and every route of connect_to_target differs
from the others in the steps taken.  In `server` two loops can decide at once
while a third connection is being served, registered or removed.  In `reload`
two loops load at once and two edits fall before, between and after their
steps, and one loop may die while the other goes on.  In `loading` five steps are enough for a header of two actions and a
pattern behind a line of the configuration, or two sections in one file or
behind one that was rejected, or three lines that speak of one setting or one
address; each kind of setting (flag, option, list, number) is set and cleared,
and the actions have an offset that is right, one before and one after.  In
`headers` three actions are enough for two that touch one header with a third
between them in the pipeline.  In `filters` four lines are enough for two headers
with a job each, for two jobs that follow on each other under one header, and
for a file that begins with a job or ends in a continued line.
In `editor` the second request reads before, between and after the steps
of the first, and its page is from before or after them; the files have a
comment before a header, a section with no pattern and one with.  In `pages` each
of the three reads of one task may fall before, between and after the other
connection's count, and a template has one condition or block in another, in
each of its branches.  In `desktop` three
clicks are enough to show, close and show the window again, to toggle while it
is being made, or to exit behind another click; the connection comes before the
app reads the counter or behind it, with the toggle switched meanwhile; and any of the three threads may be the one that
ends the process while the others are anywhere.  Several lines of several
threads meet in the cache, and several connections in one countdown, only in the
proofs, which are for any number.  The safety
properties are proved without these bounds, PageAsWritten for templates of any
lines, and so is the editor's refinement.

Runs that show a disagreement between the code and what it says of itself (each
checks one property, which TLC violates):

| run | property | disagreement |
|---|---|---|
| `exchange_body` | BodyForwarded | connection.rs:470: only the part of a request body that came with the headers is forwarded |
| `headers_written` | HeadersAsWritten | README.md:7 claims the compatibility with action files; loaders.rs:400: `+change-x-forwarded-for{add}` adds nothing (TLC may show the same of hide-if-modified-since, 419) |

More are visible in the models and have no run:

* "The request line contains the full URL" (connection.rs:866) of a request sent
  through a proxy, and the rules for its host and path do not apply to it: the
  action is looked up for the host followed by the target (connection.rs:364),
  from which parse_url_components gets `example.comhttp:` as the host.
  FirstRuleDecides excepts such a request.
* The date of `+hide-if-modified-since` (loaders.rs:419) stays as it is,
  `+crunch-server-header{Server}` (341) leaves the header, and
  `+hide-content-disposition{block}` (415) sets it to `lock`: the same fault as in
  `headers_written`, and excepted in RequestAsRuled and ResponseAsRuled.
* "If condition is TRUE, keep the block" (cgi.rs:335): a block about the
  administrator's address is dropped with an address and without, since a
  condition without a symbol does not hold (cgi.rs:527).  PageAsWritten ends at its
  marker.
* What a failed fetch of a body had read is dropped and the rest relayed after
  the gap, where the code means to "Continue with whatever we have"
  (connection.rs:537); LossOnlyAfterFailedFetch confines the loss to that.
* Headers support "multiples" (http.rs:229), and a limit on the lifetime of
  cookies leaves one of several Set-Cookie headers (action.rs:948).
* The toggle bypasses filters (server.rs:157), but apply_content_filters does
  not ask it: a response is filtered with the toggle off.
* An HTTP parent is sent scheme and host twice when the request had them
  already (connection.rs:441).
* A CONNECT whose route is an HTTP parent is copied into the parent, which is
  never asked for a tunnel (connection.rs:343; README.md:145).
* A section that the editor removes ("Action section removed successfully",
  cgi.rs:1665) leaves its patterns, which get the actions of the section before.
* An edit of the config or actions file between its reading and its stat stays
  unnoticed until the next edit (config.rs:451).
* A reload between the two look-ups of the rule runs filters on the first part
  of a body that is then relayed unfiltered (connection.rs:636).
* A rule whose pattern has a path, or a domain with its end left open, never
  routes (config.rs:958); the first rule for a URL decides alone, where
  README.md:116 claims the compatibility with Privoxy, which merges all of them.
* Two connections pass the check of the client limit before either is registered
  (server.rs:135, "Check if we have too many connections").
* A config file that is away during one load leaves the defaults in force for
  good: they have no file on record that could change (config.rs:386).
* `+limit-connect{443}` is stored as `t{443` (loaders.rs:378), so that the first
  port of the list is never allowed, where a test expects it to be
  (action.rs:1159).
* Content filters change the length of a body whose Content-Length is already
  set (connection.rs:606).
* FilterVariables' path begins with two slashes (connection.rs:641); the name of
  a variable that a URL contains is replaced in its turn, or taken out by the
  regular expression (filter.rs:150); `\\n` in a replacement is a backslash and
  a line feed (filter.rs:903).
* gif_deanimate copies out of its empty output buffer, fails and returns None
  (deanimate.rs:182): no image is ever changed.
* A panic while an actions file is read (loaders.rs 305, 415) ends the accept
  loop that reads it for good (server.rs:107: "they shouldn't unless there's an
  error"); of several listen addresses that one is served no more.
* A line whose write to the log file fails, and an icon that cannot be set, are
  lost without a word (logger.rs:174, tray_icon.rs:430).
* `@if-n-start@` is read as a block of the name `n-` (cgi.rs:511), and an
  `@if-nstart@` whose end is missing stays in the page (cgi.rs:423).
* Pages are made from the configuration of the start (server.rs:53), and the
  toggle page says "enabled" whatever the toggle is (cgi.rs:2359).
* The log window shows the lines of the moment it was made: it is not updated,
  since nothing sets LOG_WINDOW_VISIBLE (logger.rs:32, 75).
* In tray mode a proxy that cannot bind ends the process with 0 (main.rs:237); a
  tray that cannot be made ends it with 1 from main or 0 from the proxy's thread,
  whichever is first (main.rs:251).

Deadlock is not checked: a handler, an exchange and an instance with a fixed
number of connections or edits stop when they are finished, as the code does.

### Fairness

* `Relay`, `Exchange`: weak fairness of the steps that wait for nothing or under a
  timeout (`Reads`, `Timed`).  tokio polls a task whose socket is ready or whose
  timer has run out, and every read that is modelled as idling is under a timeout
  in the code.  No write is (connection.rs:505, 608, 746): a client that neither
  reads nor goes away holds the exchange.  ExchangeEnds and RequestIsHandled
  therefore take it as their hypothesis that writes get through in the end
  (`WF_vars(Writes)`), in the formula and not in the specification.  RequestIsHandled
  goes no further than a response or a tunnel, which last as long as their ends
  like; how a response ends is ExchangeEnds.  Nothing is assumed of the server.
* `ProxyServer`: weak fairness of each loop (but not of `Accept`: no client has
  to come) and of each task's steps, but not of the handler's return.  A refusal
  is written to an empty send buffer, where its few bytes do not wait for the
  client.  AcceptedIsAnswered excepts the connection whose loop died in the reload
  it caused, and the end of the process.
* `ConfigReload`: weak fairness of each load once it has begun and strong fairness
  of `Install`: parking_lot lets a waiting writer in before new readers.  `Check`
  is not fair, since it takes a connection to make a loop look.  FilterCatchesUp
  takes as its hypothesis that one listener outlives every load and looks again
  whenever there is something to load (`Visited`), that the config file in the
  end parses, and that config and filter file are never away, since the code never
  comes back from either.  Nothing else is assumed of the administrator.
* `Desktop`: weak fairness of each thread, of the steps that continue what it has
  begun; the operating system schedules them, and the locks they take are held
  for one step.  The event loop gets to its clicks and to its ticks, each with a
  fairness of its own: it polls the menu's and the icon's channel after every
  event and wakes every 100 ms.  No fairness of users, connections, Ctrl-C, or of
  the lines that are logged, nor of `LoopsEnd`.  `Bind` may fail, and the UI may not start; a thread
  that waits for the UI is woken by its end as well.

## 4. Proofs

TLAPS proves, from the assumptions each module states about its constants
(`RelayAssumption`, `ExchangeAssumption`, `ServerAssumption`,
`ReloadAssumption`, `LogAssumption`, `TrayAssumption`, `LoadingAssumption`,
`HeadersAssumption`, `FiltersAssumption`, `EditorAssumption`, and
`PagesAssumption`: that a template is a sequence of lines)
and for every value that satisfies them:

* `RelayProofs`: TypeOK, InOrder, LossOnlyAfterFailedFetch, PassThroughExact,
  CutOffOnlyByReset, FetchedBodyFilteredWhole.  The invariant
  is TypeOK, `Stages` (what `body`, `fetch`, `hdr` and `out` are at each `pc`:
  before the first write the body is what came with the header, or all the
  content read once the fetch has succeeded) and `Promises` (every write lies
  below `taken`; what was delivered is the header, the body and everything
  after).  InOrder alone is not inductive: that the next unit is above all
  written ones needs `taken` as a bound for them.  `Whole` is what
  FetchedBodyFilteredWhole needs: once a fetch has succeeded no content is still
  to come (`Complete`), because the last chunk or the announced length was read
  or the server has closed with nothing left.
* `ExchangeProofs`: TypeOK, OneVerdict, StoppedNotDialled, BadGatewayIsFinal,
  OneSocketInUse, OriginGetsPath, SameRouteOnRetry.  The invariant adds
  `Places`, which tells what is open and counted at each `pc`, and `Verdicts`,
  which ties each verdict to the states it can be followed by.
* `ServerProofs`, of the accept loops: TypeOK, UniqueIds, NoGhosts, OneLoopPerConnection,
  RequestsCounted, and `Refines`: Spec => KeepsPromise.  The invariant adds that
  the ids given are below `next_id`, without which two tasks could share one,
  and that a loop past `accept` that has not died holds a connection.  Every step of a loop or
  task maps to a step of Admission or to a stutter under `outcome == [c \in
  Conns |-> Observed(phase[c])]`, the
  end of the process to `Halt`.
* `ServerProofs`, of the loads: TypeOK, FilterEditNoticed.  The
  invariant says of every Config, installed or in the making, that its recorded
  times are not in the future (`SoundTimes`), and of the filter file that
  contents on record are those of the recorded time or the file has changed
  since, which holds because the time is taken first.
* `CgiProofs`, of the pages: TypeOK, PageCountsItself, PageAsWritten.  The
  invariant adds `Sound`: what a task has read of the counter lies between 1 and
  the counter, in the order of the reads.  PageAsWritten needs `PageMade` beside
  it: a page that is done was rendered from the template that is there, with the
  symbols of what its task read.  `ToldIsMeant` compares what the symbols say with
  what the author means, where no address is asked for.  The rest is about the rendering, for any text
  and any symbols.  The loops over a text are folds, and each is a number of
  turns (`Turned`) that shorten the text or leave it, so that it ends on a text no
  turn changes.  A text that makes sense is empty, or begins with a plain token,
  a condition or a block, with such texts in its branches and behind it (`Sense`,
  `Fork`); by induction on its length the loops leave of it what the branches that
  apply leave, whatever stands behind it (`Leaves`), and that is what its places
  mean (`Says`, `GatherBranch`, `GatherRest`).  The clean-up takes nothing that was
  left (`RenderedAsMeant`), the symbols give each name the value that `Value` says
  (`SymbolsRead`, and `Found` for conditions), and loading gives the lines that `LinesOf` says (`Loaded`).
* `CgiProofs`, of the editor: `EditorRefines`: EditorSpec => KeepsPromise, for
  any sessions, files and texts.  Outlines can be joined as files can
  (`OutlineConcat`): what strays at the front of the second file belongs to the
  last section of the first (`Join`, `Grown`).  A file is cut in front of a line
  and behind it (`CutAt`), so that what an edit of that line does to the rules is
  read off three parts, one lemma for each operation (`AddsUrl`, `AddsSection`,
  `EditsUrl`, `RemovesHeader`, `ChangesActions`, `SwapsHeaders`); `WholeOutline` and
  `WholeGap` say that saving changes no rule, and that an emptied pattern is none.
  `SameOffers` says that a page's line numbers hold good in the copy if the two
  files are written alike.  The invariant `EditorInv` remembers from `Ask` that the
  request's lines are what its page offered, and from `ReadFile` that no pattern
  of the copy comes before its first header: without the second, removing a
  header could leave a pattern to no section while there is one.  `MayWrite` is
  what every operation shows of the lines it saves, and every step maps to the
  step of RuleList in whose comment it is, or to a stutter.
* `DesktopProofs`: TypeOK, ShownIsLogged, CacheHoldsLatest, IconTellsState,
  MenuTellsState, for any set of threads.  `Registered` says that a thread which
  has found the cache has found the file, because main registers the file before
  it starts any other thread, and the cache after; a line that was found a file
  and pushed is then written or lost.  `Lines` says that a line in
  the cache is the latest its thread has pushed or is followed by the next one,
  and that the latest is there.  CacheHoldsLatest by itself is not inductive: it
  says nothing of the line that is cut off at the front, nor of a thread that is
  about to push.  `Early` says that nobody toggles the proxy before the event
  loop runs, so that its first icon is right.  MenuTellsState rests on lemmas
  that count the clicks on "Enable" in a queue, of which one is added at the end
  or taken out anywhere, and on there being no click before there is an icon.

* `LoadingProofs`: `Typed`, SettingsAsWritten, RulesAsWritten, AccessAsWritten,
  FirstRuleDecides, RoutesFollowRules.  SettingsAsWritten is inductive by itself,
  once it is known what one more line does to the lines that speak of a setting.
  `RulesInv` adds to RulesAsWritten the file in the making: the rules collected
  are those of its sections, and the current action means what the tokens of the
  last header mean (`Meant` is decided by the last token on each setting).
  `AnswerInv` says that the access list, the rules and the routes were asked once,
  after all was read.  `SimplematchDenotes` says that simplematch finds a way
  to cut the text into the pieces of a pattern exactly if there is one, which
  FirstRuleDecides and RoutesFollowRules take as what a pattern covers.
* `HeadersProofs`: RequestAsRuled, ResponseAsRuled.  The invariant `Rewritten`
  says that what is sent on is what the functions make of what came in, and that
  the action is one parse_action_string can make: an option's argument lost or
  gained as many characters as its name says, which decides which options can
  act, and which headers the properties except (`NamedMiscut`).  The rest follows the pipeline: of each function, which header it replaces,
  and that it leaves the values and the order of all others (`Drop`), so that the
  last function that touches a name decides what is sent of it.
* `FiltersProofs`: FiltersAsWritten, RewrittenAsRuled, for any lines, rules and
  answers.  Each fold of the code is unrolled to one step per character or line
  (`FoldComes`), and each pass is then compared with the set that says the same
  at once: whether a character is protected is the parity of the backslashes in
  front of it (`ScanIs`), a replacement takes the leftmost match and goes on
  behind it, so that the occurrences are one set and no other (`ReplacedIs`), and
  the variables of a dynamic filter are put in one after the other and come out
  as if at once, because no value holds the name of another (`SubstitutedIs`).
  The invariant `FilesRead` says that the lines read so far, joined, are the
  contents up to the line at hand (`ClosedAppend`, `GroupedIs`) and that the
  filters finished and the one at hand are those of these contents
  (`JobsByConcat`); `Exchanged` says of what is sent that it is what the taggers
  and filters make of what was asked and answered.

The library's induction theorems take an operator, which no installed prover can
instantiate.  What is recursive is proved by induction on sets instead:
`Induction` is about a set of numbers with 0 and every successor (the library's
well-founded order gives its least element), `SeqInduction` about a set of
sequences with the empty one and all that are longer by one.  A recursive
function or a fold of the community modules is related to a function that takes
each step (`StepsExist`, `TotalIs`), and what it computes is then shown of a set.

UniqueIds, OneLoopPerConnection, RequestsCounted, OriginGetsPath and
CacheHoldsLatest are proved and have no run of their own.

Model-checked only: the liveness properties (ExchangeEnds, RequestIsHandled, AcceptedIsAnswered,
FilterCatchesUp, EndsWhenAsked, ActivityNoticed, ClickShowsWindow), which ask for
fairness and ENABLED, and the violations.

## 5. Not modelled

* HTTP parsing: its results are inputs of Relay and Exchange.
* In Relay and Exchange, what headers, bodies and filters contain: Headers and
  Filters model it for one exchange, without the sockets.
* Regular expressions beyond the text they stand for, and GIF deanimation.
* Sizes in bytes, so no overflow of chunk sizes (connection.rs:836).
* The editor's settings, description and alias blocks, the action string built
  from the form's fields, and delete-action-line.  That page, the other drawing
  pages and the client tag pages are only reached from start_web_interface,
  which nothing calls.
* Client tags: reached only from the pages of start_web_interface (cgi.rs:2621),
  which nothing calls.  is_cgi_request and handle_cgi_request, which every
  connection goes through, have no route to them.
* The Windows service: nothing calls its dispatcher, although a comment says that
  the program is started by the service manager (main.rs:182).
* Wording and layout of pages, of log lines and of the about window; the menu items
  that open a file or a page; the main function of a build without a tray, whose
  select is the one of the proxy's thread; --config-test.
* `shutdown` (it only logs), `ConnectionPool`, `request_reload`, `filter_response`,
  `ssl.rs`: never called.
* Argument parsing and resource embedding: sequential, no state kept.

## 6. Plan

1. Response path, request path, accept loops, reload, with their proofs: done.
2. `ActionsEditor` and `RuleList`: done.
3. `UrlMatch`, `ActionString`, `ConfigFile` and `Loading`: done.
4. `Headers` and `Filters`: done.
5. `Templates`, `CgiPages`, `Logger`, `Tray` and `Desktop`, with the proofs of their
   safety properties that need no induction over data: done.
6. Compositions: ProxyServer with ConfigReload, whose `Reload` and `LoadPanics`
   become the load; Exchange with Relay under one task.
7. Proofs of `Loading`, `Headers`, `Filters` and the editor's refinement of
   `RuleList`: done.
8. A proof of PageAsWritten: done.
