-------------------------------- MODULE Relay --------------------------------
(* The response half of one HTTP exchange: ConnectionHandler::forward_response *)
(* and the functions it calls (src/src/connection.rs).                         *)
(*                                                                             *)
(* The server's answer is a row of numbered units.  Units 1..head are the      *)
(* header section; the kinds of the units after it are resp.kinds: "data" is   *)
(* body content, and with chunked framing "size" is a chunk-size line, "bad"   *)
(* one that is not a number, "last" the zero-size line and "end" the line      *)
(* after it.  A set of units stands for those bytes in the order they were     *)
(* sent; `out' is the sequence of writes made to the client.                   *)
EXTENDS Integers, Sequences, FiniteSets

CONSTANTS
  Responses,   \* the answers the server may give
  Rules,       \* what the action rule matching the URL may ask for
  ReadMax      \* receive_buffer_size, in units

\* No rule matches, a rule that leaves the body alone, one that only reads the
\* body (taggers, deanimation), one that runs content or body filters on it.
RuleKinds == {"none", "headers", "inspect", "rewrite"}

Response(r) ==
  /\ r.head \in Nat \ {0}
  /\ r.kinds \in Seq({"data", "size", "bad", "last", "end"})
  /\ r.framing \in {"length", "chunked", "eof"}
  /\ r.declared \in Nat
  /\ r.coding \in {"plain", "gzip", "deflate"}
  /\ r.text \in BOOLEAN
  /\ r.parses \in BOOLEAN
  /\ r.framing = "length" => Len(r.kinds) <= r.declared
  /\ r.framing # "chunked" => \A i \in 1 .. Len(r.kinds) : r.kinds[i] = "data"
  /\ \A i, j \in 1 .. Len(r.kinds) :
       r.kinds[i] = "last" /\ i < j => r.kinds[j] = "end"

ASSUME RelayAssumption ==
  /\ \A r \in Responses : Response(r)
  /\ Rules \subseteq RuleKinds
  /\ ReadMax \in Nat \ {0}

VARIABLES
  resp,      \* the answer this server gives
  sent,      \* units of it that have reached the proxy's socket
  server,    \* the server's end of its connection
  client,    \* the client's end of its connection
  rule,      \* what the installed configuration asks for this URL
  enabled,   \* the toggle, as read when the request was handled
  action,    \* the action found then, and used until the end
  pc,        \* where forward_response stands
  taken,     \* units read from the server's socket
  body,      \* response.body
  fetch,     \* outcome of read_full_body: "no" (not called), "ok", "failed"
  hdr,       \* what the response's headers announce
  filtered,  \* the units the content filters were given
  size,      \* length of response.body as written
  out        \* what has been written to the client

serverVars == <<resp, sent, server>>
setting == <<rule, enabled, action>>
message == <<body, fetch, hdr, filtered, size>>
vars == <<serverVars, client, setting, pc, taken, message, out>>

Total(r) == r.head + Len(r.kinds)
Kind(r, u) == IF u <= r.head THEN "head" ELSE r.kinds[u - r.head]
Data(r) == {u \in 1 .. Total(r) : Kind(r, u) = "data"}
Received == {u \in Data(resp) : u <= taken}
Delivered == UNION {out[i] : i \in 1 .. Len(out)}
None == -1

NeedsBody(a) == a \in {"inspect", "rewrite"}

Init ==
  /\ resp \in Responses
  /\ sent = 0 /\ server = "open" /\ client = "open"
  /\ rule \in Rules
  /\ enabled \in BOOLEAN
  /\ action = IF enabled THEN rule ELSE "none"
  /\ pc = "head"
  /\ taken = 0
  /\ body = {} /\ fetch = "no" /\ filtered = {} /\ size = 0
  /\ hdr = [length |-> None, chunked |-> FALSE, coding |-> "none"]
  /\ out = <<>>

-----------------------------------------------------------------------------
\* The two peers and the other connections of the proxy.

Send ==
  /\ server = "open" /\ sent < Total(resp)
  /\ sent' = sent + 1
  /\ UNCHANGED <<resp, server, client, setting, pc, taken, message, out>>

ServerEnds ==
  /\ server = "open"
  /\ server' \in {"eof", "reset"}
  /\ UNCHANGED <<resp, sent, client, setting, pc, taken, message, out>>

ClientGone ==
  /\ client = "open"
  /\ client' = "gone"
  /\ UNCHANGED <<serverVars, setting, pc, taken, message, out>>

\* An accept of another connection installs a new configuration.
Reload ==
  /\ rule' \in Rules \ {rule}
  /\ UNCHANGED <<serverVars, client, enabled, action, pc, taken, message, out>>

-----------------------------------------------------------------------------
\* forward_response: the header section.

Readable(n) == n \in 1 .. ReadMax /\ n <= sent - taken
Drained == sent = taken
Idle == Drained /\ server = "open"    \* a read that reaches socket_timeout

\* HttpResponse::parse succeeds, with these units for a body.
HeadParsed(units) ==
  /\ body' = units
  /\ hdr' = [length |-> IF resp.framing = "length" THEN resp.declared ELSE None,
             chunked |-> resp.framing = "chunked",
             coding |-> resp.coding]
  /\ pc' = IF NeedsBody(action) THEN "body" ELSE "rewrite"

\* Mistakes: what came along with the header is cut one unit late, forgotten, or
\* freed of its chunk framing although the headers still announce it.
ParsedHeadPast(t) == HeadParsed(resp.head + 1 .. t + 1)
ParsedHeadAlone(t) == HeadParsed({})
ParsedHeadUnframed(t) == HeadParsed({u \in Data(resp) : u <= t})

\* The body is what came along with the header.
ParsedHead(t) == HeadParsed(resp.head + 1 .. t)

ReadHead(n) ==
  /\ pc = "head" /\ Readable(n)
  /\ taken' = taken + n
  /\ \/ taken' < resp.head /\ UNCHANGED <<pc, body, hdr>>
     \/ taken' >= resp.head /\ resp.parses /\ ParsedHead(taken')
     \/ taken' >= resp.head /\ ~resp.parses /\ pc' = "raw" /\ UNCHANGED <<body, hdr>>
  /\ UNCHANGED <<serverVars, client, setting, fetch, filtered, size, out>>

HeadEof ==
  /\ pc = "head" /\ Drained /\ server = "eof"
  /\ pc' = "raw"
  /\ UNCHANGED <<serverVars, client, setting, taken, message, out>>

\* Mistake: no timeout around the reads of the header section.
HeadFailsUntimed ==
  /\ pc = "head" /\ server = "reset"
  /\ pc' = "failed"
  /\ UNCHANGED <<serverVars, client, setting, taken, message, out>>

HeadFails ==
  /\ pc = "head" /\ (Idle \/ server = "reset")
  /\ pc' = "failed"
  /\ UNCHANGED <<serverVars, client, setting, taken, message, out>>

\* write_all to the client: an error ends the handler.  No timeout is set on it, so
\* nothing says when the step is taken while the client is there and does not read.
Write(units, next) ==
  IF client = "open"
  THEN out' = Append(out, units) /\ pc' = next
  ELSE pc' = "failed" /\ UNCHANGED out

WriteRaw ==
  /\ pc = "raw"
  /\ Write(1 .. taken, "relay")
  /\ UNCHANGED <<serverVars, client, setting, taken, message>>

-----------------------------------------------------------------------------
\* read_full_body and read_chunked_body.

\* Mistake: one unit short of Content-Length will do.
BodyReadEarly ==
  CASE resp.framing = "chunked" -> \E u \in 1 .. taken : Kind(resp, u) = "last"
    [] resp.framing = "length" -> taken - resp.head >= resp.declared - 1
    [] OTHER -> FALSE

BodyRead ==
  CASE resp.framing = "chunked" -> \E u \in 1 .. taken : Kind(resp, u) = "last"
    [] resp.framing = "length" -> taken - resp.head >= resp.declared
    [] OTHER -> FALSE

BadChunk ==
  /\ resp.framing = "chunked"
  /\ \E u \in 1 .. taken : Kind(resp, u) = "bad"

\* Content is read up to its announced end; a chunk-size line may bring more.
Wanted(n) ==
  CASE resp.framing = "length" -> taken + n <= resp.head + resp.declared
    [] resp.framing = "chunked" /\ Kind(resp, taken + 1) = "data" ->
         \A u \in taken + 1 .. taken + n : Kind(resp, u) = "data"
    [] OTHER -> TRUE

ReadBody(n) ==
  /\ pc = "body" /\ ~BodyRead /\ ~BadChunk
  /\ Readable(n) /\ Wanted(n)
  /\ taken' = taken + n
  /\ UNCHANGED <<serverVars, client, setting, pc, message, out>>

\* Ok(full_body): Transfer-Encoding goes, Content-Length is the body's.
FullBody ==
  /\ pc = "body" /\ ~BadChunk
  /\ \/ BodyRead
     \/ resp.framing # "chunked" /\ Drained /\ server = "eof"
  /\ fetch' = "ok"
  /\ body' = IF resp.framing = "chunked" THEN Received ELSE resp.head + 1 .. taken
  /\ hdr' = [hdr EXCEPT !.chunked = FALSE, !.length = Cardinality(body')]
  /\ pc' = "rewrite"
  /\ UNCHANGED <<serverVars, client, setting, taken, filtered, size, out>>

\* Err: a warning, and on with the body that came along with the header.
BodyFails ==
  /\ pc = "body"
  /\ \/ BadChunk    \* even when the last chunk is in the buffer behind it
     \/ /\ ~BodyRead
        /\ Idle \/ server = "reset" \/ (resp.framing = "chunked" /\ Drained /\ server = "eof")
  /\ fetch' = "failed"
  /\ pc' = "rewrite"
  /\ UNCHANGED <<serverVars, client, setting, taken, body, hdr, filtered, size, out>>

-----------------------------------------------------------------------------
\* The rest of forward_response: decompress, filter, write.

\* Whether decompress succeeds on the body.  A cut gzip stream is an error; the
\* end of a cut deflate stream may look like the end of the data (flate2), and
\* a deflate stream in its zlib wrapper is not understood.
Decodes ==
  IF hdr.coding = "plain" \/ body = {} THEN {FALSE}
  ELSE IF hdr.coding = "deflate" THEN BOOLEAN ELSE {body = Data(resp)}

\* apply_content_filters: looks the URL up again in the installed configuration.
Filters(coding) ==
  body # {} /\ resp.text /\ coding = "plain" /\ rule = "rewrite"

Finish(decoded, edit) ==
  LET h == IF decoded
           THEN [hdr EXCEPT !.coding = "plain", !.length = Cardinality(body)]
           ELSE hdr
  IN /\ pc = "rewrite"
     /\ decoded \in Decodes
     /\ edit \in IF Filters(h.coding) THEN {-1, 0, 1} ELSE {0}
     /\ hdr' = h
     /\ filtered' = IF Filters(h.coding) THEN body ELSE {}
     /\ size' = Cardinality(body) + edit
     /\ Write((1 .. resp.head) \union body, "relay")
     /\ UNCHANGED <<serverVars, client, setting, taken, body, fetch>>

-----------------------------------------------------------------------------
\* forward_remaining.

\* Mistake: the buffer is not cleared between a read and the next.
RelayStale(n) ==
  /\ pc = "relay" /\ Readable(n)
  /\ taken' = taken + n
  /\ Write(taken .. taken + n, "relay")
  /\ UNCHANGED <<serverVars, client, setting, message>>

Relay(n) ==
  /\ pc = "relay" /\ Readable(n)
  /\ taken' = taken + n
  /\ Write(taken + 1 .. taken + n, "relay")
  /\ UNCHANGED <<serverVars, client, setting, message>>

\* Mistake: a timeout while the response is relayed is an error.
RelayEndsStrictly ==
  /\ pc = "relay"
  /\ \/ Drained /\ server = "eof" /\ pc' = "done"
     \/ (Idle \/ server = "reset") /\ pc' = "failed"
  /\ UNCHANGED <<serverVars, client, setting, taken, message, out>>

RelayEnds ==
  /\ pc = "relay"
  /\ \/ Drained /\ server \in {"eof", "open"} /\ pc' = "done"
     \/ server = "reset" /\ pc' = "failed"
  /\ UNCHANGED <<serverVars, client, setting, taken, message, out>>

-----------------------------------------------------------------------------

\* The steps that await the server, under socket_timeout.
Reads ==
  \/ \E n \in 1 .. ReadMax : ReadHead(n) \/ ReadBody(n)
  \/ HeadEof \/ HeadFails \/ FullBody \/ BodyFails \/ RelayEnds

\* The steps that await the client in write_all, under no timeout.
Writes ==
  \/ WriteRaw
  \/ \E decoded \in BOOLEAN, edit \in {-1, 0, 1} : Finish(decoded, edit)
  \/ \E n \in 1 .. ReadMax : Relay(n)

Proxy == Reads \/ Writes

Next == Send \/ ServerEnds \/ ClientGone \/ Reload \/ Proxy

Spec == Init /\ [][Next]_vars

\* tokio runs a task whose socket is ready or whose timer has expired: a read ends.
\* Nothing of the kind holds of a write, which only the client can let through.
FairSpec == Spec /\ WF_vars(Reads)

-----------------------------------------------------------------------------
\* Every variable keeps the type its field or local has in the code.
TypeOK ==
  /\ resp \in Responses
  /\ sent \in 0 .. Total(resp) /\ taken \in 0 .. sent
  /\ server \in {"open", "eof", "reset"} /\ client \in {"open", "gone"}
  /\ rule \in Rules /\ enabled \in BOOLEAN
  /\ action \in Rules \union {"none"}
  /\ pc \in {"head", "raw", "body", "rewrite", "relay", "done", "failed"}
  /\ body \subseteq 1 .. taken /\ filtered \subseteq 1 .. taken
  /\ fetch \in {"no", "ok", "failed"}
  /\ hdr \in [length : Int, chunked : BOOLEAN, coding : {"none", "plain", "gzip", "deflate"}]
  /\ size \in Int
  /\ out \in Seq(SUBSET (1 .. Total(resp)))

\* A later write only carries bytes the server sent after those of every
\* earlier write: nothing is repeated or reordered, however the header, the
\* body and the rest are split over reads and the three loops that make them.
InOrder ==
  \A i, j \in 1 .. Len(out) : i < j => \A u \in out[i], v \in out[j] : u < v

\* Content read from the server is in what the client was sent, or the fetch
\* of the body failed: forward_response drops nothing on any other path.
LossOnlyAfterFailedFetch ==
  pc \in {"relay", "done"} /\ fetch # "failed" => Received \subseteq Delivered

\* Without body rewriting the client is relayed every unit, chunk framing
\* included, so the Transfer-Encoding header it was sent stays true.
PassThroughExact ==
  pc \in {"relay", "done"} /\ fetch = "no" => Delivered = 1 .. taken

\* A client that is still there is cut off only when no byte was written to it
\* or when the server reset: a timeout later on ends the response quietly.
CutOffOnlyByReset ==
  pc = "failed" /\ client = "open" => out = <<>> \/ server = "reset"

\* Content filters that ran after a successful fetch were given all the content
\* that was read, and none arrives after they ran.
FetchedBodyFilteredWhole ==
  fetch = "ok" /\ filtered # {} => filtered = Received

\* The exchange comes to an end whatever the server does, for every client that reads
\* what it is sent or goes away.
ExchangeEnds == WF_vars(Writes) => <>(pc \in {"done", "failed"})
=============================================================================
