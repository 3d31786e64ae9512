------------------------------- MODULE Exchange -------------------------------
(* One connection's handler up to the point where the server answers:           *)
(* ConnectionHandler::handle, read_request, handle_connect, handle_http_request *)
(* and connect_to_target (src/src/connection.rs).  Relay models the answer.     *)
(*                                                                              *)
(* The client's request is a row of numbered units: 1..head are the request     *)
(* line and headers, the rest is the body of an HTTP request or, after a        *)
(* CONNECT, what the client says to the target.                                 *)
EXTENDS Integers, Sequences

CONSTANTS
  Requests,    \* the requests the client may make
  Specs,       \* the forward specs the configuration may give for the host
  MaxRetries,  \* bound on forwarded-connect-retries
  ReadMax      \* receive_buffer_size, in units

Request(r) ==
  /\ r.kind \in {"cgi", "connect", "http"}
  /\ r.head \in Nat \ {0} /\ r.body \in Nat
  /\ r.target \in {"absolute", "path"}   \* form of the request target
  /\ r.wellformed \in BOOLEAN

\* A ForwardSpec: its type, whether it names a SOCKS gateway, whether it names
\* an HTTP proxy or web server to forward to.
ForwardSpec(s) ==
  /\ s.type \in {"direct", "http", "webserver", "socks4", "socks5"}
  /\ s.gateway \in BOOLEAN /\ s.forward \in BOOLEAN
  /\ s.gateway => s.type \in {"socks4", "socks5"}

ASSUME ExchangeAssumption ==
  /\ \A r \in Requests : Request(r)
  /\ \A s \in Specs : ForwardSpec(s)
  /\ MaxRetries \in Nat /\ ReadMax \in Nat \ {0}

VARIABLES
  req,        \* the request this client makes
  arrived,    \* units of it that have reached the proxy's socket
  client,     \* the client's end of its connection
  config,     \* what the installed configuration says about this URL: its
              \* rule, its forward spec and the number of retries
  enabled,    \* AppState.global_toggle
  pc,         \* where the handler stands
  taken,      \* units read from the client's socket
  action,     \* the action found for the URL
  spec,       \* the forward spec in use
  retries,    \* the number of retries in use
  attempt,    \* the attempt being made, from 0
  sockets,    \* connections towards the server that are open
  peer,       \* who is at the other end of the connection that was made
  form,       \* form of the request target sent upstream
  forwarded,  \* units sent upstream
  verdicts    \* the responses the handler itself has written to the client

peers == <<req, arrived, client>>
setting == <<config, enabled>>
choice == <<action, spec, retries>>
upstream == <<sockets, peer, form, forwarded>>
vars == <<peers, setting, pc, taken, choice, attempt, upstream, verdicts>>

\* No rule matches or nothing stops the request; a +block, a +redirect or a
\* +limit-connect that does not list the port stops it.
Rules == {"none", "stop"}
Settings == [rule : Rules, forward : Specs, retries : 0 .. MaxRetries]

Total == req.head + req.body
NoSpec == [type |-> "direct", gateway |-> FALSE, forward |-> FALSE]

Init ==
  /\ req \in Requests /\ arrived = 0 /\ client = "open"
  /\ config \in Settings /\ enabled \in BOOLEAN
  /\ pc = "request" /\ taken = 0
  /\ action = "none" /\ spec = NoSpec /\ retries = 0 /\ attempt = 0
  /\ sockets = 0 /\ peer = "nobody" /\ form = "none" /\ forwarded = {}
  /\ verdicts = <<>>

-----------------------------------------------------------------------------
\* The client, the tray icon's toggle, the other connections of the proxy.

ClientSends ==
  /\ client = "open" /\ arrived < Total
  /\ arrived' = arrived + 1
  /\ UNCHANGED <<req, client, setting, pc, taken, choice, attempt, upstream, verdicts>>

ClientEnds ==
  /\ client = "open"
  /\ client' \in {"eof", "reset"}
  /\ UNCHANGED <<req, arrived, setting, pc, taken, choice, attempt, upstream, verdicts>>

Toggle ==
  /\ enabled' = ~enabled
  /\ UNCHANGED <<peers, config, pc, taken, choice, attempt, upstream, verdicts>>

Reload ==
  /\ config' \in Settings
  /\ UNCHANGED <<peers, enabled, pc, taken, choice, attempt, upstream, verdicts>>

-----------------------------------------------------------------------------
\* read_request.

Readable(n) == n \in 1 .. ReadMax /\ n <= arrived - taken
Drained == arrived = taken

\* A malformed request may be found out before its headers are complete.
ReadRequest(n) ==
  /\ pc = "request" /\ Readable(n)
  /\ taken' = taken + n
  /\ \/ taken' < req.head /\ UNCHANGED pc
     \/ taken' >= req.head /\ req.wellformed /\ pc' = req.kind
     \/ ~req.wellformed /\ pc' = "failed"
  /\ UNCHANGED <<peers, setting, choice, attempt, upstream, verdicts>>

RequestEof ==
  /\ pc = "request" /\ Drained /\ client = "eof"
  /\ pc' = "closed"
  /\ UNCHANGED <<peers, setting, taken, choice, attempt, upstream, verdicts>>

\* Mistake: no timeout around the reads of the request.
RequestFailsUntimed ==
  /\ pc = "request" /\ client = "reset"
  /\ pc' = "failed"
  /\ UNCHANGED <<peers, setting, taken, choice, attempt, upstream, verdicts>>

RequestFails ==
  /\ pc = "request"
  /\ client = "reset" \/ (Drained /\ client = "open")
  /\ pc' = "failed"
  /\ UNCHANGED <<peers, setting, taken, choice, attempt, upstream, verdicts>>

-----------------------------------------------------------------------------
\* handle, handle_connect and handle_http_request up to the connection.

\* write_all of a response: an error ends the handler, and no timeout is set on it.
Reply(verdict, next) ==
  IF client # "reset"
  THEN verdicts' = Append(verdicts, verdict) /\ pc' = next
  ELSE pc' = "failed" /\ UNCHANGED verdicts

Cgi ==
  /\ pc = "cgi"
  /\ Reply("page", "closed")
  /\ UNCHANGED <<peers, setting, taken, choice, attempt, upstream>>

FindAction ==
  /\ pc \in {"connect", "http"}
  /\ action' = IF enabled THEN config.rule ELSE "none"
  /\ pc' = "decide"
  /\ UNCHANGED <<peers, setting, taken, spec, retries, attempt, upstream, verdicts>>

\* Mistake: no return after the response to a blocked request.
StopGoesOn ==
  /\ pc = "decide" /\ action = "stop"
  /\ Reply("stopped", "route")
  /\ UNCHANGED <<peers, setting, taken, choice, attempt, upstream>>

Stop ==
  /\ pc = "decide" /\ action = "stop"
  /\ Reply("stopped", "closed")
  /\ UNCHANGED <<peers, setting, taken, choice, attempt, upstream>>

\* connect_to_target: find_forward_spec, and then the retries, each under the
\* configuration's lock.
Route ==
  /\ pc = "decide" /\ action # "stop"
  /\ spec' = config.forward
  /\ pc' = "route"
  /\ UNCHANGED <<peers, setting, taken, action, retries, attempt, upstream, verdicts>>

BeginAttempts ==
  /\ pc = "route"
  /\ retries' = config.retries
  /\ pc' = "dial"
  /\ UNCHANGED <<peers, setting, taken, action, spec, attempt, upstream, verdicts>>

-----------------------------------------------------------------------------
\* connect_to_target: one attempt.

Hop == IF spec.forward THEN "parent" ELSE "target"

Connected(n) == sockets' = n /\ peer' = Hop /\ pc' = "connected"

\* To the gateway if there is one; a Socks5Stream then connects once more.
Dial ==
  /\ pc = "dial"
  /\ \/ spec.gateway /\ spec.type = "socks5" /\ pc' = "redial"
        /\ sockets' = 1 /\ UNCHANGED peer
     \/ spec.gateway /\ spec.type = "socks4" /\ pc' = "handshake"
        /\ sockets' = 1 /\ UNCHANGED peer
     \/ ~spec.gateway /\ Connected(1)
  /\ UNCHANGED <<peers, setting, taken, choice, attempt, form, forwarded, verdicts>>

Redial ==
  /\ pc = "redial"
  /\ sockets' = 2
  /\ pc' = "handshake"
  /\ UNCHANGED <<peers, setting, taken, choice, attempt, peer, form, forwarded, verdicts>>

\* Mistake: the connection made for nothing is kept open.
HandshakeKeepsBoth ==
  /\ pc = "handshake"
  /\ Connected(sockets)
  /\ UNCHANGED <<peers, setting, taken, choice, attempt, form, forwarded, verdicts>>

\* The gateway agrees to connect to the next hop.
Handshake ==
  /\ pc = "handshake"
  /\ Connected(1)
  /\ UNCHANGED <<peers, setting, taken, choice, attempt, form, forwarded, verdicts>>

\* An error, or the timeout around the whole attempt: its sockets are dropped.
AttemptFailed(more) ==
  /\ pc \in {"dial", "redial", "handshake"}
  /\ sockets' = 0
  /\ IF more
     THEN attempt' = attempt + 1 /\ pc' = "dial"
     ELSE UNCHANGED attempt /\ pc' = "unreachable"
  /\ UNCHANGED <<peers, setting, taken, choice, peer, form, forwarded, verdicts>>

\* Mistakes: one retry too many or too few; a 502 for every failure; the route
\* looked up again for each attempt.
AttemptFailsOnceMore == AttemptFailed(attempt <= retries)
AttemptFailsOnceLess == AttemptFailed(attempt + 1 < retries)

AttemptFailsLoudly ==
  /\ pc \in {"dial", "redial", "handshake"}
  /\ sockets' = 0
  /\ Reply("502", IF attempt < retries THEN "dial" ELSE "unreachable")
  /\ attempt' = IF pc' = "dial" THEN attempt + 1 ELSE attempt
  /\ UNCHANGED <<peers, setting, taken, choice, peer, form, forwarded>>

AttemptFailsRerouted ==
  /\ pc \in {"dial", "redial", "handshake"}
  /\ sockets' = 0 /\ attempt < retries
  /\ attempt' = attempt + 1 /\ pc' = "dial" /\ spec' = config.forward
  /\ UNCHANGED <<peers, setting, taken, action, retries, peer, form, forwarded, verdicts>>

AttemptFails == AttemptFailed(attempt < retries)

BadGateway ==
  /\ pc = "unreachable"
  /\ Reply("502", "closed")
  /\ UNCHANGED <<peers, setting, taken, choice, attempt, upstream>>

-----------------------------------------------------------------------------
\* With a connection: build_request_bytes, or 200 and the tunnel.

RequestTarget ==
  IF spec.forward /\ spec.type # "webserver"
  THEN IF req.target = "absolute" THEN "doubled" ELSE "absolute"
  ELSE "path"

\* What came along with the headers goes along as the body.
SendRequest ==
  /\ pc = "connected" /\ req.kind = "http"
  /\ form' = RequestTarget
  /\ forwarded' = 1 .. taken
  /\ pc' = "response"
  /\ UNCHANGED <<peers, setting, taken, choice, attempt, sockets, peer, verdicts>>

\* The server's connection breaks: the client gets no response.
SendFails ==
  /\ pc = "connected" /\ req.kind = "http"
  /\ sockets' = 0 /\ pc' = "failed"
  /\ UNCHANGED <<peers, setting, taken, choice, attempt, peer, form, forwarded, verdicts>>

OpenTunnel ==
  /\ pc = "connected" /\ req.kind = "connect"
  /\ Reply("200", "tunnel")
  /\ sockets' = IF pc' = "tunnel" THEN sockets ELSE 0
  /\ UNCHANGED <<peers, setting, taken, choice, attempt, peer, form, forwarded>>

\* copy_bidirectional, the client's side of it.
TunnelCopies(n) ==
  /\ pc = "tunnel" /\ Readable(n)
  /\ taken' = taken + n
  /\ forwarded' = forwarded \union (taken + 1 .. taken + n)
  /\ UNCHANGED <<peers, setting, pc, choice, attempt, sockets, peer, form, verdicts>>

\* Both sides are at their end, or one has failed.
TunnelEnds ==
  /\ pc = "tunnel"
  /\ \/ client = "eof" /\ Drained /\ pc' = "closed"
     \/ pc' = "failed"
  /\ sockets' = 0
  /\ UNCHANGED <<peers, setting, taken, choice, attempt, peer, form, forwarded, verdicts>>

\* forward_response (Relay) returns.
ResponseEnds ==
  /\ pc = "response"
  /\ sockets' = 0 /\ pc' \in {"closed", "failed"}
  /\ UNCHANGED <<peers, setting, taken, choice, attempt, peer, form, forwarded, verdicts>>

-----------------------------------------------------------------------------

\* The steps that wait for nothing, or under socket_timeout.
Timed ==
  \/ \E n \in 1 .. ReadMax : ReadRequest(n)
  \/ RequestEof \/ RequestFails \/ FindAction \/ Route \/ BeginAttempts
  \/ Dial \/ Redial \/ Handshake \/ AttemptFails

\* The steps that wait in write_all, for the client or the server, under no timeout.
Writes == Cgi \/ Stop \/ BadGateway \/ OpenTunnel \/ SendRequest \/ SendFails

\* A tunnel and a response last as long as their two ends like.
Relaying ==
  \/ \E n \in 1 .. ReadMax : TunnelCopies(n)
  \/ TunnelEnds \/ ResponseEnds

Handler == Timed \/ Writes \/ Relaying

Next == ClientSends \/ ClientEnds \/ Toggle \/ Reload \/ Handler

Spec == Init /\ [][Next]_vars

\* The handler is run by tokio and its reads and attempts are under timeouts.
FairSpec == Spec /\ WF_vars(Timed)

-----------------------------------------------------------------------------
Finished == {"closed", "failed"}

\* Every variable keeps the type of its field or local.
TypeOK ==
  /\ req \in Requests /\ arrived \in 0 .. Total /\ taken \in 0 .. arrived
  /\ client \in {"open", "eof", "reset"}
  /\ config \in Settings /\ enabled \in BOOLEAN
  /\ pc \in {"request", "cgi", "connect", "http", "decide", "route", "dial", "redial",
             "handshake", "unreachable", "connected", "response", "tunnel"} \union Finished
  /\ action \in Rules /\ spec \in Specs \union {NoSpec}
  /\ retries \in 0 .. MaxRetries /\ attempt \in 0 .. MaxRetries
  /\ sockets \in 0 .. 2
  /\ peer \in {"nobody", "target", "parent"}
  /\ form \in {"none", "path", "absolute", "doubled"}
  /\ forwarded \subseteq 1 .. taken
  /\ verdicts \in Seq({"page", "stopped", "502", "200"})

\* A client is given one answer: the handler writes at most one response of its
\* own, and none when the server's is relayed, whatever fails along the way.
OneVerdict ==
  /\ Len(verdicts) <= 1
  /\ form # "none" => verdicts = <<>>

\* A CGI page or a stopped request has opened nothing towards the server, even
\* if the configuration or the toggle changed while it was handled.
StoppedNotDialled ==
  \A i \in 1 .. Len(verdicts) :
    verdicts[i] \in {"page", "stopped"} => sockets = 0 /\ peer = "nobody" /\ forwarded = {}

\* 502 comes after every attempt the retries allow, with no socket left open.
BadGatewayIsFinal ==
  \A i \in 1 .. Len(verdicts) :
    verdicts[i] = "502" => attempt = retries /\ sockets = 0 /\ forwarded = {}

\* One connection serves a relayed request or a tunnel, and none outlives the
\* handler, the extra one a SOCKS5 gateway is opened included.
OneSocketInUse ==
  /\ pc \in {"response", "tunnel"} => sockets = 1
  /\ pc \in Finished => sockets = 0

\* A server reached without an HTTP parent is sent a path, never a URL, however
\* the client wrote the request.
OriginGetsPath == peer = "target" /\ form # "none" => form = "path"

\* Every attempt of a request goes the same way: a reload between two attempts
\* does not send the retry through another proxy.
SameRouteOnRetry ==
  [][attempt' > 0 => UNCHANGED <<spec, retries>>]_vars

\* Every request is answered, dropped, or handed to the relay of a response or of a
\* tunnel, if the ends that are written to read or go away.
RequestIsHandled == WF_vars(Writes) => <>(pc \in Finished \union {"response", "tunnel"})

-----------------------------------------------------------------------------
\* connection.rs:470 "Add body if present": the body the client has sent when
\* the exchange is over went to the server.
BodyForwarded ==
  pc = "closed" /\ form # "none" => req.head + 1 .. arrived \subseteq forwarded
=============================================================================
