---------------------------- MODULE ExchangeProofs ----------------------------
(* Proofs about Exchange, for every set of requests, forward specs and numbers  *)
(* of retries.                                                                  *)
EXTENDS Exchange, TLAPS

\* Where the handler has not found its action's verdict yet, where it dials, and
\* where it has written nothing.
Early == {"request", "cgi", "connect", "http", "decide", "route"}
Dialling == {"dial", "redial", "handshake"}
Silent == Early \union Dialling \union {"unreachable", "connected"}

\* What each place of the handler has established.
Places ==
  /\ pc \in Silent => verdicts = <<>> /\ form = "none" /\ forwarded = {}
  /\ pc \in Early => attempt = 0
  /\ pc \in Early \union {"dial", "unreachable"} => sockets = 0
  /\ pc \in Early \union Dialling \union {"unreachable"} => peer = "nobody"
  /\ pc = "unreachable" => attempt = retries
  /\ pc \in Dialling \union {"connected"} => attempt <= retries
  /\ pc \in {"connected", "response", "tunnel"} => sockets = 1 /\ peer = Hop
  /\ pc = "response" => verdicts = <<>>
  /\ pc = "tunnel" => verdicts = <<"200">> /\ form = "none"
  /\ pc \in Finished => sockets = 0

Verdicts ==
  /\ verdicts = <<>> \/ \E v \in {"page", "stopped", "502", "200"} : verdicts = <<v>>
  /\ OneVerdict /\ StoppedNotDialled /\ BadGatewayIsFinal

IInv == TypeOK /\ Places /\ Verdicts /\ OneSocketInUse /\ OriginGetsPath

-----------------------------------------------------------------------------
\* A response the handler writes when it has written none before.
LEMMA Replies ==
  ASSUME NEW v \in {"page", "stopped", "502", "200"}, NEW next, Reply(v, next), verdicts = <<>>
  PROVE  \/ verdicts' = <<v>> /\ pc' = next
         \/ verdicts' = <<>> /\ pc' = "failed"
  BY DEF Reply

LEMMA NoResponse ==
  ASSUME verdicts = <<>>
  PROVE  OneVerdict /\ StoppedNotDialled /\ BadGatewayIsFinal
  BY DEF OneVerdict, StoppedNotDialled, BadGatewayIsFinal

-----------------------------------------------------------------------------
LEMMA InitInv == Init => IInv
  <1> SUFFICES ASSUME Init PROVE IInv
    OBVIOUS
  <1>1. req.head \in Nat /\ req.body \in Nat
    BY ExchangeAssumption DEF Init, Request
  <1>2. TypeOK
    <2>1. Total \in Nat
      BY <1>1 DEF Total
    <2>2. verdicts \in Seq({"page", "stopped", "502", "200"})
      BY DEF Init
    <2> QED
      BY <2>1, <2>2, ExchangeAssumption DEF Init, TypeOK, Rules
  <1> QED
    BY <1>2, NoResponse DEF Init, IInv, Places, Verdicts, OneSocketInUse, OriginGetsPath,
       Silent, Early, Dialling, Finished

\* The types: no more is read than has arrived, no attempt is beyond the bound.
LEMMA TypeStep == IInv /\ [Next]_vars => TypeOK'
  <1> SUFFICES ASSUME IInv, [Next]_vars PROVE TypeOK'
    OBVIOUS
  <1>0. TypeOK /\ Places /\ ReadMax \in Nat /\ MaxRetries \in Nat
    BY ExchangeAssumption DEF IInv
  <1>1. /\ Total \in Nat /\ arrived \in Nat /\ taken \in Nat
        /\ arrived <= Total /\ taken <= arrived
        /\ req.kind \in {"cgi", "connect", "http"} /\ req.target \in {"absolute", "path"}
    BY <1>0, ExchangeAssumption DEF TypeOK, Total, Request
  <1>2. CASE ClientSends \/ ClientEnds \/ Toggle \/ Reload
    <2>1. UNCHANGED <<req, pc, taken, choice, attempt, upstream, verdicts>>
      BY <1>2 DEF ClientSends, ClientEnds, Toggle, Reload, peers
    <2>2. /\ arrived' \in 0 .. Total /\ taken \in 0 .. arrived'
          /\ client' \in {"open", "eof", "reset"} /\ config' \in Settings /\ enabled' \in BOOLEAN
      <3>1. CASE ClientSends
        BY <1>0, <1>1, <3>1 DEF ClientSends, setting, TypeOK
      <3>2. CASE ClientEnds
        BY <1>0, <1>1, <3>2 DEF ClientEnds, setting, TypeOK
      <3>3. CASE Toggle
        BY <1>0, <1>1, <3>3 DEF Toggle, peers, TypeOK
      <3>4. CASE Reload
        BY <1>0, <1>1, <3>4 DEF Reload, peers, TypeOK
      <3> QED
        BY <1>2, <3>1, <3>2, <3>3, <3>4
    <2> QED
      BY <1>0, <2>1, <2>2 DEF TypeOK, choice, upstream, Total
  <1>3. ASSUME NEW n \in 1 .. ReadMax, ReadRequest(n) \/ TunnelCopies(n) PROVE TypeOK'
    <2>1. /\ n \in Nat /\ taken' = taken + n /\ n <= arrived - taken
          /\ UNCHANGED <<peers, setting, choice, attempt, sockets, peer, form, verdicts>>
      BY <1>0, <1>3 DEF ReadRequest, TunnelCopies, Readable, upstream
    <2>2. taken' \in 0 .. arrived
      BY <1>1, <2>1
    <2>3. forwarded' \subseteq 1 .. taken'
      <3>1. 1 .. taken \subseteq 1 .. taken' /\ taken + 1 .. taken + n \subseteq 1 .. taken'
        BY <1>1, <2>1
      <3> QED
        BY <1>0, <1>3, <3>1 DEF ReadRequest, TunnelCopies, upstream, TypeOK
    <2>4. pc' \in {"request", "cgi", "connect", "http", "failed", "tunnel"}
      BY <1>1, <1>3 DEF ReadRequest, TunnelCopies
    <2> QED
      BY <1>0, <2>1, <2>2, <2>3, <2>4 DEF TypeOK, peers, setting, choice, Total, Finished
  <1>4. CASE RequestEof \/ RequestFails
    BY <1>0, <1>4 DEF RequestEof, RequestFails, TypeOK, peers, setting, choice, upstream,
       Total, Finished
  <1>5. CASE Cgi \/ Stop \/ BadGateway
    <2>1. /\ verdicts' \in {verdicts, Append(verdicts, "page"), Append(verdicts, "stopped"),
                            Append(verdicts, "502")}
          /\ pc' \in Finished /\ UNCHANGED <<peers, setting, taken, choice, attempt, upstream>>
      BY <1>5 DEF Cgi, Stop, BadGateway, Reply, Finished
    <2>2. verdicts' \in Seq({"page", "stopped", "502", "200"})
      BY <1>0, <2>1 DEF TypeOK
    <2> QED
      BY <1>0, <2>1, <2>2 DEF TypeOK, peers, setting, choice, upstream, Total
  <1>6. CASE FindAction \/ Route \/ BeginAttempts
    BY <1>0, <1>6 DEF FindAction, Route, BeginAttempts, TypeOK, Settings, Rules, peers, setting,
       upstream, Total
  <1>7. CASE Dial \/ Redial \/ Handshake
    <2>1. /\ sockets' \in 0 .. 2 /\ peer' \in {peer, "target", "parent"}
          /\ pc' \in {"redial", "handshake", "connected"}
          /\ UNCHANGED <<peers, setting, taken, choice, attempt, form, forwarded, verdicts>>
      BY <1>7 DEF Dial, Redial, Handshake, Connected, Hop
    <2> QED
      BY <1>0, <2>1 DEF TypeOK, peers, setting, choice, Total
  <1>8. CASE AttemptFails
    <2>1. attempt' \in 0 .. MaxRetries /\ pc' \in {"dial", "unreachable"} /\ sockets' = 0
      BY <1>0, <1>8 DEF AttemptFails, AttemptFailed, TypeOK
    <2> QED
      BY <1>0, <1>8, <2>1 DEF AttemptFails, AttemptFailed, TypeOK, peers, setting, choice, Total
  <1>9. CASE SendRequest
    BY <1>0, <1>9 DEF SendRequest, RequestTarget, TypeOK, peers, setting, choice, Total
  <1>10. CASE OpenTunnel
    BY <1>0, <1>10 DEF OpenTunnel, Reply, TypeOK, peers, setting, choice, Total, Finished
  <1>11. CASE SendFails \/ TunnelEnds \/ ResponseEnds
    <2>1. /\ sockets' = 0 /\ pc' \in Finished
          /\ UNCHANGED <<peers, setting, taken, choice, attempt, peer, form, forwarded, verdicts>>
      BY <1>11 DEF SendFails, TunnelEnds, ResponseEnds, Finished
    <2> QED
      BY <1>0, <2>1 DEF TypeOK, peers, setting, choice, Total
  <1>12. CASE UNCHANGED vars
    BY <1>0, <1>12 DEF vars, TypeOK, peers, setting, choice, upstream, Total
  <1> QED
    BY <1>2, <1>3, <1>4, <1>5, <1>6, <1>7, <1>8, <1>9, <1>10, <1>11, <1>12 DEF Next, Handler, Timed, Writes, Relaying

-----------------------------------------------------------------------------
\* The steps, by what they do to what the client and the server are sent.
LEMMA HandlerStep ==
  IInv /\ [Next]_vars => (Places /\ Verdicts /\ OneSocketInUse /\ OriginGetsPath)'
  <1> DEFINE Goal == Places /\ Verdicts /\ OneSocketInUse /\ OriginGetsPath
  <1> SUFFICES ASSUME IInv, [Next]_vars PROVE Goal'
    OBVIOUS
  <1> USE DEF Silent, Early, Dialling, Finished
  <1>0. /\ TypeOK /\ Places /\ Verdicts /\ OneSocketInUse /\ OriginGetsPath
        /\ attempt \in Nat /\ retries \in Nat /\ \A s \in Settings : s.retries \in Nat
        /\ req.kind \in {"cgi", "connect", "http"}
    BY ExchangeAssumption DEF IInv, TypeOK, Settings, Request
  \* Steps that move the handler only, or nothing at all.
  <1>1. ASSUME UNCHANGED <<spec, retries, attempt, upstream, verdicts>>,
               \/ UNCHANGED pc
               \/ pc = "request" /\ pc' \in {"request", "cgi", "connect", "http", "closed", "failed"}
               \/ pc \in {"connect", "http"} /\ pc' = "decide"
        PROVE  Goal'
    BY <1>0, <1>1 DEF Places, Verdicts, OneVerdict, StoppedNotDialled, BadGatewayIsFinal,
       OneSocketInUse, OriginGetsPath, upstream, Hop
  <1>2. CASE ClientSends \/ ClientEnds \/ Toggle \/ Reload \/ UNCHANGED vars
    BY <1>1, <1>2 DEF ClientSends, ClientEnds, Toggle, Reload, vars, choice
  <1>3. ASSUME NEW n \in 1 .. ReadMax, ReadRequest(n) PROVE Goal'
    BY <1>0, <1>1, <1>3 DEF ReadRequest, choice
  <1>4. CASE RequestEof \/ RequestFails
    BY <1>1, <1>4 DEF RequestEof, RequestFails, choice
  <1>5. CASE FindAction
    BY <1>1, <1>5 DEF FindAction
  \* A page or a refusal, before anything was opened.
  <1>6. CASE Cgi \/ Stop
    <2>1. /\ pc \in Early /\ verdicts = <<>> /\ form = "none" /\ forwarded = {}
          /\ sockets = 0 /\ peer = "nobody" /\ UNCHANGED <<upstream, attempt, retries>>
      BY <1>0, <1>6 DEF Cgi, Stop, Places, choice
    <2>2. \E v \in {"page", "stopped"} :
            \/ verdicts' = <<v>> /\ pc' = "closed"
            \/ verdicts' = <<>> /\ pc' = "failed"
      BY <1>6, <2>1, Replies DEF Cgi, Stop
    <2>3. Places' /\ OneSocketInUse' /\ OriginGetsPath'
      BY <2>1, <2>2 DEF Places, OneSocketInUse, OriginGetsPath, upstream
    <2>4. Verdicts'
      <3>1. CASE verdicts' = <<>>
        BY <3>1 DEF Verdicts, OneVerdict, StoppedNotDialled, BadGatewayIsFinal
      <3>2. ASSUME NEW v \in {"page", "stopped"}, verdicts' = <<v>> PROVE Verdicts'
        <4>1. Len(verdicts') = 1 /\ verdicts'[1] = v
          BY <3>2
        <4>2. 1 .. Len(verdicts') = {1}
          BY <4>1
        <4> QED
          BY <2>1, <3>2, <4>1, <4>2 DEF Verdicts, OneVerdict, StoppedNotDialled,
             BadGatewayIsFinal, upstream
      <3> QED
        BY <2>2, <3>1, <3>2
    <2> QED
      BY <2>3, <2>4
  <1>7. CASE Route \/ BeginAttempts
    <2>1. /\ pc \in {"decide", "route"} /\ pc' \in {"route", "dial"} /\ verdicts = <<>>
          /\ pc' = "dial" => retries' = config.retries
          /\ UNCHANGED <<attempt, upstream, verdicts>>
      BY <1>0, <1>7 DEF Route, BeginAttempts, Places
    <2>2. config.retries \in Nat
      BY <1>0 DEF TypeOK
    <2>3. Places' /\ OneSocketInUse' /\ OriginGetsPath'
      BY <1>0, <2>1, <2>2 DEF Places, OneSocketInUse, OriginGetsPath, upstream
    <2>4. Verdicts'
      BY <2>1 DEF Verdicts, OneVerdict, StoppedNotDialled, BadGatewayIsFinal
    <2> QED
      BY <2>3, <2>4
  <1>8. CASE Dial \/ Redial \/ Handshake
    <2>1. /\ pc \in Dialling /\ verdicts = <<>> /\ form = "none" /\ forwarded = {}
          /\ UNCHANGED <<spec, retries, attempt, form, forwarded, verdicts>>
      BY <1>0, <1>8 DEF Dial, Redial, Handshake, Places, choice
    <2>2. \/ pc' \in {"redial", "handshake"} /\ UNCHANGED peer
          \/ pc' = "connected" /\ sockets' = 1 /\ peer' = Hop
      BY <1>8 DEF Dial, Redial, Handshake, Connected
    <2>3. Places' /\ OneSocketInUse' /\ OriginGetsPath'
      BY <1>0, <2>1, <2>2 DEF Places, OneSocketInUse, OriginGetsPath, Hop
    <2>4. Verdicts'
      BY <2>1 DEF Verdicts, OneVerdict, StoppedNotDialled, BadGatewayIsFinal
    <2> QED
      BY <2>3, <2>4
  <1>9. CASE AttemptFails
    <2>1. /\ pc \in Dialling /\ verdicts = <<>> /\ form = "none" /\ forwarded = {}
          /\ peer = "nobody" /\ sockets' = 0 /\ attempt <= retries
          /\ UNCHANGED <<spec, retries, peer, form, forwarded, verdicts>>
          /\ \/ attempt < retries /\ attempt' = attempt + 1 /\ pc' = "dial"
             \/ ~(attempt < retries) /\ attempt' = attempt /\ pc' = "unreachable"
      BY <1>0, <1>9 DEF AttemptFails, AttemptFailed, Places, choice
    <2>2. Places' /\ OneSocketInUse' /\ OriginGetsPath'
      BY <1>0, <2>1 DEF Places, OneSocketInUse, OriginGetsPath
    <2>3. Verdicts'
      BY <2>1 DEF Verdicts, OneVerdict, StoppedNotDialled, BadGatewayIsFinal
    <2> QED
      BY <2>2, <2>3
  \* 502, when no attempt is left.
  <1>13. CASE BadGateway
    <2>1. /\ pc = "unreachable" /\ verdicts = <<>> /\ form = "none" /\ forwarded = {}
          /\ peer = "nobody" /\ sockets = 0 /\ attempt = retries
          /\ UNCHANGED <<spec, retries, attempt, upstream>>
      BY <1>0, <1>13 DEF BadGateway, Places, choice
    <2>2. \/ verdicts' = <<"502">> /\ pc' = "closed"
          \/ verdicts' = <<>> /\ pc' = "failed"
      BY <1>13, <2>1, Replies DEF BadGateway
    <2>3. Places' /\ OneSocketInUse' /\ OriginGetsPath'
      BY <2>1, <2>2 DEF Places, OneSocketInUse, OriginGetsPath, upstream
    <2>4. CASE verdicts' = <<>>
      BY <2>3, <2>4 DEF Verdicts, OneVerdict, StoppedNotDialled, BadGatewayIsFinal
    <2>5. CASE verdicts' = <<"502">>
      <3>1. Len(verdicts') = 1 /\ verdicts'[1] = "502"
        BY <2>5
      <3>2. 1 .. Len(verdicts') = {1}
        BY <3>1
      <3>3. Verdicts'
        BY <2>1, <2>5, <3>1, <3>2 DEF Verdicts, OneVerdict, StoppedNotDialled,
           BadGatewayIsFinal, upstream
      <3> QED
        BY <2>3, <3>3
    <2> QED
      BY <2>2, <2>4, <2>5
  <1>10. CASE SendRequest
    <2>1. /\ pc = "connected" /\ pc' = "response" /\ verdicts = <<>> /\ verdicts' = <<>>
          /\ sockets = 1 /\ peer = Hop /\ form' = RequestTarget
          /\ UNCHANGED <<spec, retries, attempt, sockets, peer>>
      BY <1>0, <1>10 DEF SendRequest, Places, choice
    <2>2. Places' /\ OneSocketInUse'
      BY <2>1 DEF Places, OneSocketInUse, Hop
    <2>3. OriginGetsPath'
      BY <2>1 DEF OriginGetsPath, Hop, RequestTarget
    <2>4. Verdicts'
      BY <2>1 DEF Verdicts, OneVerdict, StoppedNotDialled, BadGatewayIsFinal
    <2> QED
      BY <2>2, <2>3, <2>4
  <1>11. CASE OpenTunnel
    <2>1. /\ pc = "connected" /\ verdicts = <<>> /\ form = "none" /\ forwarded = {}
          /\ sockets = 1 /\ peer = Hop /\ Reply("200", "tunnel")
          /\ UNCHANGED <<spec, retries, attempt, peer, form, forwarded>>
          /\ sockets' = IF pc' = "tunnel" THEN sockets ELSE 0
      BY <1>0, <1>11 DEF OpenTunnel, Places, choice
    <2>2. \/ verdicts' = <<"200">> /\ pc' = "tunnel"
          \/ verdicts' = <<>> /\ pc' = "failed"
      BY <2>1, Replies
    <2>3. Places' /\ OneSocketInUse' /\ OriginGetsPath'
      BY <2>1, <2>2 DEF Places, OneSocketInUse, OriginGetsPath, Hop
    <2>4. CASE verdicts' = <<>>
      BY <2>3, <2>4 DEF Verdicts, OneVerdict, StoppedNotDialled, BadGatewayIsFinal
    <2>5. CASE verdicts' = <<"200">>
      <3>1. Len(verdicts') = 1 /\ verdicts'[1] = "200"
        BY <2>5
      <3>2. 1 .. Len(verdicts') = {1}
        BY <3>1
      <3>3. Verdicts'
        BY <2>1, <2>5, <3>1, <3>2 DEF Verdicts, OneVerdict, StoppedNotDialled, BadGatewayIsFinal
      <3> QED
        BY <2>3, <3>3
    <2> QED
      BY <2>2, <2>4, <2>5
  \* A tunnel copies, or one of the relays comes to its end.
  <1>12. CASE (\E n \in 1 .. ReadMax : TunnelCopies(n)) \/ SendFails \/ TunnelEnds \/ ResponseEnds
    <2>1. /\ \/ pc = "tunnel" /\ verdicts = <<"200">>
             \/ pc \in {"connected", "response"} /\ verdicts = <<>>
          /\ UNCHANGED <<spec, retries, attempt, peer, form, verdicts>>
          /\ \/ pc = "tunnel" /\ pc' = "tunnel" /\ UNCHANGED sockets
             \/ pc' \in Finished /\ sockets' = 0 /\ UNCHANGED forwarded
      BY <1>0, <1>12 DEF TunnelCopies, SendFails, TunnelEnds, ResponseEnds, Places, choice
    <2>2. Places' /\ OneSocketInUse' /\ OriginGetsPath'
      BY <1>0, <2>1 DEF Places, OneSocketInUse, OriginGetsPath, Hop
    <2>3. CASE verdicts = <<>>
      BY <2>1, <2>2, <2>3 DEF Verdicts, OneVerdict, StoppedNotDialled, BadGatewayIsFinal
    <2>4. CASE verdicts = <<"200">>
      <3>1. Len(verdicts') = 1 /\ verdicts'[1] = "200" /\ verdicts' = <<"200">> /\ form' = "none"
        BY <1>0, <2>1, <2>4 DEF Verdicts, OneVerdict
      <3>2. 1 .. Len(verdicts') = {1}
        BY <3>1
      <3>3. Verdicts'
        BY <3>1, <3>2 DEF Verdicts, OneVerdict, StoppedNotDialled, BadGatewayIsFinal
      <3> QED
        BY <2>2, <3>3
    <2> QED
      BY <2>1, <2>3, <2>4
  <1> HIDE DEF Goal
  <1> QED
    BY <1>2, <1>3, <1>4, <1>5, <1>6, <1>7, <1>8, <1>9, <1>10, <1>11, <1>12, <1>13
       DEF Next, Handler, Timed, Writes, Relaying

LEMMA Invariant == Spec => []IInv
  <1>1. IInv /\ [Next]_vars => IInv'
    BY TypeStep, HandlerStep DEF IInv
  <1> QED
    BY <1>1, InitInv, PTL DEF Spec

-----------------------------------------------------------------------------
\* Type correctness of the handler.
THEOREM TypeCorrect == Spec => []TypeOK
  <1>1. IInv => TypeOK
    BY DEF IInv
  <1> QED
    BY <1>1, Invariant, PTL

\* The handler writes at most one response of its own, and none next to a
\* relayed one, whatever the forward specs and the number of retries.
THEOREM OneVerdictOnly == Spec => []OneVerdict
  <1>1. IInv => OneVerdict
    BY DEF IInv, Verdicts
  <1> QED
    BY <1>1, Invariant, PTL

\* A page or a refusal opens no connection.
THEOREM StoppedIsNotDialled == Spec => []StoppedNotDialled
  <1>1. IInv => StoppedNotDialled
    BY DEF IInv, Verdicts
  <1> QED
    BY <1>1, Invariant, PTL

\* 502 comes after the last attempt and leaves no socket.
THEOREM BadGatewayComesLast == Spec => []BadGatewayIsFinal
  <1>1. IInv => BadGatewayIsFinal
    BY DEF IInv, Verdicts
  <1> QED
    BY <1>1, Invariant, PTL

\* One socket serves an exchange and none outlives it.
THEOREM OneSocket == Spec => []OneSocketInUse
  <1>1. IInv => OneSocketInUse
    BY DEF IInv
  <1> QED
    BY <1>1, Invariant, PTL

\* A server reached without an HTTP parent is sent a path.
THEOREM OriginIsSentAPath == Spec => []OriginGetsPath
  <1>1. IInv => OriginGetsPath
    BY DEF IInv
  <1> QED
    BY <1>1, Invariant, PTL

\* No attempt after the first changes the route, reloads or not.
THEOREM RetriesKeepTheRoute == Spec => SameRouteOnRetry
  <1>1. IInv /\ [Next]_vars => [attempt' > 0 => UNCHANGED <<spec, retries>>]_vars
    <2> SUFFICES ASSUME IInv, [Next]_vars, attempt' > 0 PROVE UNCHANGED <<spec, retries>>
      OBVIOUS
    <2>1. pc \in Early => attempt = 0
      BY DEF IInv, Places
    <2>2. ~(Route \/ BeginAttempts)
      BY <2>1 DEF Route, BeginAttempts, Early
    <2> QED
      BY <2>2 DEF Next, Handler, Timed, Writes, Relaying, BadGateway, vars, choice, ClientSends, ClientEnds, Toggle, Reload,
         ReadRequest, TunnelCopies, RequestEof, RequestFails, Cgi, FindAction, Stop, Dial,
         Redial, Handshake, AttemptFails, AttemptFailed, SendRequest, SendFails, OpenTunnel,
         TunnelEnds, ResponseEnds
  <1> QED
    BY <1>1, Invariant, PTL DEF Spec, SameRouteOnRetry
=============================================================================
