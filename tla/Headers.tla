-------------------------------- MODULE Headers --------------------------------
(* The headers of one exchange whose request is forwarded: what                  *)
(* apply_action_to_request makes of the request's headers, and                   *)
(* apply_action_to_response (src/src/connection.rs) of the response's, with the  *)
(* functions of src/src/action.rs that they call.                                *)
(*                                                                               *)
(* A header is its name and its value, and a value is kept as ActionString keeps *)
(* an argument: words, and how far the slice they were cut from was off.  Names  *)
(* are compared without regard to case, so they are written in one.              *)
EXTENDS ActionString, FiniteSetsExt

CONSTANTS
  Sections,   \* the actions a header of an actions file may have
  Requests,   \* the headers a request may have
  Responses,  \* the headers the answer may have
  NamesWith,  \* the header names that contain the text of an argument
  Secure,     \* the words of a cookie with "secure" or "httponly" in them
  MaxAge,     \* the attribute that limits a cookie to so many seconds
  Now         \* the time, as a date

HeaderType == [name : STRING, value : [off : {0}, text : Seq(STRING)]]

ASSUME HeadersAssumption ==
  /\ Sections \subseteq Seq(TokenType)
  /\ Requests \union Responses \subseteq Seq(HeaderType)

V(words) == [off |-> 0, text |-> words]
Header(name, value) == [name |-> name, value |-> value]

parse_action_string(tokens) ==
  LET made[i \in 0 .. Len(tokens)] == IF i = 0 THEN NoAction ELSE Apply(made[i - 1], tokens[i])
  IN made[Len(tokens)]

-----------------------------------------------------------------------------
\* src/src/http.rs: a name may come several times.

Values(h, name) ==
  FlattenSeq([i \in DOMAIN h |-> IF h[i].name = name THEN <<h[i].value>> ELSE <<>>])

Has(h, name) == Values(h, name) # <<>>

get_header(h, name) == Values(h, name)[1]

\* retain: every header but those with one of these names.
Drop(h, names) ==
  FlattenSeq([i \in DOMAIN h |-> IF h[i].name \in names THEN <<>> ELSE <<h[i]>>])

Names(h) == {h[i].name : i \in DOMAIN h}

remove_header(h, name) == Drop(h, {name})

set_header(h, name, value) == Append(remove_header(h, name), Header(name, value))

-----------------------------------------------------------------------------
\* The parts of both pipelines.

Arguments(a, list) ==
  FlattenSeq([i \in DOMAIN a.listed |->
                IF a.listed[i][1] = list THEN <<a.listed[i][2]>> ELSE <<>>])

\* An argument that was cut too early begins with a brace, which no name has.
Crunches(a, list, name) ==
  \E v \in ToSet(Arguments(a, list)) : v.off = 0 /\ name \in NamesWith[v.text]

crunch(h, a, list) == Drop(h, {n \in Names(h) : Crunches(a, list, n)})

remove_if(h, a, switch, name) == IF switch \in a.on THEN remove_header(h, name) ELSE h

Blocks(a, option) == option \in DOMAIN a.value /\ a.value[option] = V(<<"block">>)

SetsTo(a, option) == option \in DOMAIN a.value /\ ~Blocks(a, option)

\* hide_user_agent, hide_from_header, hide_accept_language, hide_content_disposition
hide(h, a, option, name) ==
  IF Blocks(a, option) THEN remove_header(h, name)
  ELSE IF SetsTo(a, option) THEN set_header(h, name, a.value[option])
  ELSE h

\* send_user_agent, content_type_overwrite
overwrite(h, a, option, name) ==
  IF option \in DOMAIN a.value THEN set_header(h, name, a.value[option]) ELSE h

-----------------------------------------------------------------------------
\* The request.

Forges(a) == \E m \in {"forge", "conditional-forge"} : a.value["hide-referrer"] = V(<<m>>)

\* The scheme is told by the port.
Forged(host) ==
  V(<<IF Last(host.text) = "443" THEN "https" ELSE "http">> \o host.text)

apply_hide_referrer(h, a) ==
  IF "hide-referrer" \notin DOMAIN a.value THEN h
  ELSE IF Blocks(a, "hide-referrer") \/ a.value["hide-referrer"] = V(<<"conditional-block">>)
  THEN remove_header(h, "Referer")
  ELSE IF ~Forges(a) THEN set_header(h, "Referer", a.value["hide-referrer"])
  ELSE IF Has(h, "Host") THEN set_header(h, "Referer", Forged(get_header(h, "Host")))
  ELSE h

apply_hide_if_modified_since(h, a) ==
  LET v == a.value["hide-if-modified-since"]
  IN IF Blocks(a, "hide-if-modified-since") THEN remove_header(h, "If-Modified-Since")
     ELSE IF /\ "hide-if-modified-since" \in DOMAIN a.value
             /\ v.off = 0 /\ v.text[1] \in Numerals
     THEN set_header(h, "If-Modified-Since", V(<<Now, v.text[1]>>))
     ELSE h

apply_change_x_forwarded_for(h, a, client) ==
  LET name == "X-Forwarded-For"
      option == "change-x-forwarded-for"
  IN IF Blocks(a, option) THEN remove_header(h, name)
     ELSE IF option \in DOMAIN a.value /\ a.value[option] = V(<<"add">>)
     THEN set_header(h, name,
            V((IF Has(h, name) THEN get_header(h, name).text ELSE <<>>) \o <<client>>))
     ELSE h

apply_prevent_compression(h, a) ==
  IF "prevent-compression" \in a.on THEN set_header(h, "Accept-Encoding", V(<<"identity">>))
  ELSE h

apply_session_cookies_only(h, a) ==
  IF "session-cookies-only" \in a.on /\ Has(h, "Cookie")
  THEN set_header(h, "Cookie",
         V(SelectSeq(get_header(h, "Cookie").text, LAMBDA w : w \notin Secure)))
  ELSE h

\* A header to add is a name and a value, or else it is passed over.
Adds(v) == Len(v.text) > 1

apply_add_header(h, a) ==
  LET args == Arguments(a, "add-header")
      added[i \in 0 .. Len(args)] ==
        IF i = 0 THEN h
        ELSE IF Adds(args[i]) THEN set_header(added[i - 1], args[i].text[1], V(Tail(args[i].text)))
        ELSE added[i - 1]
  IN added[Len(args)]

\* +client-header-filter is a name that parse_action_string does not know, so no
\* header filter runs.
apply_client_header_crunching(h, a) ==
  remove_if(remove_if(crunch(h, a, "crunch-client-header"),
                      a, "crunch-outgoing-cookies", "Cookie"),
            a, "crunch-if-none-match", "If-None-Match")

apply_client_header_hiding(h, a, client) ==
  LET agent == overwrite(hide(apply_hide_referrer(h, a), a, "hide-user-agent", "User-Agent"),
                         a, "send-user-agent", "User-Agent")
      from == hide(hide(agent, a, "hide-from-header", "From"),
                   a, "hide-accept-language", "Accept-Language")
      forwarded ==
        apply_change_x_forwarded_for(apply_hide_if_modified_since(from, a), a, client)
  IN apply_session_cookies_only(apply_prevent_compression(forwarded, a), a)

\* Mistake: headers are added before the others are hidden.
apply_client_header_actions_early(h, a, client) ==
  apply_client_header_hiding(
    apply_add_header(apply_client_header_crunching(h, a), a), a, client)

apply_client_header_actions(h, a, client) ==
  apply_add_header(
    apply_client_header_hiding(apply_client_header_crunching(h, a), a, client), a)

-----------------------------------------------------------------------------
\* The response.

apply_overwrite_last_modified(h, a) ==
  LET v == a.value["overwrite-last-modified"]
  IN IF Blocks(a, "overwrite-last-modified") THEN remove_header(h, "Last-Modified")
     ELSE IF /\ "overwrite-last-modified" \in DOMAIN a.value
             /\ v \in {V(<<"reset-to-request-time">>), V(<<"randomize">>)}
     THEN set_header(h, "Last-Modified", V(<<Now>> \o v.text))
     ELSE h

\* The lifetime a cookie has already is replaced.
Limited(cookie, age) ==
  LET old == {i \in DOMAIN cookie.text : \E n \in DOMAIN MaxAge : cookie.text[i] = MaxAge[n]}
  IN IF old = {} THEN V(Append(cookie.text, age)) ELSE V([cookie.text EXCEPT ![Min(old)] = age])

apply_limit_cookie_lifetime(h, a) ==
  IF "limit-cookie-lifetime" \in DOMAIN a.value /\ Has(h, "Set-Cookie")
  THEN set_header(h, "Set-Cookie",
         Limited(get_header(h, "Set-Cookie"), MaxAge[a.value["limit-cookie-lifetime"].text[1]]))
  ELSE h

apply_force_text_mode(h, a) ==
  IF "force-text-mode" \in a.on THEN set_header(h, "Content-Type", V(<<"text/plain">>)) ELSE h

apply_server_header_actions(h, a) ==
  LET crunched == remove_if(crunch(h, a, "crunch-server-header"),
                            a, "crunch-incoming-cookies", "Set-Cookie")
      hidden == hide(crunched, a, "hide-content-disposition", "Content-Disposition")
  IN overwrite(apply_overwrite_last_modified(hidden, a),
               a, "content-type-overwrite", "Content-Type")

\* Mistake: the text mode is overwritten with the rest.
apply_action_to_response_early(h, a) ==
  apply_limit_cookie_lifetime(apply_server_header_actions(apply_force_text_mode(h, a), a), a)

\* A redirect is only logged, and of an image that is blocked no request is
\* forwarded.
apply_action_to_response(h, a) ==
  apply_force_text_mode(apply_limit_cookie_lifetime(apply_server_header_actions(h, a), a), a)

-----------------------------------------------------------------------------
VARIABLES
  tokens,     \* the actions of the rule for this URL, as they are written
  action,     \* the action they make
  stage,      \* "request", "forwarded", "answered" or "stopped"
  request,    \* the headers the client sent
  sent,       \* those that went to the server
  response,   \* the headers the server sent
  delivered   \* those that went to the client

vars == <<tokens, action, stage, request, sent, response, delivered>>

Client == "client"

Init ==
  /\ tokens \in {s \in Sections : \A i \in DOMAIN s : ~Panics(s[i]) /\ ~Malformed(s[i])}
  /\ action = parse_action_string(tokens)
  /\ stage = "request"
  /\ request = <<>> /\ sent = <<>> /\ response = <<>> /\ delivered = <<>>

\* handle_http_request answers by itself where the rule blocks or redirects.
Stops(a) == "block" \in a.on \/ "redirect" \in DOMAIN a.value

Stop(h) ==
  /\ stage = "request" /\ Stops(action)
  /\ stage' = "stopped"
  /\ request' = h
  /\ UNCHANGED <<tokens, action, sent, response, delivered>>

Forward(h) ==
  /\ stage = "request" /\ ~Stops(action)
  /\ stage' = "forwarded"
  /\ request' = h
  /\ sent' = apply_client_header_actions(h, action, Client)
  /\ UNCHANGED <<tokens, action, response, delivered>>

Answer(h) ==
  /\ stage = "forwarded"
  /\ stage' = "answered"
  /\ response' = h
  /\ delivered' = apply_action_to_response(h, action)
  /\ UNCHANGED <<tokens, action, request, sent>>

Next ==
  \/ \E h \in Requests : Stop(h) \/ Forward(h)
  \/ \E h \in Responses : Answer(h)

Spec == Init /\ [][Next]_vars

-----------------------------------------------------------------------------

\* What a rule says, as it is written: the argument is what stands in the braces,
\* wherever the code cuts it out.

Says(option) == V(action.value[option].text)

Written(option, word) ==
  option \in DOMAIN action.value /\ action.value[option].text = <<word>>

Named(list, name) == \E v \in ToSet(Arguments(action, list)) : name \in NamesWith[v.text]

\* What the code keeps of the argument is not what the rule says.
Miscut(option) == option \in DOMAIN action.value /\ action.value[option].off # 0

MiscutNames(list) ==
  UNION {NamesWith[v.text] : v \in {w \in ToSet(Arguments(action, list)) : w.off # 0}}

-----------------------------------------------------------------------------
\* What a rule says of a header of the request: the values it has in the end, or
\* nothing.

Added == Arguments(action, "add-header")

Adding(name) == {i \in DOMAIN Added : Adds(Added[i]) /\ Added[i].text[1] = name}

HiddenBy ==
  [n \in {"User-Agent", "From", "Accept-Language", "Referer"} |->
     CASE n = "User-Agent" -> "hide-user-agent"
       [] n = "From" -> "hide-from-header"
       [] n = "Accept-Language" -> "hide-accept-language"
       [] n = "Referer" -> "hide-referrer"]

ChangedBy ==
  [n \in {"If-Modified-Since", "X-Forwarded-For"} |->
     CASE n = "If-Modified-Since" -> "hide-if-modified-since"
       [] n = "X-Forwarded-For" -> "change-x-forwarded-for"]

Withheld(name) ==
  \/ Named("crunch-client-header", name)
  \/ name = "Cookie" /\ "crunch-outgoing-cookies" \in action.on
  \/ name = "If-None-Match" /\ "crunch-if-none-match" \in action.on

\* Of the header as the client sent it.
Passed(name) ==
  IF Withheld(name) \/ ~Has(request, name) THEN <<>>
  ELSE IF name = "Cookie" /\ "session-cookies-only" \in action.on
  THEN <<V(SelectSeq(get_header(request, name).text, LAMBDA w : w \notin Secure))>>
  ELSE Values(request, name)

RuledReferer ==
  IF \E w \in {"block", "conditional-block"} : Written("hide-referrer", w) THEN <<>>
  ELSE IF ~ \E w \in {"forge", "conditional-forge"} : Written("hide-referrer", w)
  THEN <<Says("hide-referrer")>>
  ELSE IF Has(request, "Host") /\ ~Withheld("Host") THEN <<Forged(get_header(request, "Host"))>>
  ELSE Passed("Referer")

\* A date that is so many seconds from now, and the client behind those before it.
RuledChange(name) ==
  LET text == Says(ChangedBy[name]).text
  IN IF Written(ChangedBy[name], "block") THEN <<>>
     ELSE IF name = "If-Modified-Since" /\ text # <<>> /\ text[1] \in Numerals
     THEN <<V(<<Now, text[1]>>)>>
     ELSE IF name = "X-Forwarded-For" /\ text = <<"add">>
     THEN <<V((IF Passed(name) = <<>> THEN <<>> ELSE Passed(name)[1].text) \o <<Client>>)>>
     ELSE Passed(name)

RuledRequest(name) ==
  IF Adding(name) # {} THEN <<V(Tail(Added[Max(Adding(name))].text))>>
  ELSE IF name = "Accept-Encoding" /\ "prevent-compression" \in action.on
  THEN <<V(<<"identity">>)>>
  ELSE IF name = "User-Agent" /\ "send-user-agent" \in DOMAIN action.value
  THEN <<Says("send-user-agent")>>
  ELSE IF name = "Referer" /\ "hide-referrer" \in DOMAIN action.value THEN RuledReferer
  ELSE IF name \in DOMAIN HiddenBy /\ Written(HiddenBy[name], "block") THEN <<>>
  ELSE IF name \in DOMAIN HiddenBy /\ HiddenBy[name] \in DOMAIN action.value
  THEN <<Says(HiddenBy[name])>>
  ELSE IF name \in DOMAIN ChangedBy /\ ChangedBy[name] \in DOMAIN action.value
  THEN RuledChange(name)
  ELSE Passed(name)

Touched(name) ==
  \/ Adding(name) # {} \/ Withheld(name)
  \/ name \in DOMAIN HiddenBy /\ HiddenBy[name] \in DOMAIN action.value
  \/ name \in DOMAIN ChangedBy /\ ChangedBy[name] \in DOMAIN action.value
  \/ name = "User-Agent" /\ "send-user-agent" \in DOMAIN action.value
  \/ name = "Accept-Encoding" /\ "prevent-compression" \in action.on
  \/ name = "Cookie" /\ "session-cookies-only" \in action.on

\* What the server is sent: of each header what the rule says, whatever else the
\* rule does, and the headers it does not touch in the client's order.  This is not
\* said of a header whose option has an argument that the loader cuts wrongly.
RequestAsRuled ==
  stage = "forwarded" =>
    /\ \A n \in Names(request) \union Names(sent) :
         \/ Values(sent, n) = RuledRequest(n)
         \/ n \in DOMAIN ChangedBy /\ Miscut(ChangedBy[n])
    /\ LET touched == {n \in Names(request) \union Names(sent) : Touched(n)}
       IN Drop(sent, touched) = Drop(request, touched)

Redated == \E w \in {"reset-to-request-time", "randomize"} : Written("overwrite-last-modified", w)

\* Of the header as the server sent it.
Returned(name) ==
  IF \/ Named("crunch-server-header", name)
     \/ name = "Set-Cookie" /\ "crunch-incoming-cookies" \in action.on
  THEN <<>>
  ELSE Values(response, name)

RuledResponse(name) ==
  IF name = "Content-Type" /\ "force-text-mode" \in action.on THEN <<V(<<"text/plain">>)>>
  ELSE IF name = "Content-Type" /\ "content-type-overwrite" \in DOMAIN action.value
  THEN <<Says("content-type-overwrite")>>
  ELSE IF name = "Last-Modified" /\ Written("overwrite-last-modified", "block") THEN <<>>
  ELSE IF name = "Last-Modified" /\ Redated
  THEN <<V(<<Now>> \o Says("overwrite-last-modified").text)>>
  ELSE IF name = "Content-Disposition" /\ Written("hide-content-disposition", "block") THEN <<>>
  ELSE IF name = "Content-Disposition" /\ "hide-content-disposition" \in DOMAIN action.value
  THEN <<Says("hide-content-disposition")>>
  ELSE Returned(name)

\* What the client is sent: of each header what the rule says, but for cookies
\* whose lifetime is limited.  Nor is it said of a header whose option, or of one
\* whose name, stands in an argument that the loader cuts wrongly.
ResponseAsRuled ==
  stage = "answered" =>
    \A n \in Names(response) \union Names(delivered) :
      \/ Values(delivered, n) = RuledResponse(n)
      \/ n = "Set-Cookie" /\ "limit-cookie-lifetime" \in DOMAIN action.value
           /\ "crunch-incoming-cookies" \notin action.on
      \/ n = "Content-Disposition" /\ Miscut("hide-content-disposition")
      \/ n \in MiscutNames("crunch-server-header")

-----------------------------------------------------------------------------
\* "fully compatible with the original Privoxy configuration files, action files, and
\* filter files": the same of every header but the cookies, whatever the argument of
\* its option.  The code does not do it.
HeadersAsWritten ==
  /\ stage = "forwarded" =>
       \A n \in Names(request) \union Names(sent) : Values(sent, n) = RuledRequest(n)
  /\ stage = "answered" =>
       \A n \in (Names(response) \union Names(delivered)) \ {"Set-Cookie"} :
         Values(delivered, n) = RuledResponse(n)
=============================================================================
