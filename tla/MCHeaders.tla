------------------------------- MODULE MCHeaders -------------------------------
(* A small instance of Headers.                                                 *)
EXTENDS Headers

MCTokens ==
  { Action("+", "block"), Action("+", "crunch-outgoing-cookies"),
    Action("+", "session-cookies-only"), Action("+", "prevent-compression"),
    Action("+", "hide-referrer"), ActionWith("+", "hide-referrer", <<"forge">>),
    ActionWith("+", "hide-referrer", <<"conditional-block">>),
    ActionWith("+", "hide-user-agent", <<"agent">>),
    ActionWith("+", "send-user-agent", <<"other">>),
    ActionWith("+", "crunch-client-header", <<"Host">>),
    ActionWith("+", "crunch-client-header", <<"Agent">>),
    ActionWith("+", "add-header", <<"Cookie", "mine">>),
    ActionWith("+", "add-header", <<"User-Agent", "mine">>),
    ActionWith("+", "change-x-forwarded-for", <<"add">>),
    ActionWith("+", "hide-if-modified-since", <<"9">>),
    Action("+", "server-header-filter"),
    Action("+", "crunch-incoming-cookies"), Action("+", "force-text-mode"),
    ActionWith("+", "limit-cookie-lifetime", <<"7">>),
    ActionWith("+", "content-type-overwrite", <<"text/html">>),
    ActionWith("+", "overwrite-last-modified", <<"block">>),
    ActionWith("+", "overwrite-last-modified", <<"randomize">>),
    ActionWith("+", "crunch-server-header", <<"Server">>),
    ActionWith("+", "hide-content-disposition", <<"block">>) }

MCSections == UNION {[1 .. n -> MCTokens] : n \in 0 .. 3}

MCRequests ==
  { << Header("Host", V(<<"a", "443">>)), Header("User-Agent", V(<<"browser">>)),
       Header("X-Forwarded-Host", V(<<"b">>)), Header("Cookie", V(<<"sid", "secure">>)),
       Header("Referer", V(<<"from">>)), Header("Accept-Encoding", V(<<"gzip">>)) >>,
    << Header("Referer", V(<<"from">>)), Header("Host", V(<<"a">>)),
       Header("X-Forwarded-For", V(<<"c">>)), Header("X-Forwarded-For", V(<<"d">>)),
       Header("If-Modified-Since", V(<<"then">>)) >> }

MCResponses ==
  { << Header("Server", V(<<"s">>)), Header("Set-Cookie", V(<<"sid">>)),
       Header("Content-Type", V(<<"image/gif">>)), Header("Set-Cookie", V(<<"lang">>)) >>,
    << Header("Last-Modified", V(<<"then">>)), Header("Content-Disposition", V(<<"inline">>)),
       Header("Set-Cookie", V(<<"sid", "Max-Age=9">>)) >> }

MCNamesWith ==
  (<<"Host">> :> {"Host", "X-Forwarded-Host"}) @@ (<<"Agent">> :> {"User-Agent"})
    @@ (<<"Server">> :> {"Server"})
MCMaxAge == ("7" :> "Max-Age=7") @@ ("9" :> "Max-Age=9")
NoRange == <<>>
=============================================================================
