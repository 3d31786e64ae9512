------------------------------ MODULE MCLoading ------------------------------
(* A small instance of Loading.                                                *)
EXTENDS Loading

\* A regular expression is one that finds an "a" anywhere in the path.
MCRegex(path, pattern) == Contains(path, "a")

MCTokens ==
  { Action("+", "block"), Action("-", "block"), Action("+", "server-header-filter"),
    ActionWith("+", "filter", <<"f">>), ActionWith("-", "filter", <<"f">>),
    ActionWith("+", "handle-as-image", <<"f">>),
    ActionWith("+", "delay-response", <<"7">>),
    ActionWith("+", "limit-cookie-lifetime", <<"7">>),
    ActionWith("+", "set-image-blocker", <<>>),
    ActionWith("+", "forward-override", <<"forward-socks5", "gw", ".">>),
    ActionWith("+", "forward-override", <<"forward", "bad">>),
    ActionWith("+", "limit-connect", <<"443", "8000-8090">>) }

Ex == <<"e">>
Www == <<"w", "e">>
Com == <<"c">>

MCPatterns ==
  { Pattern(TRUE, <<>>, TRUE, <<>>),             \* .
    Pattern(TRUE, <<Ex, Com>>, FALSE, <<>>),     \* .e.c
    Pattern(FALSE, <<<<"*", "e">>>>, TRUE, <<>>), \* *e.
    Pattern(FALSE, <<Www, Com>>, FALSE, <<"/">>),
    Pattern(FALSE, <<Www, Com>>, FALSE, <<"/", "a">>),
    PathRegex(Pattern(FALSE, <<>>, FALSE, <<"/", "*">>)) }

Get(host, path, form, port) == [host |-> host, path |-> path, form |-> form, port |-> port]

MCRequests ==
  { Get(<<Ex, Com>>, <<"/">>, "origin", 80),
    Get(<<Www, Com>>, <<"/", "a">>, "origin", 80),
    Get(<<Ex, Ex, Com>>, <<"/", "b">>, "origin", 80),
    Get(<<Www, Com>>, <<"/", "a">>, "absolute", 80),
    Get(<<Www, Com>>, <<"/">>, "connect", 443) }

MCRanges == ("443" :> <<443, 443>>) @@ ("8000-8090" :> <<8000, 8090>>)
MCProxy == ("." :> "none") @@ ("gw" :> "gw")

MCLines ==
  { Line("socket-timeout", <<"7">>), Line("connection-timeout", <<"9">>),
    Line("toggle", <<"maybe">>), Line("listen-address", <<"8119">>),
    Line("deny-access", <<"10/8">>), Line("permit-access", <<"*">>),
    Line("permit-access", <<"10.1/16">>),
    Line("forward", <<Pattern(FALSE, <<Www, Com>>, FALSE, <<>>), "gw">>) }

MCBool == ("yes" :> TRUE) @@ ("no" :> FALSE)
MCNumber == ("7" :> 7) @@ ("9" :> 9)
MCLevel == ("1" :> "request")
MCListen == ("8118" :> "127.0.0.1:8118") @@ ("8119" :> "127.0.0.1:8119")
MCNet ==
  ("10/8" :> [family |-> 4, bits |-> <<1, 0, 0>>, mask |-> <<1, 0, 0>>])
  @@ ("10.1/16" :> [family |-> 4, bits |-> <<1, 1, 0>>, mask |-> <<1, 1, 0>>])
MCClients ==
  { [family |-> 4, bits |-> <<1, 1, 0>>], [family |-> 4, bits |-> <<1, 0, 1>>],
    [family |-> 6, bits |-> <<1, 1, 0>>] }
=============================================================================
