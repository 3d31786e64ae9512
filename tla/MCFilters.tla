------------------------------- MODULE MCFilters -------------------------------
(* A small instance of Filters.                                                 *)
EXTENDS Filters

Header(type) == <<type, Blank, "f">>

MCTypes ==
  ("filter:" :> "content") @@ ("client-header-tagger:" :> "client-header-tagger")
  @@ ("server-header-tagger:" :> "server-header-tagger")

\* The name of an external filter's header is not known, and "s" after it is a job.
MCLines ==
  { Header("filter:"),
    <<"client-header-tagger:", "f", Blank, "s", "#", "a">>,
    <<"server-header-tagger:", Blank, "g", Blank>>,
    Header("external-content-filter:"),
    <<"s", "/", "b", "b", "/", "/">>,
    <<"S", "/", "a", "\\", "/", "/", "$host", "b", "/", "D">>,
    <<"s", "/", "a", "/", "b", "$path", "c", "b", "$url">>,
    <<"s", "/", "b", "/", "$path", "\\", "n", "$url", "/", "g", "D", "T">>,
    <<"s", "\\", "#", "a", "\\", "\\", "\\", "#", "b", "\\", "\\", "#", "a", "#">>,
    <<"s", "|", "a", "\\", "\\", "|", "c", "\\", "\\", Blank>>,
    <<"s", "|", "(", "a", "|", "b", "|", "D">> }

\* The patterns of these jobs but "(a", which is no regular expression: a bracket is
\* not closed.  In one a backslash escapes another.
MCLiteral ==
  (<<"b", "b">> :> <<"b", "b">>) @@ (<<"a", "/">> :> <<"a", "/">>) @@ (<<"a">> :> <<"a">>)
  @@ (<<"b">> :> <<"b">>) @@ (<<"a", "\\", "\\">> :> <<"a", "\\">>)

Naming(content, client, server) ==
  ("content" :> content) @@ ("client-header-tagger" :> client)
  @@ ("server-header-tagger" :> server)

MCRules ==
  { Naming(<< <<"f">> >>, << <<"f">> >>, << <<"g">> >>),
    Naming(<< <<"g">>, <<"f">>, <<"f">> >>, <<>>, << <<"f">>, <<"g">> >>) }

MCUrls ==
  { [host |-> <<"h">>, path |-> <<"/", "a">>], [host |-> <<"$path">>, path |-> <<>>] }

MCRequests == { << <<"b", "b">>, <<"a", "/">> >> }

MCAnswers ==
  { [headers |-> << <<"b", "b">>, <<"a", "c">> >>, body |-> <<"a", "/", "b", "b", "b", "a", "\\">>,
     text |-> TRUE],
    [headers |-> <<>>, body |-> <<"a">>, text |-> FALSE] }
=============================================================================
