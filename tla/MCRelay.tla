------------------------------- MODULE MCRelay -------------------------------
(* Small instances of Relay: one answer of every framing, cut or malformed.    *)
EXTENDS Relay

Answer(head, kinds, framing, coding, text, parses) ==
  [head |-> head, kinds |-> kinds, framing |-> framing, declared |-> 2,
   coding |-> coding, text |-> text, parses |-> parses]

TwoData == <<"data", "data">>

MCResponses ==
  { Answer(2, TwoData, "length", "plain", TRUE, TRUE),
    Answer(1, TwoData, "length", "gzip", TRUE, TRUE),
    Answer(1, TwoData, "length", "plain", FALSE, TRUE),
    Answer(1, TwoData, "eof", "deflate", TRUE, TRUE),
    Answer(1, <<"size", "data", "data", "last", "end">>, "chunked", "plain", TRUE, TRUE),
    Answer(1, <<"size", "data", "size", "data", "last">>, "chunked", "gzip", TRUE, TRUE),
    Answer(1, <<"size", "data", "bad">>, "chunked", "plain", TRUE, TRUE),
    Answer(1, <<"size", "data", "bad", "last">>, "chunked", "plain", TRUE, TRUE),
    Answer(1, <<"data">>, "eof", "plain", TRUE, FALSE) }
=============================================================================
