------------------------------ MODULE MCExchange ------------------------------
(* Small instances of Exchange: each kind of request, each kind of route.       *)
EXTENDS Exchange

Ask(kind, head, body, target, wellformed) ==
  [kind |-> kind, head |-> head, body |-> body, target |-> target,
   wellformed |-> wellformed]

MCRequests ==
  { Ask("cgi", 1, 0, "path", TRUE),
    Ask("connect", 1, 2, "path", TRUE),
    Ask("http", 2, 1, "absolute", TRUE),
    Ask("http", 1, 0, "path", TRUE),
    Ask("http", 1, 0, "path", FALSE) }

Via(type, gateway, forward) ==
  [type |-> type, gateway |-> gateway, forward |-> forward]

MCSpecs ==
  { Via("direct", FALSE, FALSE), Via("direct", FALSE, TRUE),
    Via("webserver", FALSE, TRUE),
    Via("socks4", TRUE, FALSE), Via("socks5", TRUE, TRUE) }

Posts == { Ask("http", 1, 2, "absolute", TRUE) }
Directly == { Via("direct", FALSE, FALSE) }
=============================================================================
