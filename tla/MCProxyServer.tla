---------------------------- MODULE MCProxyServer ----------------------------
(* Small instances of ProxyServer.                                             *)
EXTENDS ProxyServer

Limited(n) == [max |-> n, denied |-> {}]

\* A limit of one or two clients, and an access list that denies one peer.
MCConfigs ==
  {Limited(1), Limited(2)} \union {[max |-> 2, denied |-> {c}] : c \in Conns}

OneConfig == {Limited(1)}
=============================================================================
