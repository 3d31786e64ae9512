------------------------------ MODULE MCCgiPages ------------------------------
(* A small instance of CgiPages: two connections and a handful of templates that *)
(* nest, repeat, include and break off.                                          *)
EXTENDS CgiPages

\* A template is put together of these.
Only(kind, name) == <<Written(<<Tok(kind, name)>>)>>
Text(name) == Only("text", name)
Sym(name) == Only("sym", name)
Cond(name, yes, no) ==
  Only("then", name) \o yes \o Only("else", name) \o no \o Only("endif", name)
Block(name, yes) == Only("start", name) \o yes \o Only("end", name)
Stray(kind, name) == Only(kind, name)
Include(name) == <<IncludeOf(name)>>
Remark == <<Comment>>

Names == {"enabled-display", "disabled", "have-no-stats", "have-stats"}

Leaf == Sym("requests-received")

\* A condition or block in each branch of another, on every pair of names.
Nested ==
  UNION { { Cond(m, Cond(n, Text("a"), Text("b")) \o Text("c"), Leaf) \o Block(n, Text("d")),
            Block(m, Text("a") \o Cond(n, Text("b"), <<>>) \o Text("c"))
              \o Cond(m, <<>>, Block(n, Text("d"))),
            Block(m, Block(n, Leaf) \o Text("a")) \o Cond(n, Text("b"), Leaf) }
          : m \in Names, n \in {"disabled", "have-stats"} }

Odd ==
  { Remark \o Include("part") \o Sym("unknown") \o Include("gone"),
    Text("a") \o Cond("disabled", Include("part"), Leaf) \o Stray("then", "disabled")
      \o Cond("disabled", Text("b"), Text("c")),
    Block("enabled-display", Leaf) \o Stray("start", "have-stats") \o Text("a"),
    Cond("have-stats", Leaf, <<>>) \o Stray("dash", "have-stats") \o Block("disabled", Leaf),
    Sym("enabled-display") \o Block("have-adminaddr-info", Text("a")) \o Sym("requests-blocked")
      \o Stray("endif", "disabled") \o Stray("end", "have-stats") \o Stray("else", "a"),
    Sym("disabled") \o Sym("have-stats") \o Sym("have-no-stats") \o Sym("have-adminaddr-info") }

Part == Remark \o Text("p") \o Include("part") \o Block("disabled", Text("q"))

MCDirectories ==
  { "show-status" :> t @@ "part" :> Part : t \in Nested \cup Odd }
  \cup { "default" :> Leaf }

MCSettings ==
  { [admin |-> a, toggle |-> ~ a, ports |-> {"8118"}] : a \in BOOLEAN }

MCRequests ==
  { [method |-> "GET", host |-> "privoxy", port |-> "8118", path |-> p] :
      p \in {"/", "/status", "/toggle"} }
  \cup { [method |-> "POST", host |-> "localhost", port |-> "8118", path |-> "/eas"],
         [method |-> "GET", host |-> "localhost", port |-> "80", path |-> "/"],
         [method |-> "GET", host |-> "other", port |-> "8118", path |-> "/status"] }

Alike == Permutations(Conn)
=============================================================================
