----------------------------- MODULE RelayProofs -----------------------------
(* Proofs about Relay, for every set of answers the server may give, every set *)
(* of rules and every read size.                                               *)
EXTENDS Relay, FiniteSetTheorems, TLAPS

\* What an answer's header section and units are, for any answer.
LEMMA Answers ==
  ASSUME NEW r \in Responses
  PROVE  /\ r.head \in Nat \ {0}
         /\ r.kinds \in Seq({"data", "size", "bad", "last", "end"})
         /\ r.coding \in {"plain", "gzip", "deflate"}
         /\ r.declared \in Nat
         /\ Total(r) \in Nat
         /\ r.head <= Total(r)
         /\ \A u \in Data(r) : u \in Int /\ r.head < u
  <1>1. Response(r)
    BY RelayAssumption
  <1>2. /\ r.head \in Nat \ {0}
        /\ r.kinds \in Seq({"data", "size", "bad", "last", "end"})
        /\ r.coding \in {"plain", "gzip", "deflate"}
        /\ r.declared \in Nat
    BY <1>1 DEF Response
  <1>3. Len(r.kinds) \in Nat
    BY <1>2
  <1>4. Total(r) \in Nat /\ r.head <= Total(r)
    BY <1>2, <1>3 DEF Total
  <1>5. \A u \in Data(r) : u \in Int /\ r.head < u
    BY <1>2, <1>4 DEF Data, Kind
  <1> QED
    BY <1>2, <1>4, <1>5

\* The size of a body is a number.
LEMMA BodySize ==
  ASSUME NEW n \in Nat, NEW b \in SUBSET (1 .. n)
  PROVE  Cardinality(b) \in Nat
  <1>1. IsFiniteSet(1 .. n)
    BY FS_Interval
  <1>2. IsFiniteSet(b)
    BY <1>1, FS_Subset
  <1> QED
    BY <1>2, FS_CardinalityType

-----------------------------------------------------------------------------
\* Every step keeps the types: forward_response never counts more bytes than
\* the server has sent and never puts one in the body it has not read.
LEMMA TypeStep == TypeOK /\ [Next]_vars => TypeOK'
  <1> SUFFICES ASSUME TypeOK, [Next]_vars PROVE TypeOK'
    OBVIOUS
  <1> USE RelayAssumption
  <1>0. /\ resp.head \in Nat \ {0}
        /\ resp.coding \in {"plain", "gzip", "deflate"}
        /\ resp.declared \in Nat
        /\ Total(resp) \in Nat
    BY Answers DEF TypeOK
  <1>a. sent \in Nat /\ taken \in Nat
    BY <1>0 DEF TypeOK
  <1>1. CASE Send
    BY <1>0, <1>1 DEF Send, TypeOK, setting, message
  <1>2. CASE ServerEnds
    BY <1>2 DEF ServerEnds, TypeOK, setting, message
  <1>3. CASE ClientGone
    BY <1>3 DEF ClientGone, TypeOK, serverVars, setting, message
  <1>4. CASE Reload
    BY <1>4 DEF Reload, TypeOK, serverVars, message
  <1>5. ASSUME NEW n \in 1 .. ReadMax, ReadHead(n) PROVE TypeOK'
    <2>1. n \in Nat /\ taken' = taken + n /\ taken' \in 0 .. sent /\ UNCHANGED sent
      BY <1>5, <1>a DEF ReadHead, Readable, serverVars
    <2>2. UNCHANGED <<resp, server, client, rule, enabled, action, fetch, filtered, size, out>>
      BY <1>5 DEF ReadHead, serverVars, setting
    <2>3. pc' \in {"head", "raw", "body", "rewrite"}
      BY <1>5 DEF ReadHead, ParsedHead, HeadParsed
    <2>4. body' \subseteq 1 .. taken'
      <3>1. body' = body \/ body' = resp.head + 1 .. taken'
        BY <1>5 DEF ReadHead, ParsedHead, HeadParsed
      <3>2. body \subseteq 1 .. taken'
        BY <1>a, <2>1 DEF TypeOK
      <3>3. resp.head + 1 .. taken' \subseteq 1 .. taken'
        BY <1>0, <1>a, <2>1
      <3> QED
        BY <3>1, <3>2, <3>3
    <2>5. hdr' \in [length : Int, chunked : BOOLEAN, coding : {"none", "plain", "gzip", "deflate"}]
      <3> DEFINE announced == IF resp.framing = "length" THEN resp.declared ELSE None
      <3>1. announced \in Int
        BY <1>0 DEF None
      <3> DEFINE chunked == resp.framing = "chunked"
      <3>2. chunked \in BOOLEAN
        OBVIOUS
      <3>3. \/ hdr' = hdr
            \/ hdr' = [length |-> announced, chunked |-> chunked, coding |-> resp.coding]
        BY <1>5 DEF ReadHead, ParsedHead, HeadParsed
      <3>4. hdr \in [length : Int, chunked : BOOLEAN, coding : {"none", "plain", "gzip", "deflate"}]
        BY DEF TypeOK
      <3> HIDE DEF announced, chunked
      <3> QED
        BY <1>0, <3>1, <3>2, <3>3, <3>4
    <2>6. filtered \subseteq 1 .. taken'
      BY <1>a, <2>1 DEF TypeOK
    <2> QED
      BY <2>1, <2>2, <2>3, <2>4, <2>5, <2>6 DEF TypeOK
  <1>6. CASE HeadEof
    BY <1>6 DEF HeadEof, TypeOK, serverVars, setting, message
  <1>7. CASE HeadFails
    BY <1>7 DEF HeadFails, TypeOK, serverVars, setting, message
  <1>8. CASE WriteRaw
    <2>1. 1 .. taken \in SUBSET (1 .. Total(resp))
      BY <1>0, <1>a DEF TypeOK
    <2> QED
      BY <1>8, <2>1, SMTT(30) DEF WriteRaw, Write, TypeOK, serverVars, setting, message
  <1>9. ASSUME NEW n \in 1 .. ReadMax, ReadBody(n) PROVE TypeOK'
    <2>1. n \in Nat /\ taken' = taken + n /\ taken' \in 0 .. sent /\ UNCHANGED sent
      BY <1>9, <1>a DEF ReadBody, Readable, serverVars
    <2>2. body \subseteq 1 .. taken' /\ filtered \subseteq 1 .. taken'
      BY <1>a, <2>1 DEF TypeOK
    <2> QED
      BY <1>9, <2>1, <2>2 DEF ReadBody, TypeOK, serverVars, setting, message
  <1>10. CASE FullBody
    <2>1. body' \in SUBSET (1 .. taken)
      BY <1>10, <1>0, <1>a, Answers DEF FullBody, Received, TypeOK
    <2>2. Cardinality(body') \in Int
      BY <2>1, <1>a, BodySize
    <2>3. hdr' \in [length : Int, chunked : BOOLEAN, coding : {"none", "plain", "gzip", "deflate"}]
      BY <1>10, <2>2 DEF FullBody, TypeOK
    <2> QED
      BY <1>10, <2>1, <2>3 DEF FullBody, TypeOK, serverVars, setting
  <1>11. CASE BodyFails
    BY <1>11 DEF BodyFails, TypeOK, serverVars, setting
  <1>12. ASSUME NEW decoded \in BOOLEAN, NEW edit \in {-1, 0, 1}, Finish(decoded, edit)
         PROVE  TypeOK'
    <2>1. Cardinality(body) \in Nat
      BY <1>a, BodySize DEF TypeOK
    <2>2. hdr' \in [length : Int, chunked : BOOLEAN, coding : {"none", "plain", "gzip", "deflate"}]
      <3>1. \/ hdr' = hdr
            \/ hdr' = [hdr EXCEPT !.coding = "plain", !.length = Cardinality(body)]
        BY <1>12 DEF Finish
      <3>2. Cardinality(body) \in Int
        BY <2>1
      <3> QED
        BY <3>1, <3>2 DEF TypeOK
    <2>3. size' \in Int /\ filtered' \in {body, {}}
      BY <1>12, <2>1 DEF Finish
    <2>4. (1 .. resp.head) \union body \in SUBSET (1 .. Total(resp))
      <3>1. resp.head <= Total(resp)
        BY Answers DEF TypeOK
      <3>2. taken <= Total(resp)
        BY <1>0, <1>a DEF TypeOK
      <3>3. 1 .. resp.head \subseteq 1 .. Total(resp) /\ 1 .. taken \subseteq 1 .. Total(resp)
        BY <1>0, <1>a, <3>1, <3>2
      <3> QED
        BY <3>3 DEF TypeOK
    <2>5. out' \in Seq(SUBSET (1 .. Total(resp))) /\ pc' \in {"relay", "failed"}
      <3>1. Write((1 .. resp.head) \union body, "relay")
        BY <1>12 DEF Finish
      <3>2. out \in Seq(SUBSET (1 .. Total(resp)))
        BY DEF TypeOK
      <3> QED
        BY <2>4, <3>1, <3>2 DEF Write
    <2>6. UNCHANGED <<resp, sent, server, client, rule, enabled, action, taken, body, fetch>>
      BY <1>12 DEF Finish, serverVars, setting
    <2> QED
      BY <2>2, <2>3, <2>5, <2>6 DEF TypeOK
  <1>13. ASSUME NEW n \in 1 .. ReadMax, Relay(n) PROVE TypeOK'
    <2>1. n \in Nat /\ taken' = taken + n /\ taken' \in 0 .. sent /\ UNCHANGED sent
      BY <1>13, <1>a DEF Relay, Readable, serverVars
    <2>2. body \subseteq 1 .. taken' /\ filtered \subseteq 1 .. taken'
      BY <1>a, <2>1 DEF TypeOK
    <2>3. taken + 1 .. taken + n \in SUBSET (1 .. Total(resp))
      BY <1>0, <1>a, <2>1 DEF TypeOK
    <2>4. out' \in Seq(SUBSET (1 .. Total(resp))) /\ pc' \in {"relay", "failed"}
      BY <1>13, <2>3, SMTT(30) DEF Relay, Write, TypeOK
    <2> QED
      BY <1>13, <2>1, <2>2, <2>4 DEF Relay, TypeOK, serverVars, setting, message
  <1>14. CASE RelayEnds
    BY <1>14 DEF RelayEnds, TypeOK, serverVars, setting, message
  <1>15. CASE UNCHANGED vars
    BY <1>15 DEF vars, TypeOK, serverVars, setting, message
  <1> QED
    BY <1>1, <1>2, <1>3, <1>4, <1>5, <1>6, <1>7, <1>8, <1>9, <1>10, <1>11, <1>12,
       <1>13, <1>14, <1>15 DEF Next, Proxy, Reads, Writes

LEMMA TypeInit == Init => TypeOK
  <1> SUFFICES ASSUME Init PROVE TypeOK
    OBVIOUS
  <1>1. Total(resp) \in Nat
    BY Answers DEF Init
  <1>2. out \in Seq(SUBSET (1 .. Total(resp)))
    BY DEF Init
  <1>3. rule \in Rules /\ action \in Rules \union {"none"}
    BY DEF Init
  <1> QED
    BY <1>1, <1>2, <1>3 DEF Init, TypeOK, None

\* Type correctness of forward_response for every instance.
THEOREM TypeCorrect == Spec => []TypeOK
  <1> QED
    BY TypeInit, TypeStep, PTL DEF Spec

-----------------------------------------------------------------------------
\* What each stage of forward_response has established, which the properties
\* of Relay do not say and need: nothing is written before the body is
\* decided, the body then is all that was read unless its fetch failed, and no
\* write ever runs ahead of what was read.
Stages ==
  /\ pc \in {"head", "raw"} => fetch = "no"
  /\ pc \in {"body", "rewrite"} => resp.head <= taken
  /\ pc \in {"head", "raw", "body", "rewrite"} => out = <<>>
  /\ pc = "body" => fetch = "no"
  /\ pc = "rewrite" /\ fetch = "no" => body = resp.head + 1 .. taken
  /\ pc = "rewrite" /\ fetch = "ok" => Received \subseteq body
  /\ \A i \in 1 .. Len(out) : out[i] \subseteq 1 .. taken

Promises ==
  /\ InOrder
  /\ LossOnlyAfterFailedFetch
  /\ PassThroughExact
  /\ CutOffOnlyByReset

LEMMA AppendedBlocks ==
  ASSUME NEW S, NEW s \in Seq(SUBSET S), NEW u \in SUBSET S
  PROVE  /\ Len(Append(s, u)) = Len(s) + 1
         /\ \A i \in 1 .. Len(s) : Append(s, u)[i] = s[i]
         /\ Append(s, u)[Len(s) + 1] = u
         /\ UNION {Append(s, u)[i] : i \in 1 .. Len(Append(s, u))}
            = (UNION {s[i] : i \in 1 .. Len(s)}) \union u
  <1>1. Len(s) \in Nat
    OBVIOUS
  <1>2. Len(Append(s, u)) = Len(s) + 1
    OBVIOUS
  <1>3. \A i \in 1 .. Len(s) : Append(s, u)[i] = s[i]
    OBVIOUS
  <1>4. Append(s, u)[Len(s) + 1] = u
    OBVIOUS
  <1>5. 1 .. Len(s) + 1 = (1 .. Len(s)) \union {Len(s) + 1}
    BY <1>1
  <1>6. UNION {Append(s, u)[i] : i \in 1 .. Len(s) + 1}
        = (UNION {s[i] : i \in 1 .. Len(s)}) \union u
    BY <1>3, <1>4, <1>5, Zenon
  <1> QED
    BY <1>2, <1>3, <1>4, <1>6

\* The two kinds of steps that matter to what was written: the first write,
\* and the relaying of units just read.
LEMMA FirstWrite ==
  ASSUME NEW u
  PROVE  /\ Append(<<>>, u) = <<u>>
         /\ UNION {<<u>>[i] : i \in 1 .. Len(<<u>>)} = u
  <1>1. Append(<<>>, u) = <<u>> /\ Len(<<u>>) = 1 /\ <<u>>[1] = u
    OBVIOUS
  <1>2. 1 .. 1 = {1}
    OBVIOUS
  <1> QED
    BY <1>1, <1>2, Zenon

\* The steps that change nothing the invariant speaks of, but for a server or
\* a client that goes away and an outcome.
Idling ==
  /\ UNCHANGED <<resp, pc, taken, body, fetch, hdr, out>>
  /\ server = "reset" => server' = "reset"
  /\ client = "gone" => client' = "gone"

LEMMA OutsideIdles ==
  ASSUME TypeOK, Send \/ ServerEnds \/ ClientGone \/ Reload \/ UNCHANGED vars
  PROVE  Idling
  BY DEF Idling, Send, ServerEnds, ClientGone, Reload, vars, serverVars, setting, message

LEMMA StagesStep == TypeOK /\ Stages /\ [Next]_vars => Stages'
  <1> SUFFICES ASSUME TypeOK, Stages, [Next]_vars PROVE Stages'
    OBVIOUS
  <1>t. TypeOK'
    BY TypeStep
  <1>0. /\ resp.head \in Nat \ {0} /\ taken \in Nat /\ ReadMax \in Nat
        /\ \A u \in Data(resp) : u \in Int /\ resp.head < u
    BY Answers, RelayAssumption DEF TypeOK
  <1>s. out \in Seq(SUBSET (1 .. Total(resp)))
    BY DEF TypeOK
  <1>1. CASE Send \/ ServerEnds \/ ClientGone \/ Reload \/ UNCHANGED vars
    BY <1>1, OutsideIdles DEF Idling, Stages, Received
  <1>2. ASSUME NEW n \in 1 .. ReadMax, ReadHead(n) PROVE Stages'
    <2>1. pc = "head" /\ out = <<>> /\ fetch = "no" /\ UNCHANGED <<resp, out, fetch>>
      BY <1>2 DEF ReadHead, Stages, serverVars
    <2>2. \/ pc' = "head"
          \/ /\ pc' \in {"body", "rewrite"} /\ resp.head <= taken'
             /\ body' = resp.head + 1 .. taken'
          \/ pc' = "raw"
      BY <1>0, <1>t, <1>2, <2>1 DEF ReadHead, ParsedHead, HeadParsed, TypeOK
    <2> QED
      BY <2>1, <2>2 DEF Stages
  <1>3. CASE HeadEof \/ HeadFails
    <2>1. /\ pc = "head" /\ pc' \in {"raw", "failed"}
          /\ UNCHANGED <<resp, taken, body, fetch, hdr, out>>
      BY <1>3 DEF HeadEof, HeadFails, serverVars, message
    <2> QED
      BY <2>1 DEF Stages
  <1>4. CASE WriteRaw
    <2>1. /\ pc = "raw" /\ out = <<>> /\ pc' \in {"relay", "failed"}
          /\ out' \in {<<>>, Append(<<>>, 1 .. taken)} /\ UNCHANGED <<resp, taken>>
      BY <1>4 DEF WriteRaw, Write, Stages, serverVars
    <2>2. \A i \in 1 .. Len(out') : out'[i] = 1 .. taken
      BY <2>1, FirstWrite
    <2> QED
      BY <2>1, <2>2 DEF Stages
  <1>5. ASSUME NEW n \in 1 .. ReadMax, ReadBody(n) PROVE Stages'
    <2>1. /\ pc = "body" /\ taken' = taken + n /\ out = <<>>
          /\ UNCHANGED <<resp, pc, fetch, hdr, out>>
      BY <1>5 DEF ReadBody, Stages, serverVars, message
    <2>2. resp.head <= taken' /\ fetch = "no"
      BY <1>0, <2>1 DEF Stages
    <2> QED
      BY <2>1, <2>2 DEF Stages
  <1>6. CASE FullBody
    <2>1. /\ pc = "body" /\ pc' = "rewrite" /\ fetch' = "ok"
          /\ UNCHANGED <<resp, taken, out>>
          /\ body' \in {Received, resp.head + 1 .. taken}
      BY <1>6 DEF FullBody, serverVars
    <2>2. Received \subseteq resp.head + 1 .. taken
      BY <1>0 DEF Received
    <2> QED
      BY <2>1, <2>2 DEF Stages, Received
  <1>7. CASE BodyFails
    <2>1. /\ pc = "body" /\ pc' = "rewrite" /\ fetch' = "failed"
          /\ UNCHANGED <<resp, taken, hdr, out>>
      BY <1>7 DEF BodyFails, serverVars
    <2> QED
      BY <2>1 DEF Stages
  <1>8. ASSUME NEW decoded \in BOOLEAN, NEW edit \in {-1, 0, 1}, Finish(decoded, edit)
        PROVE  Stages'
    <2> DEFINE units == (1 .. resp.head) \union body
    <2>1. /\ pc = "rewrite" /\ out = <<>> /\ pc' \in {"relay", "failed"}
          /\ out' \in {<<>>, Append(<<>>, units)} /\ UNCHANGED <<resp, taken>>
      BY <1>8 DEF Finish, Write, Stages, serverVars
    <2>2. resp.head <= taken /\ body \subseteq 1 .. taken
      BY <2>1 DEF Stages, TypeOK
    <2>3. units \subseteq 1 .. taken
      <3>1. 1 .. resp.head \subseteq 1 .. taken
        BY <1>0, <2>2
      <3> QED
        BY <2>2, <3>1
    <2>4. \A i \in 1 .. Len(out') : out'[i] = units
      <3> HIDE DEF units
      <3> QED
        BY <2>1, FirstWrite
    <2> QED
      BY <2>1, <2>3, <2>4 DEF Stages
  <1>9. ASSUME NEW n \in 1 .. ReadMax, Relay(n) PROVE Stages'
    <2> DEFINE units == taken + 1 .. taken + n
    <2>1. /\ pc = "relay" /\ pc' \in {"relay", "failed"} /\ taken' = taken + n
          /\ out' \in {out, Append(out, units)}
      BY <1>9 DEF Relay, Write
    <2>2. units \in SUBSET Int /\ units \subseteq 1 .. taken' /\ 1 .. taken \subseteq 1 .. taken'
      BY <1>0, <2>1
    <2>3. out \in Seq(SUBSET Int)
      BY <1>s
    <2>4. \A i \in 1 .. Len(out') : out'[i] = units \/ (i \in 1 .. Len(out) /\ out'[i] = out[i])
      <3> HIDE DEF units
      <3>1. Len(out) \in Nat
        BY <2>3
      <3>2. \A i \in 1 .. Len(out) + 1 : i \in 1 .. Len(out) \/ i = Len(out) + 1
        BY <3>1
      <3> QED
        BY <2>1, <2>2, <2>3, <3>2, AppendedBlocks
    <2>5. \A i \in 1 .. Len(out') : out'[i] \subseteq 1 .. taken'
      BY <2>2, <2>4 DEF Stages
    <2> QED
      BY <2>1, <2>5 DEF Stages
  <1>10. CASE RelayEnds
    <2>1. pc' \in {"done", "failed"} /\ UNCHANGED <<taken, out>>
      BY <1>10 DEF RelayEnds
    <2> QED
      BY <2>1 DEF Stages
  <1> QED
    BY <1>1, <1>2, <1>3, <1>4, <1>5, <1>6, <1>7, <1>8, <1>9, <1>10 DEF Next, Proxy, Reads, Writes

\* The properties of what was written, given what each stage has established.
LEMMA PromisesStep == TypeOK /\ Stages /\ Promises /\ [Next]_vars => Promises'
  <1> SUFFICES ASSUME TypeOK, Stages, Promises, [Next]_vars PROVE Promises'
    OBVIOUS
  <1>0. /\ resp.head \in Nat \ {0} /\ taken \in Nat /\ ReadMax \in Nat
        /\ \A u \in Data(resp) : u \in Int /\ resp.head < u
        /\ body \subseteq 1 .. taken /\ out \in Seq(SUBSET Int)
    BY Answers, RelayAssumption DEF TypeOK
  <1>1. CASE Send \/ ServerEnds \/ ClientGone \/ Reload \/ UNCHANGED vars
    <2>1. Idling /\ UNCHANGED <<Received, Delivered>>
      BY <1>1, OutsideIdles DEF Idling, Received, Delivered
    <2>2. client \in {"open", "gone"}
      BY DEF TypeOK
    <2> QED
      BY <2>1, <2>2 DEF Idling, Promises, InOrder, LossOnlyAfterFailedFetch,
         PassThroughExact, CutOffOnlyByReset
  \* Nothing is written before the body is decided.
  <1>2. CASE (\E n \in 1 .. ReadMax : ReadHead(n) \/ ReadBody(n)) \/ HeadEof \/ HeadFails
             \/ FullBody \/ BodyFails
    <2>1. /\ out = <<>> /\ out' = <<>> /\ UNCHANGED <<server, client>>
          /\ pc' \in {"head", "raw", "body", "rewrite", "failed"}
      BY <1>2 DEF ReadHead, ParsedHead, HeadParsed, ReadBody, HeadEof, HeadFails, FullBody, BodyFails,
         Stages, serverVars, message
    <2> QED
      BY <2>1 DEF Promises, InOrder, LossOnlyAfterFailedFetch, PassThroughExact,
         CutOffOnlyByReset
  \* The first write.
  <1>3. ASSUME NEW u, UNCHANGED <<resp, taken, fetch, server, client>>, out = <<>>,
               Write(u, "relay"),
               fetch # "failed" => Received \subseteq u,
               fetch = "no" => u = 1 .. taken
        PROVE  Promises'
    <2>1. CASE client = "open"
      <3>1. out' = <<u>> /\ Len(out') = 1 /\ pc' = "relay" /\ UNCHANGED Received
        BY <1>3, <2>1, FirstWrite DEF Write, Received
      <3>2. Delivered' = u
        BY <3>1, FirstWrite DEF Delivered
      <3>3. InOrder'
        BY <3>1 DEF InOrder
      <3> QED
        BY <1>3, <3>1, <3>2, <3>3 DEF Promises, LossOnlyAfterFailedFetch, PassThroughExact,
           CutOffOnlyByReset, Data
    <2>2. CASE client # "open"
      BY <1>3, <2>2 DEF Write, Promises, InOrder, LossOnlyAfterFailedFetch,
         PassThroughExact, CutOffOnlyByReset
    <2> QED
      BY <2>1, <2>2
  <1>4. CASE WriteRaw
    <2>1. /\ UNCHANGED <<resp, taken, fetch, server, client, hdr>>
          /\ Write(1 .. taken, "relay")
          /\ out = <<>> /\ fetch = "no"
      BY <1>4 DEF WriteRaw, Stages, serverVars, message
    <2>2. Received \subseteq 1 .. taken
      BY <1>0 DEF Received
    <2> QED
      BY <1>3, <2>1, <2>2
  <1>5. ASSUME NEW decoded \in BOOLEAN, NEW edit \in {-1, 0, 1}, Finish(decoded, edit)
        PROVE  Promises'
    <2> DEFINE units == (1 .. resp.head) \union body
    <2>1. /\ UNCHANGED <<resp, taken, fetch, server, client, body>>
          /\ Write(units, "relay")
          /\ out = <<>> /\ resp.head <= taken
      BY <1>5 DEF Finish, Stages, serverVars
    <2>2. fetch = "no" => body = resp.head + 1 .. taken
      BY <1>5 DEF Finish, Stages
    <2>3. fetch = "ok" => Received \subseteq body
      BY <1>5 DEF Finish, Stages
    <2>4. fetch = "no" => Received \subseteq body
      BY <1>0, <2>2 DEF Received
    <2>5. fetch = "no" => units = 1 .. taken
      BY <1>0, <2>1, <2>2
    <2>6. fetch # "failed" => Received \subseteq units
      BY <2>3, <2>4 DEF TypeOK
    <2> HIDE DEF units
    <2> QED
      BY <1>3, <2>1, <2>5, <2>6
  \* A write of what was just read.
  <1>6. ASSUME NEW n \in 1 .. ReadMax, Relay(n) PROVE Promises'
    <2> DEFINE units == taken + 1 .. taken + n
    <2>1. /\ pc = "relay" /\ taken' = taken + n /\ Write(units, "relay")
          /\ UNCHANGED <<resp, server, client, body, fetch, hdr>>
      BY <1>6 DEF Relay, serverVars, message
    <2>2. CASE client # "open"
      BY <2>1, <2>2 DEF Write, Promises, InOrder, LossOnlyAfterFailedFetch,
         PassThroughExact, CutOffOnlyByReset
    <2>3. CASE client = "open"
      <3>1. out' = Append(out, units) /\ pc' = "relay"
        BY <2>1, <2>3 DEF Write
      <3>2. units \in SUBSET Int
        OBVIOUS
      <3>3. Delivered' = Delivered \union units
        <4> HIDE DEF units
        <4> QED
          BY <1>0, <3>1, <3>2, AppendedBlocks DEF Delivered
      <3>4. Received' \subseteq Received \union units
        BY <1>0, <2>1 DEF Received, Data
      <3>5. 1 .. taken' = (1 .. taken) \union units
        BY <1>0, <2>1
      <3>6. InOrder'
        <4> SUFFICES ASSUME NEW i \in 1 .. Len(out'), NEW j \in 1 .. Len(out'), i < j,
                            NEW u \in out'[i], NEW v \in out'[j]
                     PROVE  u < v
          BY DEF InOrder
        <4>1. /\ Len(out') = Len(out) + 1
              /\ \A k \in 1 .. Len(out) : out'[k] = out[k]
              /\ out'[Len(out) + 1] = units
          <5> HIDE DEF units
          <5> QED
            BY <1>0, <3>1, <3>2, AppendedBlocks
        <4>2. Len(out) \in Nat
          BY <1>0
        <4>3. i \in 1 .. Len(out) /\ u \in out[i]
          BY <4>1, <4>2
        <4>4. CASE j \in 1 .. Len(out)
          BY <4>1, <4>3, <4>4 DEF Promises, InOrder
        <4>5. CASE j = Len(out) + 1
          <5>1. u \in 1 .. taken
            BY <4>3 DEF Stages
          <5>2. v \in units
            BY <4>1, <4>5
          <5> QED
            BY <1>0, <5>1, <5>2
        <4> QED
          BY <4>1, <4>2, <4>4, <4>5
      <3> HIDE DEF units
      <3>7. LossOnlyAfterFailedFetch'
        BY <2>1, <3>3, <3>4 DEF Promises, LossOnlyAfterFailedFetch
      <3>8. PassThroughExact'
        BY <2>1, <3>3, <3>5 DEF Promises, PassThroughExact
      <3> QED
        BY <2>1, <3>1, <3>6, <3>7, <3>8 DEF Promises, CutOffOnlyByReset, Data
    <2> QED
      BY <2>2, <2>3
  <1>7. CASE RelayEnds
    <2>1. /\ pc = "relay" /\ pc' \in {"done", "failed"}
          /\ pc' = "failed" => server = "reset"
          /\ UNCHANGED <<resp, server, client, taken, body, fetch, hdr, out>>
      BY <1>7 DEF RelayEnds, serverVars, message
    <2>2. UNCHANGED <<Received, Delivered>>
      BY <2>1 DEF Received, Delivered
    <2> QED
      BY <2>1, <2>2 DEF Promises, InOrder, LossOnlyAfterFailedFetch, PassThroughExact,
         CutOffOnlyByReset
  <1> QED
    BY <1>1, <1>2, <1>4, <1>5, <1>6, <1>7 DEF Next, Proxy, Reads, Writes

LEMMA InvariantInit == Init => Stages /\ Promises
  BY DEF Init, Stages, Promises, InOrder, LossOnlyAfterFailedFetch, PassThroughExact,
     CutOffOnlyByReset

LEMMA Invariant == Spec => [](Stages /\ Promises)
  <1>1. TypeOK /\ Stages /\ Promises /\ [Next]_vars => (Stages /\ Promises)'
    BY StagesStep, PromisesStep
  <1> QED
    BY <1>1, InvariantInit, TypeCorrect, PTL DEF Spec

-----------------------------------------------------------------------------
\* The client is written the server's bytes in the server's order, each at most
\* once, over forward_response and forward_remaining together.
THEOREM InOrderAlways == Spec => []InOrder
  <1>1. Stages /\ Promises => InOrder
    BY DEF Promises
  <1> QED
    BY <1>1, Invariant, PTL

\* Content read from the server is lost only where read_full_body failed.
THEOREM LossIsConfined == Spec => []LossOnlyAfterFailedFetch
  <1>1. Stages /\ Promises => LossOnlyAfterFailedFetch
    BY DEF Promises
  <1> QED
    BY <1>1, Invariant, PTL

\* A response whose body is not fetched is relayed unit by unit.
THEOREM PassThroughIsExact == Spec => []PassThroughExact
  <1>1. Stages /\ Promises => PassThroughExact
    BY DEF Promises
  <1> QED
    BY <1>1, Invariant, PTL

\* A response that has begun is cut off only by the server's reset.
THEOREM CutOffIsAReset == Spec => []CutOffOnlyByReset
  <1>1. Stages /\ Promises => CutOffOnlyByReset
    BY DEF Promises
  <1> QED
    BY <1>1, Invariant, PTL

-----------------------------------------------------------------------------
\* No content comes after what was read: it is all there, or the server has closed
\* its connection and nothing is left in the socket.
Complete == Data(resp) \subseteq 1 .. taken \/ (server = "eof" /\ taken = sent)

\* A fetch that succeeded has read the content to its end, the body is that content
\* until it is written, and the filters are run once, on the way there.
Whole ==
  /\ pc \in {"head", "raw", "body", "rewrite"} => filtered = {}
  /\ fetch = "ok" => Complete
  /\ fetch = "ok" /\ pc = "rewrite" => body = Received
  /\ FetchedBodyFilteredWhole

\* Only bytes are added, and none after the server's end.
LEMMA Advances ==
  ASSUME TypeOK, [Next]_vars
  PROVE  /\ resp' = resp /\ taken \in Nat /\ taken' \in Nat /\ taken <= taken'
         /\ server = "eof" => server' = "eof" /\ sent' = sent
  <1>1. Total(resp) \in Nat /\ Total(resp') \in Nat /\ TypeOK'
    BY Answers, TypeStep DEF TypeOK
  <1>2. taken \in Nat /\ taken' \in Nat
    BY <1>1 DEF TypeOK
  <1>3. CASE Send \/ ServerEnds \/ ClientGone \/ Reload \/ UNCHANGED vars
    BY <1>2, <1>3 DEF Send, ServerEnds, ClientGone, Reload, vars, serverVars
  <1>4. ASSUME NEW n \in 1 .. ReadMax, ReadHead(n) \/ ReadBody(n) \/ Relay(n)
        PROVE  UNCHANGED serverVars /\ taken' = taken + n /\ n \in Nat
    BY <1>4, RelayAssumption DEF ReadHead, ReadBody, Relay
  <1>5. CASE HeadEof \/ HeadFails \/ WriteRaw \/ FullBody \/ BodyFails \/ RelayEnds
             \/ \E decoded \in BOOLEAN, edit \in {-1, 0, 1} : Finish(decoded, edit)
    BY <1>2, <1>5 DEF HeadEof, HeadFails, WriteRaw, FullBody, BodyFails, RelayEnds, Finish,
                      serverVars
  <1>6. ASSUME NEW n \in 1 .. ReadMax, ReadHead(n) \/ ReadBody(n) \/ Relay(n)
        PROVE  UNCHANGED serverVars /\ taken <= taken'
    BY <1>2, <1>4, <1>6
  <1> QED
    BY <1>2, <1>3, <1>5, <1>6 DEF Next, Proxy, Reads, Writes, serverVars

\* What was complete stays as it is.
LEMMA CompleteStays ==
  ASSUME TypeOK, [Next]_vars, Complete
  PROVE  Complete' /\ Received' = Received
  <1>1. /\ resp' = resp /\ taken \in Nat /\ taken' \in Nat /\ taken <= taken'
        /\ server = "eof" => server' = "eof" /\ sent' = sent
    BY Advances
  <1>2. CASE Data(resp) \subseteq 1 .. taken
    <2>1. Data(resp) \subseteq 1 .. taken'
      BY <1>1, <1>2
    <2>2. Received = Data(resp) /\ Received' = Data(resp)
      BY <1>1, <1>2, <2>1 DEF Received
    <2> QED
      BY <1>1, <2>1, <2>2 DEF Complete
  <1>3. CASE server = "eof" /\ taken = sent
    <2>1. taken' <= sent'
      <3>1. Total(resp') \in Nat /\ TypeOK'
        BY Answers, TypeStep DEF TypeOK
      <3> QED
        BY <3>1 DEF TypeOK
    <2>2. taken' = taken /\ taken' = sent' /\ server' = "eof"
      BY <1>1, <1>3, <2>1
    <2> QED
      BY <1>1, <2>2 DEF Complete, Received
  <1> QED
    BY <1>2, <1>3 DEF Complete

\* A body is fetched when its content has been read to the end.
LEMMA FetchedWhole ==
  ASSUME TypeOK, FullBody
  PROVE  Complete' /\ body' = Received'
  <1>1. /\ pc = "body" /\ UNCHANGED <<resp, sent, server, taken>>
        /\ BodyRead \/ (resp.framing # "chunked" /\ sent = taken /\ server = "eof")
        /\ body' = IF resp.framing = "chunked" THEN Received ELSE resp.head + 1 .. taken
    BY DEF FullBody, serverVars, Drained
  <1>2. /\ resp.head \in Nat \ {0} /\ resp.declared \in Nat /\ Len(resp.kinds) \in Nat
        /\ Total(resp) = resp.head + Len(resp.kinds)
        /\ taken \in Nat /\ taken <= Total(resp)
    BY Answers DEF TypeOK, Total
  <1>3. Response(resp)
    BY RelayAssumption DEF TypeOK
  <1>4. Complete
    <2>1. CASE resp.framing = "chunked"
      <3>1. PICK u \in 1 .. taken : Kind(resp, u) = "last"
        BY <1>1, <2>1 DEF BodyRead
      <3>2. u > resp.head /\ resp.kinds[u - resp.head] = "last"
        BY <1>2, <3>1 DEF Kind
      <3>3. ASSUME NEW v \in Data(resp) PROVE v \in 1 .. taken
        <4>1. /\ v \in 1 .. Total(resp) /\ v > resp.head
              /\ resp.kinds[v - resp.head] = "data"
          BY <1>2 DEF Data, Kind
        <4>2. CASE v > u
          <5>1. /\ u - resp.head \in 1 .. Len(resp.kinds)
                /\ v - resp.head \in 1 .. Len(resp.kinds)
                /\ u - resp.head < v - resp.head
            BY <1>2, <3>1, <3>2, <4>1, <4>2
          <5>2. resp.kinds[v - resp.head] = "end"
            BY <1>3, <3>2, <5>1 DEF Response
          <5> QED
            BY <4>1, <5>2
        <4> QED
          BY <1>2, <3>1, <4>1, <4>2
      <3> QED
        BY <3>3 DEF Complete
    <2>2. CASE resp.framing = "length" /\ BodyRead
      <3>1. taken - resp.head >= resp.declared /\ Len(resp.kinds) <= resp.declared
        BY <1>3, <2>2 DEF BodyRead, Response
      <3>2. 1 .. Total(resp) \subseteq 1 .. taken
        BY <1>2, <3>1
      <3> QED
        BY <3>2 DEF Complete, Data
    <2>3. CASE sent = taken /\ server = "eof"
      BY <2>3 DEF Complete
    <2>4. resp.framing \in {"length", "chunked", "eof"}
      BY <1>3 DEF Response
    <2> QED
      BY <1>1, <2>1, <2>2, <2>3, <2>4 DEF BodyRead
  <1>5. resp.framing # "chunked" => Received = resp.head + 1 .. taken
    <2> SUFFICES ASSUME resp.framing # "chunked" PROVE Received = resp.head + 1 .. taken
      OBVIOUS
    <2>1. ASSUME NEW u \in resp.head + 1 .. taken PROVE u \in Received
      <3>1. u \in 1 .. Total(resp) /\ u - resp.head \in 1 .. Len(resp.kinds) /\ u > resp.head
        BY <1>2
      <3>2. resp.kinds[u - resp.head] = "data"
        BY <1>3, <3>1 DEF Response
      <3> QED
        BY <1>2, <3>1, <3>2 DEF Received, Data, Kind
    <2>2. Received \subseteq resp.head + 1 .. taken
      BY <1>2, Answers DEF Received, TypeOK
    <2> QED
      BY <2>1, <2>2
  <1> QED
    BY <1>1, <1>4, <1>5 DEF Complete, Received

LEMMA WholeStep == TypeOK /\ Stages /\ Whole /\ [Next]_vars => Whole'
  <1> SUFFICES ASSUME TypeOK, Stages, Whole, [Next]_vars PROVE Whole'
    OBVIOUS
  <1>1. fetch = "ok" => Complete' /\ Received' = Received
    BY CompleteStays DEF Whole
  <1>2. CASE FullBody
    <2>1. Complete' /\ body' = Received'
      BY <1>2, FetchedWhole
    <2>2. pc = "body" /\ pc' = "rewrite" /\ filtered' = filtered
      BY <1>2 DEF FullBody
    <2> QED
      BY <2>1, <2>2 DEF Whole, FetchedBodyFilteredWhole
  \* The filters run, on the whole body if its fetch has succeeded.
  <1>3. ASSUME NEW decoded \in BOOLEAN, NEW edit \in {-1, 0, 1}, Finish(decoded, edit)
        PROVE  Whole'
    <2>1. /\ pc = "rewrite" /\ pc' \in {"relay", "failed"} /\ UNCHANGED <<fetch, body>>
          /\ filtered' \in {body, {}}
      BY <1>3 DEF Finish, Write
    <2>2. fetch = "ok" => body = Received
      BY <2>1 DEF Whole
    <2> QED
      BY <1>1, <2>1, <2>2 DEF Whole, FetchedBodyFilteredWhole
  \* Other steps run none, and leave a fetched body alone.
  <1>4. ASSUME UNCHANGED filtered, fetch' = "ok" => fetch = "ok",
               pc' \in {"head", "raw", "body", "rewrite"}
                 => pc \in {"head", "raw", "body", "rewrite"},
               fetch' = "ok" /\ pc' = "rewrite" => pc = "rewrite" /\ body' = body
        PROVE  Whole'
    BY <1>1, <1>4 DEF Whole, FetchedBodyFilteredWhole
  <1>5. CASE Send \/ ServerEnds \/ ClientGone \/ Reload \/ UNCHANGED vars
    BY <1>4, <1>5 DEF Send, ServerEnds, ClientGone, Reload, vars, message
  <1>6. ASSUME NEW n \in 1 .. ReadMax, ReadHead(n) \/ ReadBody(n) \/ Relay(n) PROVE Whole'
    <2>1. pc \in {"head", "body"} => fetch = "no"
      BY DEF Stages
    <2> QED
      BY <1>4, <1>6, <2>1 DEF ReadHead, ParsedHead, HeadParsed, ReadBody, Relay, Write, message
  <1>7. CASE HeadEof \/ HeadFails \/ WriteRaw \/ BodyFails \/ RelayEnds
    BY <1>4, <1>7 DEF HeadEof, HeadFails, WriteRaw, BodyFails, RelayEnds, Write, message
  <1> QED
    BY <1>2, <1>3, <1>5, <1>6, <1>7 DEF Next, Proxy, Reads, Writes

\* Content filters that ran after a successful fetch had all the content, however the
\* reads fell and whatever the server and the configuration did meanwhile.
THEOREM FilteredIsWhole == Spec => []FetchedBodyFilteredWhole
  <1>1. Init => Whole
    BY DEF Init, Whole, FetchedBodyFilteredWhole
  <1>2. Whole => FetchedBodyFilteredWhole
    BY DEF Whole
  <1> QED
    BY <1>1, <1>2, TypeCorrect, Invariant, WholeStep, PTL DEF Spec

=============================================================================
