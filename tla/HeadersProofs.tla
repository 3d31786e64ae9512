---------------------------- MODULE HeadersProofs ----------------------------
(* Proofs about Headers, for every rule and every header of a request or an      *)
(* answer: what goes out has of each header what the rule says.                  *)
(*                                                                               *)
(* The pipeline is followed step by step: a step replaces the values of one name *)
(* and leaves the other headers as they were (Replaces).  That is shown of       *)
(* remove_header and set_header by induction over the headers, with a set of     *)
(* sequences that has the empty one and with each one those one longer; the      *)
(* lemmas about sequences up to CollectConcat are those of LoadingProofs.        *)
EXTENDS Headers, SequenceTheorems, WellFoundedInduction, TLAPS

\* A set of numbers that is not empty has a least one.
LEMMA LeastNat ==
  ASSUME NEW S, S \subseteq Nat, S # {}
  PROVE  \E n \in S : \A m \in S : n <= m
<1> DEFINE R == OpToRel(<, Nat)
<1>1. \A m, n \in Nat : m < n => <<m, n>> \in R
  BY DEF OpToRel
<1>2. IsWellFoundedOn(R, Nat)
  BY NatLessThanWellFounded
<1> HIDE DEF R
<1>3. PICK n \in S : \A m \in S : <<m, n>> \notin R
  BY <1>2, WFMin
<1>4. \A m \in S : m \in Nat /\ n \in Nat /\ ~(m < n)
  BY <1>1, <1>3
<1>5. QED
  BY <1>4

\* Induction over the numbers, with a set.
LEMMA Induction ==
  ASSUME NEW S, 0 \in S, \A n \in Nat : n \in S => n + 1 \in S
  PROVE  Nat \subseteq S
<1> SUFFICES ASSUME Nat \ S # {} PROVE FALSE
  OBVIOUS
<1>1. PICK n \in Nat \ S : \A m \in Nat \ S : n <= m
  BY LeastNat
<1>2. n # 0 /\ n - 1 \in Nat /\ n - 1 \in S
  BY <1>1
<1>3. QED
  BY <1>1, <1>2

\* Induction over sequences, with a set.
LEMMA SeqInduction ==
  ASSUME NEW T, NEW S, <<>> \in S, \A s \in Seq(T), e \in T : s \in S => Append(s, e) \in S
  PROVE  Seq(T) \subseteq S
<1> DEFINE L == {n \in Nat : \A s \in Seq(T) : Len(s) = n => s \in S}
<1>1. 0 \in L
  BY EmptySeq
<1>2. ASSUME NEW n \in Nat, n \in L PROVE n + 1 \in L
  <2> SUFFICES ASSUME NEW s \in Seq(T), Len(s) = n + 1 PROVE s \in S
    OBVIOUS
  <2>1. s # <<>>
    OBVIOUS
  <2>2. PICK r \in Seq(T), e \in T : s = Append(r, e)
    BY <2>1, SequenceEmptyOrAppend
  <2>3. Len(r) = n
    BY <2>2
  <2>4. QED
    BY <2>2, <2>3, <1>2
<1>3. Nat \subseteq L
  <2> HIDE DEF L
  <2>1. QED
    BY <1>1, <1>2, Induction
<1>4. ASSUME NEW s \in Seq(T) PROVE s \in S
  <2>1. Len(s) \in Nat
    OBVIOUS
  <2>2. Len(s) \in L
    BY <2>1, <1>3
  <2>3. QED
    BY <2>2
<1>5. QED
  BY <1>4

\* FlattenSeq by its prefixes: f[i] is the first i sequences put together.
Chain(f, ss, n) ==
  \A i \in 1 .. n : f[i] = IF i = 1 THEN ss[i] ELSE f[i - 1] \o ss[i]

\* There is such a sequence of prefixes.
LEMMA ChainExists ==
  ASSUME NEW T, NEW ss \in Seq(Seq(T))
  PROVE  \E f \in [1 .. Len(ss) -> Seq(T)] : Chain(f, ss, Len(ss))
<1> DEFINE S == {n \in Nat : n <= Len(ss) => \E f \in [1 .. n -> Seq(T)] : Chain(f, ss, n)}
<1>a. Len(ss) \in Nat
  OBVIOUS
<1>1. 0 \in S
  <2> DEFINE f == [i \in 1 .. 0 |-> <<>>]
  <2>1. f \in [1 .. 0 -> Seq(T)] /\ 1 .. 0 = {}
    OBVIOUS
  <2> HIDE DEF f
  <2>2. Chain(f, ss, 0)
    BY <2>1 DEF Chain
  <2>3. QED
    BY <2>1, <2>2
<1>2. ASSUME NEW n \in Nat, n \in S PROVE n + 1 \in S
  <2> SUFFICES ASSUME n + 1 <= Len(ss)
               PROVE  \E g \in [1 .. n + 1 -> Seq(T)] : Chain(g, ss, n + 1)
    OBVIOUS
  <2>1. PICK f \in [1 .. n -> Seq(T)] : Chain(f, ss, n)
    BY <1>2, <1>a
  <2>2. ss[n + 1] \in Seq(T)
    BY <1>a
  <2> DEFINE new == IF n = 0 THEN ss[n + 1] ELSE f[n] \o ss[n + 1]
             g == [i \in 1 .. n + 1 |-> IF i = n + 1 THEN new ELSE f[i]]
  <2>3. new \in Seq(T)
    <3>1. CASE n = 0
      BY <2>2, <3>1
    <3>2. CASE n # 0
      <4>1. f[n] \in Seq(T)
        <5>1. n \in 1 .. n
          BY <3>2
        <5>2. QED
          BY <5>1
      <4>2. f[n] \o ss[n + 1] \in Seq(T)
        BY <4>1, <2>2, ConcatProperties
      <4>3. QED
        BY <4>2, <3>2
    <3>3. QED
      BY <3>1, <3>2
  <2>4. g \in [1 .. n + 1 -> Seq(T)]
    <3> HIDE DEF new
    <3>1. QED
      BY <2>3
  <2>5. Chain(g, ss, n + 1)
    <3> SUFFICES ASSUME NEW i \in 1 .. n + 1
                 PROVE  g[i] = IF i = 1 THEN ss[i] ELSE g[i - 1] \o ss[i]
      BY DEF Chain
    <3>1. CASE i = n + 1
      <4>1. g[i] = new /\ (n # 0 => g[i - 1] = f[n])
        <5> HIDE DEF new
        <5>1. i - 1 = n /\ (n # 0 => n \in 1 .. n + 1 /\ n # n + 1)
          BY <3>1
        <5>2. QED
          BY <3>1, <5>1
      <4>2. QED
        BY <4>1, <3>1
    <3>2. CASE i \in 1 .. n
      <4>1. g[i] = f[i] /\ (i # 1 => g[i - 1] = f[i - 1])
        <5> HIDE DEF new
        <5>1. i # n + 1 /\ (i # 1 => i - 1 \in 1 .. n + 1 /\ i - 1 # n + 1)
          BY <3>2
        <5>2. QED
          BY <3>2, <5>1
      <4>2. f[i] = IF i = 1 THEN ss[i] ELSE f[i - 1] \o ss[i]
        BY <2>1, <3>2 DEF Chain
      <4>3. QED
        BY <4>1, <4>2
    <3>3. QED
      BY <3>1, <3>2
  <2>6. QED
    BY <2>4, <2>5
<1>3. Nat \subseteq S
  <2> HIDE DEF S
  <2>1. QED
    BY <1>1, <1>2, Induction
<1>4. QED
  BY <1>3, <1>a

\* There is only one.
LEMMA ChainUnique ==
  ASSUME NEW ss, NEW n \in Nat \ {0}, NEW f, NEW g, Chain(f, ss, n), Chain(g, ss, n)
  PROVE  f[n] = g[n]
<1> DEFINE S == {k \in Nat : k \in 1 .. n => f[k] = g[k]}
<1>1. 0 \in S
  OBVIOUS
<1>2. ASSUME NEW k \in Nat, k \in S PROVE k + 1 \in S
  <2> SUFFICES ASSUME k + 1 \in 1 .. n PROVE f[k + 1] = g[k + 1]
    OBVIOUS
  <2>1. CASE k = 0
    BY <2>1 DEF Chain
  <2>2. CASE k # 0
    <3>1. f[k] = g[k] /\ k + 1 # 1 /\ (k + 1) - 1 = k
      BY <2>2, <1>2
    <3>2. f[k + 1] = f[(k + 1) - 1] \o ss[k + 1] /\ g[k + 1] = g[(k + 1) - 1] \o ss[k + 1]
      BY <3>1 DEF Chain
    <3>3. QED
      BY <3>1, <3>2
  <2>3. QED
    BY <2>1, <2>2
<1>3. Nat \subseteq S
  <2> HIDE DEF S
  <2>1. QED
    BY <1>1, <1>2, Induction
<1>4. n \in S
  BY <1>3
<1>5. QED
  BY <1>4

\* FlattenSeq is the last of the prefixes.
LEMMA FlattenChain ==
  ASSUME NEW T, NEW ss \in Seq(Seq(T)), Len(ss) # 0, NEW g, Chain(g, ss, Len(ss))
  PROVE  FlattenSeq(ss) = g[Len(ss)]
<1> DEFINE Flat(f) == f = [i \in 1 .. Len(ss) |-> IF i = 1 THEN ss[i] ELSE f[i - 1] \o ss[i]]
           F == CHOOSE f : Flat(f)
<1>a. Len(ss) \in Nat \ {0}
  OBVIOUS
<1>1. \E f : Flat(f)
  <2>1. PICK f \in [1 .. Len(ss) -> Seq(T)] : Chain(f, ss, Len(ss))
    BY ChainExists
  <2>2. f = [i \in 1 .. Len(ss) |-> f[i]]
    OBVIOUS
  <2>3. Flat(f)
    BY <2>1, <2>2 DEF Chain
  <2>4. QED
    BY <2>3
<1>2. Flat(F)
  BY <1>1
<1>3. FlattenSeq(ss) = F[Len(ss)]
  BY <1>a DEF FlattenSeq
<1>4. Chain(F, ss, Len(ss))
  <2> HIDE DEF F
  <2>1. QED
    BY <1>2 DEF Chain
<1>5. F[Len(ss)] = g[Len(ss)]
  <2> HIDE DEF F
  <2>1. QED
    BY <1>4, <1>a, ChainUnique
<1>6. QED
  BY <1>3, <1>5

\* Of no sequences it is the empty one.
LEMMA FlattenEmpty == FlattenSeq(<<>>) = <<>>
  BY DEF FlattenSeq

\* One more sequence is put at the end.
LEMMA FlattenAppend ==
  ASSUME NEW T, NEW ss \in Seq(Seq(T)), NEW s \in Seq(T)
  PROVE  /\ FlattenSeq(ss) \in Seq(T)
         /\ FlattenSeq(Append(ss, s)) = FlattenSeq(ss) \o s
<1> DEFINE tt == Append(ss, s)
           n == Len(ss)
<1>1. tt \in Seq(Seq(T)) /\ Len(tt) = n + 1 /\ n \in Nat /\ tt[n + 1] = s
      /\ \A i \in 1 .. n : tt[i] = ss[i]
  BY AppendProperties
<1>2. PICK g \in [1 .. n + 1 -> Seq(T)] : Chain(g, tt, n + 1)
  BY <1>1, ChainExists, ZenonT(40)
<1>3. FlattenSeq(tt) = g[n + 1]
  <2> HIDE DEF tt, n
  <2>1. QED
    BY <1>1, <1>2, FlattenChain
<1>4. CASE n = 0
  <2>1. ss = <<>>
    BY <1>4
  <2>2. FlattenSeq(ss) = <<>> /\ <<>> \in Seq(T)
    BY <2>1, FlattenEmpty
  <2>3. g[n + 1] = s
    BY <1>1, <1>2, <1>4 DEF Chain
  <2>4. <<>> \o s = s
    BY ConcatEmptySeq
  <2>5. QED
    BY <1>3, <2>2, <2>3, <2>4
<1>5. CASE n # 0
  <2>1. Chain(g, ss, n)
    <3> HIDE DEF tt, n
    <3>1. \A i \in 1 .. n : i \in 1 .. n + 1
      BY <1>1
    <3>2. QED
      BY <1>1, <1>2, <3>1 DEF Chain
  <2>2. FlattenSeq(ss) = g[n]
    <3> HIDE DEF tt
    <3>1. QED
      BY <2>1, <1>5, FlattenChain
  <2>3. g[n + 1] = g[n] \o s
    <3>1. n + 1 \in 1 .. n + 1 /\ n + 1 # 1 /\ (n + 1) - 1 = n
      BY <1>1, <1>5
    <3> HIDE DEF tt, n
    <3>2. g[n + 1] = g[(n + 1) - 1] \o tt[n + 1]
      BY <1>2, <3>1 DEF Chain
    <3>3. QED
      BY <3>1, <3>2, <1>1
  <2>4. g[n] \in Seq(T)
    BY <1>1, <1>5
  <2>5. QED
    BY <1>3, <2>2, <2>3, <2>4
<1>6. QED
  BY <1>4, <1>5

\* What g makes of each element, put together.
Collect(g, s) == FlattenSeq([i \in DOMAIN s |-> g[s[i]]])
Lister(U, T) == [U -> Seq(T)]

\* The elements are of those that g gives.
LEMMA CollectTyped ==
  ASSUME NEW T, NEW U, NEW g \in Lister(U, T), NEW s \in Seq(U)
  PROVE  Collect(g, s) \in Seq(T)
<1> DEFINE ss == [i \in DOMAIN s |-> g[s[i]]]
<1>1. \A u \in U : g[u] \in Seq(T)
  BY DEF Lister
<1>2. DOMAIN s = 1 .. Len(s) /\ Len(s) \in Nat /\ \A i \in 1 .. Len(s) : s[i] \in U
  OBVIOUS
<1>3. ss \in Seq(Seq(T))
  BY <1>1, <1>2
<1>4. <<>> \in Seq(T)
  OBVIOUS
<1>5. Collect(g, s) = FlattenSeq(ss)
  BY DEF Collect
<1> HIDE DEF ss
<1>6. QED
  BY <1>3, <1>4, <1>5, FlattenAppend

\* Nothing is made of nothing.
LEMMA CollectEmpty ==
  ASSUME NEW g
  PROVE  Collect(g, <<>>) = <<>>
<1>1. [i \in DOMAIN <<>> |-> g[<<>>[i]]] = <<>>
  OBVIOUS
<1>2. QED
  BY <1>1, FlattenEmpty DEF Collect

\* One more element adds what g makes of it.
LEMMA CollectAppend ==
  ASSUME NEW T, NEW U, NEW g \in Lister(U, T), NEW s \in Seq(U), NEW x \in U
  PROVE  Collect(g, Append(s, x)) = Collect(g, s) \o g[x]
<1> DEFINE ss == [i \in DOMAIN s |-> g[s[i]]]
           tt == [i \in DOMAIN Append(s, x) |-> g[Append(s, x)[i]]]
<1>0. \A u \in U : g[u] \in Seq(T)
  BY DEF Lister
<1>1. DOMAIN s = 1 .. Len(s) /\ Len(s) \in Nat /\ \A i \in 1 .. Len(s) : s[i] \in U
  OBVIOUS
<1>2. ss \in Seq(Seq(T)) /\ Len(ss) = Len(s)
  BY <1>0, <1>1
<1>3. /\ DOMAIN Append(s, x) = 1 .. Len(s) + 1
      /\ \A i \in 1 .. Len(s) : Append(s, x)[i] = s[i]
      /\ Append(s, x)[Len(s) + 1] = x
  BY AppendProperties, <1>1
<1>4. tt = Append(ss, g[x])
  <2>1. tt \in Seq(Seq(T)) /\ Len(tt) = Len(s) + 1
    <3>1. tt = [i \in 1 .. Len(s) + 1 |-> g[Append(s, x)[i]]]
      BY <1>3
    <3>2. \A i \in 1 .. Len(s) + 1 : g[Append(s, x)[i]] \in Seq(T)
      <4>1. \A i \in 1 .. Len(s) + 1 : Append(s, x)[i] \in U
        BY <1>1, <1>3
      <4>2. QED
        BY <1>0, <4>1
    <3>3. QED
      BY <1>1, <3>1, <3>2
  <2>2. /\ Append(ss, g[x]) \in Seq(Seq(T)) /\ Len(Append(ss, g[x])) = Len(s) + 1
        /\ \A i \in 1 .. Len(s) : Append(ss, g[x])[i] = ss[i]
        /\ Append(ss, g[x])[Len(s) + 1] = g[x]
    <3> HIDE DEF ss
    <3>1. QED
      BY <1>0, <1>1, <1>2, AppendProperties
  <2>3. \A i \in 1 .. Len(s) : tt[i] = ss[i]
    BY <1>1, <1>3
  <2>4. tt[Len(s) + 1] = g[x]
    BY <1>1, <1>3
  <2> HIDE DEF tt, ss
  <2>5. QED
    BY <1>1, <2>1, <2>2, <2>3, <2>4, SeqEqual
<1>5. Collect(g, s) = FlattenSeq(ss) /\ Collect(g, Append(s, x)) = FlattenSeq(tt)
  BY DEF Collect
<1> HIDE DEF ss, tt
<1>6. QED
  BY <1>0, <1>2, <1>4, <1>5, FlattenAppend

\* Two sequences, one after the other, add up.
LEMMA CollectConcat ==
  ASSUME NEW T, NEW U, NEW g \in Lister(U, T), NEW s \in Seq(U), NEW t \in Seq(U)
  PROVE  Collect(g, s \o t) = Collect(g, s) \o Collect(g, t)
<1> DEFINE S == {u \in Seq(U) : Collect(g, s \o u) = Collect(g, s) \o Collect(g, u)}
<1>a. \A u \in Seq(U) : Collect(g, u) \in Seq(T)
  BY CollectTyped
<1>b. \A u \in Seq(U), x \in U : Collect(g, Append(u, x)) = Collect(g, u) \o g[x]
  BY CollectAppend
<1>1. <<>> \in S
  <2>1. s \o <<>> = s /\ <<>> \in Seq(U)
    BY ConcatEmptySeq
  <2>2. Collect(g, <<>>) = <<>>
    BY CollectEmpty
  <2>3. Collect(g, s) \o <<>> = Collect(g, s)
    BY <1>a, ConcatEmptySeq
  <2>4. QED
    BY <2>1, <2>2, <2>3
<1>2. ASSUME NEW u \in Seq(U), NEW x \in U, u \in S PROVE Append(u, x) \in S
  <2>1. s \o Append(u, x) = Append(s \o u, x) /\ s \o u \in Seq(U)
    OBVIOUS
  <2>2. Collect(g, Append(s \o u, x)) = Collect(g, s \o u) \o g[x]
    BY <2>1, <1>b
  <2>3. Collect(g, Append(u, x)) = Collect(g, u) \o g[x]
    BY <1>b
  <2>4. Collect(g, s \o u) = Collect(g, s) \o Collect(g, u)
    BY <1>2
  <2>5. (Collect(g, s) \o Collect(g, u)) \o g[x] = Collect(g, s) \o (Collect(g, u) \o g[x])
    <3>1. Collect(g, s) \in Seq(T) /\ Collect(g, u) \in Seq(T) /\ g[x] \in Seq(T)
      BY <1>a DEF Lister
    <3>2. QED
      <4> DEFINE a == Collect(g, s)  b == Collect(g, u)  c == g[x]
      <4>1. a \in Seq(T) /\ b \in Seq(T) /\ c \in Seq(T)
        BY <3>1
      <4> HIDE DEF a, b, c
      <4>2. (a \o b) \o c = a \o (b \o c)
        BY <4>1, ConcatAssociative, SMTT(30)
      <4>3. QED
        BY <4>2 DEF a, b, c
  <2>6. Append(u, x) \in Seq(U)
    OBVIOUS
  <2>7. QED
    BY <2>1, <2>2, <2>3, <2>4, <2>5, <2>6
<1>3. Seq(U) \subseteq S
  <2> HIDE DEF S
  <2>1. QED
    BY <1>1, <1>2, SeqInduction
<1>4. QED
  BY <1>3

\* The largest of some positions is one of them.
LEMMA MaxOf ==
  ASSUME NEW n \in Nat, NEW S, S \subseteq 1 .. n, S # {}
  PROVE  Max(S) \in S /\ \A m \in S : m <= Max(S)
<1> DEFINE D == {n - m : m \in S}
<1>1. D \subseteq Nat /\ D # {}
  <2>1. \A m \in S : n - m \in Nat
    OBVIOUS
  <2>2. QED
    BY <2>1
<1>2. PICK d \in D : \A k \in D : d <= k
  <2> HIDE DEF D
  <2>1. QED
    BY <1>1, LeastNat
<1>3. PICK x \in S : d = n - x
  BY <1>2
<1>4. \A m \in S : n - x <= n - m
  BY <1>2, <1>3
<1>5. \A m \in S : m <= x
  BY <1>4
<1>6. QED
  BY <1>5 DEF Max

\* The largest position is the new one.
LEMMA MaxTop ==
  ASSUME NEW n \in Nat, NEW S, S \subseteq 1 .. n
  PROVE  Max(S \union {n + 1}) = n + 1
<1>1. S \union {n + 1} \subseteq 1 .. n + 1
  OBVIOUS
<1> DEFINE R == S \union {n + 1}
<1>2. Max(R) \in R /\ n + 1 <= Max(R)
  <2>1. n + 1 \in Nat /\ R # {} /\ n + 1 \in R
    OBVIOUS
  <2> HIDE DEF R
  <2>2. QED
    BY <1>1, <2>1, MaxOf DEF R
<1>3. \A m \in R : n + 1 <= m => m = n + 1
  OBVIOUS
<1>4. QED
  BY <1>2, <1>3

\* Of one element it is what g makes of it.
LEMMA CollectOne ==
  ASSUME NEW T, NEW U, NEW g \in Lister(U, T), NEW x \in U
  PROVE  Collect(g, <<x>>) = g[x]
<1>1. g[x] \in Seq(T)
  BY DEF Lister
<1>2. <<>> \in Seq(U)
  OBVIOUS
<1>3. Collect(g, <<x>>) = Collect(g, <<>>) \o g[x]
  <2>1. \A s \in Seq(U) : Collect(g, Append(s, x)) = Collect(g, s) \o g[x]
    BY CollectAppend
  <2>2. Append(<<>>, x) = <<x>>
    OBVIOUS
  <2>3. QED
    BY <1>2, <2>1, <2>2
<1>4. Collect(g, <<>>) = <<>>
  BY CollectEmpty
<1>5. <<>> \o g[x] = g[x]
  BY <1>1, ConcatEmptySeq
<1>6. QED
  BY <1>3, <1>4, <1>5

\* Two passes over a sequence are one.
LEMMA CollectTwice ==
  ASSUME NEW T, NEW U, NEW W, NEW g \in Lister(T, U), NEW f \in Lister(U, W), NEW s \in Seq(T)
  PROVE  Collect(f, Collect(g, s)) = Collect([x \in T |-> Collect(f, g[x])], s)
<1> DEFINE k == [x \in T |-> Collect(f, g[x])]
           S == {u \in Seq(T) : Collect(f, Collect(g, u)) = Collect(k, u)}
<1>a. \A x \in T : g[x] \in Seq(U)
  BY DEF Lister
<1>b. \A u \in Seq(U) : Collect(f, u) \in Seq(W)
  BY CollectTyped
<1>c. \A u \in Seq(T) : Collect(g, u) \in Seq(U)
  BY CollectTyped
<1>d. k \in Lister(T, W)
  BY <1>a, <1>b DEF Lister
<1>e. \A x \in T : k[x] = Collect(f, g[x])
  OBVIOUS
<1> HIDE DEF k
<1>1. <<>> \in S
  <2>1. <<>> \in Seq(T)
    OBVIOUS
  <2>2. Collect(g, <<>>) = <<>> /\ Collect(f, <<>>) = <<>> /\ Collect(k, <<>>) = <<>>
    BY CollectEmpty
  <2>3. QED
    BY <2>1, <2>2
<1>2. ASSUME NEW u \in Seq(T), NEW x \in T, u \in S PROVE Append(u, x) \in S
  <2>1. Collect(g, Append(u, x)) = Collect(g, u) \o g[x]
    BY CollectAppend
  <2>2. Collect(f, Collect(g, u) \o g[x]) = Collect(f, Collect(g, u)) \o Collect(f, g[x])
    <3>1. Collect(g, u) \in Seq(U) /\ g[x] \in Seq(U)
      BY <1>a, <1>c
    <3>2. QED
      BY <3>1, CollectConcat
  <2>3. Collect(k, Append(u, x)) = Collect(k, u) \o k[x]
    BY <1>d, CollectAppend
  <2>4. Collect(f, Collect(g, u)) = Collect(k, u)
    BY <1>2
  <2>5. Append(u, x) \in Seq(T)
    OBVIOUS
  <2>6. QED
    BY <1>e, <2>1, <2>2, <2>3, <2>4, <2>5
<1>3. Seq(T) \subseteq S
  <2> HIDE DEF S
  <2>1. QED
    BY <1>1, <1>2, SeqInduction
<1>4. QED
  BY <1>3 DEF k

\* Where nothing is made of any element, there is nothing.
LEMMA CollectNothing ==
  ASSUME NEW T, NEW s \in Seq(T)
  PROVE  Collect([x \in T |-> <<>>], s) = <<>>
<1> DEFINE g == [x \in T |-> <<>>]
           S == {u \in Seq(T) : Collect(g, u) = <<>>}
<1>a. g \in Lister(T, T)
  BY DEF Lister
<1>b. \A x \in T : g[x] = <<>>
  OBVIOUS
<1> HIDE DEF g
<1>1. <<>> \in S
  <2>1. <<>> \in Seq(T)
    OBVIOUS
  <2>2. QED
    BY <2>1, CollectEmpty
<1>2. ASSUME NEW u \in Seq(T), NEW x \in T, u \in S PROVE Append(u, x) \in S
  <2>1. Collect(g, Append(u, x)) = Collect(g, u) \o g[x]
    BY <1>a, CollectAppend
  <2>2. <<>> \o <<>> = <<>>
    OBVIOUS
  <2>3. Append(u, x) \in Seq(T)
    OBVIOUS
  <2>4. QED
    BY <1>2, <1>b, <2>1, <2>2, <2>3
<1>3. Seq(T) \subseteq S
  <2> HIDE DEF S
  <2>1. QED
    BY <1>1, <1>2, SeqInduction
<1>4. QED
  BY <1>3 DEF g

-----------------------------------------------------------------------------
\* Values and Drop, as passes over the headers.
ValueOf(T, m) == [x \in T |-> IF x.name = m THEN <<x.value>> ELSE <<>>]
Stays(T, S) == [x \in T |-> IF x.name \in S THEN <<>> ELSE <<x>>]

LEMMA Passes ==
  ASSUME NEW T, NEW h \in Seq(T)
  PROVE  /\ \A m : /\ ValueOf(T, m) \in Lister(T, {x.value : x \in T})
                   /\ Values(h, m) = Collect(ValueOf(T, m), h)
         /\ \A S : /\ Stays(T, S) \in Lister(T, T)
                   /\ Drop(h, S) = Collect(Stays(T, S), h)
                   /\ Drop(h, S) \in Seq(T)
<1>1. \A i \in DOMAIN h : h[i] \in T
  OBVIOUS
<1>2. ASSUME NEW m
      PROVE  /\ ValueOf(T, m) \in Lister(T, {x.value : x \in T})
             /\ Values(h, m) = Collect(ValueOf(T, m), h)
  <2>1. \A i \in DOMAIN h : ValueOf(T, m)[h[i]] = IF h[i].name = m THEN <<h[i].value>> ELSE <<>>
    BY <1>1 DEF ValueOf
  <2>2. [i \in DOMAIN h |-> IF h[i].name = m THEN <<h[i].value>> ELSE <<>>]
          = [i \in DOMAIN h |-> ValueOf(T, m)[h[i]]]
    BY <2>1
  <2>3. ASSUME NEW x \in T
        PROVE  (IF x.name = m THEN <<x.value>> ELSE <<>>) \in Seq({y.value : y \in T})
    <3> DEFINE W == {y.value : y \in T}
    <3>1. x.value \in W
      OBVIOUS
    <3> HIDE DEF W
    <3>2. <<x.value>> \in Seq(W) /\ <<>> \in Seq(W)
      BY <3>1
    <3>3. QED
      BY <3>2 DEF W
  <2>5. ValueOf(T, m) \in Lister(T, {x.value : x \in T})
    BY <2>3 DEF ValueOf, Lister
  <2>6. QED
    BY <2>2, <2>5 DEF Values, Collect
<1>3. ASSUME NEW S
      PROVE  /\ Stays(T, S) \in Lister(T, T)
             /\ Drop(h, S) = Collect(Stays(T, S), h)
  <2>1. \A i \in DOMAIN h : Stays(T, S)[h[i]] = IF h[i].name \in S THEN <<>> ELSE <<h[i]>>
    BY <1>1 DEF Stays
  <2>2. [i \in DOMAIN h |-> IF h[i].name \in S THEN <<>> ELSE <<h[i]>>]
          = [i \in DOMAIN h |-> Stays(T, S)[h[i]]]
    BY <2>1
  <2>3. Stays(T, S) \in Lister(T, T)
    BY DEF Stays, Lister
  <2>4. QED
    BY <2>2, <2>3 DEF Drop, Collect
<1>4. \A S : Drop(h, S) \in Seq(T)
  BY <1>3, CollectTyped
<1>5. QED
  BY <1>2, <1>3, <1>4

\* The values of a name that no header has.
LEMMA NoValues ==
  ASSUME NEW T, NEW h \in Seq(T), NEW m, m \notin Names(h)
  PROVE  Values(h, m) = <<>>
<1> DEFINE none == [x \in T |-> <<>>]
<1>1. \A i \in DOMAIN h : h[i] \in T /\ h[i].name # m
  BY DEF Names
<1>2. [i \in DOMAIN h |-> IF h[i].name = m THEN <<h[i].value>> ELSE <<>>]
        = [i \in DOMAIN h |-> none[h[i]]]
  BY <1>1
<1>3. Values(h, m) = Collect(none, h)
  BY <1>2 DEF Values, Collect
<1>4. QED
  BY <1>3, CollectNothing

\* What is left of a name's values when headers are removed.
LEMMA ValuesDrop ==
  ASSUME NEW T, NEW h \in Seq(T), NEW S, NEW m
  PROVE  Values(Drop(h, S), m) = IF m \in S THEN <<>> ELSE Values(h, m)
<1> DEFINE W == {x.value : x \in T}
           f == ValueOf(T, m)
           g == Stays(T, S)
<1>1. f \in Lister(T, W) /\ g \in Lister(T, T)
  BY Passes
<1>2. Drop(h, S) \in Seq(T) /\ Drop(h, S) = Collect(g, h) /\ Values(h, m) = Collect(f, h)
  BY Passes
<1>3. Values(Drop(h, S), m) = Collect(f, Drop(h, S))
  BY <1>2, Passes
<1> HIDE DEF f, g, W
<1>4. Values(Drop(h, S), m) = Collect([x \in T |-> Collect(f, g[x])], h)
  BY <1>1, <1>2, <1>3, CollectTwice
<1>5. Collect(f, <<>>) = <<>> /\ \A x \in T : Collect(f, <<x>>) = f[x]
  BY <1>1, CollectEmpty, CollectOne
<1>6. CASE m \in S
  <2>1. \A x \in T : Collect(f, g[x]) = <<>>
    <3>1. \A x \in T : g[x] = <<>> \/ (g[x] = <<x>> /\ f[x] = <<>>)
      BY <1>6 DEF f, g, ValueOf, Stays
    <3>2. QED
      BY <1>5, <3>1
  <2>2. [x \in T |-> Collect(f, g[x])] = [x \in T |-> <<>>]
    BY <2>1
  <2>3. Values(Drop(h, S), m) = <<>>
    BY <1>4, <2>2, CollectNothing
  <2>4. QED
    BY <1>6, <2>3
<1>7. CASE m \notin S
  <2>1. \A x \in T : Collect(f, g[x]) = f[x]
    <3>1. \A x \in T : (g[x] = <<>> /\ f[x] = <<>>) \/ g[x] = <<x>>
      BY <1>7 DEF f, g, ValueOf, Stays
    <3>2. QED
      BY <1>5, <3>1
  <2>2. f = [x \in T |-> f[x]]
    BY DEF f, ValueOf
  <2>3. [x \in T |-> Collect(f, g[x])] = f
    BY <2>1, <2>2
  <2>4. QED
    BY <1>2, <1>4, <1>7, <2>3
<1>8. QED
  BY <1>6, <1>7

\* Headers that go anyway may go first.
LEMMA DropDrop ==
  ASSUME NEW T, NEW h \in Seq(T), NEW R, NEW S, R \subseteq S
  PROVE  Drop(Drop(h, R), S) = Drop(h, S)
<1> DEFINE f == Stays(T, S)
           g == Stays(T, R)
<1>1. f \in Lister(T, T) /\ g \in Lister(T, T)
  BY Passes
<1>2. Drop(h, R) \in Seq(T) /\ Drop(h, R) = Collect(g, h) /\ Drop(h, S) = Collect(f, h)
  BY Passes
<1>3. Drop(Drop(h, R), S) = Collect(f, Drop(h, R))
  BY <1>2, Passes
<1> HIDE DEF f, g
<1>4. Drop(Drop(h, R), S) = Collect([x \in T |-> Collect(f, g[x])], h)
  BY <1>1, <1>2, <1>3, CollectTwice
<1>5. Collect(f, <<>>) = <<>> /\ \A x \in T : Collect(f, <<x>>) = f[x]
  BY <1>1, CollectEmpty, CollectOne
<1>6. \A x \in T : Collect(f, g[x]) = f[x]
  <2>1. \A x \in T : (g[x] = <<>> /\ f[x] = <<>>) \/ g[x] = <<x>>
    BY DEF f, g, Stays
  <2>2. QED
    BY <1>5, <2>1
<1>7. f = [x \in T |-> f[x]]
  BY DEF f, Stays
<1>8. [x \in T |-> Collect(f, g[x])] = f
  BY <1>6, <1>7
<1>9. QED
  BY <1>2, <1>4, <1>8

\* Only the names there are count.
LEMMA DropAgrees ==
  ASSUME NEW h, NEW R, NEW S, \A n \in Names(h) : n \in R <=> n \in S
  PROVE  Drop(h, R) = Drop(h, S)
<1>1. \A i \in DOMAIN h : h[i].name \in Names(h)
  BY DEF Names
<1>2. \A i \in DOMAIN h : h[i].name \in R <=> h[i].name \in S
  BY <1>1
<1>3. [i \in DOMAIN h |-> IF h[i].name \in R THEN <<>> ELSE <<h[i]>>]
        = [i \in DOMAIN h |-> IF h[i].name \in S THEN <<>> ELSE <<h[i]>>]
  BY <1>2
<1>4. QED
  BY <1>3 DEF Drop

-----------------------------------------------------------------------------
\* What a step of the pipeline makes of the headers h: g has the values vs of the
\* name n, and the other headers as they were.
IsHeaders(h) == \E T : h \in Seq(T)

Replaces(g, h, n, vs) ==
  /\ IsHeaders(g)
  /\ \A m : Values(g, m) = IF m = n THEN vs ELSE Values(h, m)
  /\ \A S : n \in S => Drop(g, S) = Drop(h, S)

LEMMA StaysAsItIs ==
  ASSUME NEW h, IsHeaders(h), NEW n
  PROVE  Replaces(h, h, n, Values(h, n))
BY DEF Replaces

\* remove_header leaves no header of the name, and the others.
LEMMA RemoveReplaces ==
  ASSUME NEW h, IsHeaders(h), NEW n
  PROVE  Replaces(remove_header(h, n), h, n, <<>>)
<1>1. PICK T : h \in Seq(T)
  BY DEF IsHeaders
<1>2. Drop(h, {n}) \in Seq(T)
  BY <1>1, Passes
<1>3. \A m : Values(Drop(h, {n}), m) = IF m = n THEN <<>> ELSE Values(h, m)
  <2>1. \A m : Values(Drop(h, {n}), m) = IF m \in {n} THEN <<>> ELSE Values(h, m)
    BY <1>1, ValuesDrop
  <2>2. QED
    BY <2>1
<1>4. \A S : n \in S => Drop(Drop(h, {n}), S) = Drop(h, S)
  <2>1. \A S : n \in S => {n} \subseteq S
    OBVIOUS
  <2>2. QED
    BY <1>1, <2>1, DropDrop
<1>5. QED
  BY <1>2, <1>3, <1>4 DEF Replaces, IsHeaders, remove_header

\* One more header at the end.
LEMMA PassesAppend ==
  ASSUME NEW T, NEW h \in Seq(T), NEW x \in T
  PROVE  /\ \A m : Values(Append(h, x), m) =
                     Values(h, m) \o (IF x.name = m THEN <<x.value>> ELSE <<>>)
         /\ \A S : x.name \in S => Drop(Append(h, x), S) = Drop(h, S)
<1>1. Append(h, x) \in Seq(T)
  OBVIOUS
<1>2. ASSUME NEW m
      PROVE  Values(Append(h, x), m) = Values(h, m) \o (IF x.name = m THEN <<x.value>> ELSE <<>>)
  <2> DEFINE g == ValueOf(T, m)
             W == {y.value : y \in T}
  <2>0. g \in Lister(T, W)
    BY Passes
  <2>1. Values(h, m) = Collect(g, h)
    BY Passes
  <2>2. Values(Append(h, x), m) = Collect(ValueOf(T, m), Append(h, x))
    BY <1>1, Passes
  <2>3. Collect(g, Append(h, x)) = Collect(g, h) \o g[x]
    <3> HIDE DEF g, W
    <3>1. QED
      BY <2>0, CollectAppend
  <2>4. ValueOf(T, m)[x] = IF x.name = m THEN <<x.value>> ELSE <<>>
    BY DEF ValueOf
  <2>5. QED
    BY <2>1, <2>2, <2>3, <2>4
<1>3. ASSUME NEW S, x.name \in S PROVE Drop(Append(h, x), S) = Drop(h, S)
  <2> DEFINE g == Stays(T, S)
  <2>0. g \in Lister(T, T)
    BY Passes
  <2>1. Drop(h, S) = Collect(g, h) /\ Drop(h, S) \in Seq(T)
    BY Passes
  <2>2. Drop(Append(h, x), S) = Collect(Stays(T, S), Append(h, x))
    BY <1>1, Passes
  <2>3. Collect(g, Append(h, x)) = Collect(g, h) \o g[x]
    <3> HIDE DEF g
    <3>1. QED
      BY <2>0, CollectAppend
  <2>4. Stays(T, S)[x] = <<>>
    BY <1>3 DEF Stays
  <2>5. Drop(h, S) \o <<>> = Drop(h, S)
    BY <2>1, ConcatEmptySeq
  <2>6. QED
    BY <2>1, <2>2, <2>3, <2>4, <2>5
<1>4. QED
  BY <1>2, <1>3

\* set_header leaves one header of the name, with the value, and the others.
LEMMA SetReplaces ==
  ASSUME NEW h, IsHeaders(h), NEW n, NEW v
  PROVE  Replaces(set_header(h, n, v), h, n, <<v>>)
<1> DEFINE r == remove_header(h, n)
           x == Header(n, v)
<1>1. Replaces(r, h, n, <<>>)
  BY RemoveReplaces
<1>2. PICK T : r \in Seq(T)
  BY <1>1 DEF Replaces, IsHeaders
<1> DEFINE U == T \union {x}
<1>3. x \in U /\ x.name = n /\ x.value = v
  BY DEF Header
<1> HIDE DEF r, x, U
<1>4. r \in Seq(U)
  <2>1. T \subseteq U
    BY DEF U
  <2>2. QED
    BY <1>2, <2>1
<1>5. Append(r, x) \in Seq(U)
  BY <1>3, <1>4
<1>6. /\ \A m : Values(Append(r, x), m) = Values(r, m) \o (IF x.name = m THEN <<x.value>> ELSE <<>>)
      /\ \A S : x.name \in S => Drop(Append(r, x), S) = Drop(r, S)
  BY <1>3, <1>4, PassesAppend
<1>7. \A m : Values(Append(r, x), m) = IF m = n THEN <<v>> ELSE Values(h, m)
  <2>1. ASSUME NEW m
        PROVE  Values(Append(r, x), m) = IF m = n THEN <<v>> ELSE Values(h, m)
    <3>1. Values(Append(r, x), m) = Values(r, m) \o (IF n = m THEN <<v>> ELSE <<>>)
      BY <1>3, <1>6
    <3>2. Values(r, m) = IF m = n THEN <<>> ELSE Values(h, m)
      BY <1>1 DEF Replaces
    <3>3. Values(r, m) \in Seq({y.value : y \in U})
      <4>1. /\ Values(r, m) = Collect(ValueOf(U, m), r)
            /\ ValueOf(U, m) \in Lister(U, {y.value : y \in U})
        BY <1>4, Passes
      <4>2. QED
        BY <1>4, <4>1, CollectTyped
    <3>4. <<>> \o <<v>> = <<v>> /\ Values(r, m) \o <<>> = Values(r, m)
      <4>1. <<>> \o <<v>> = <<v>>
        OBVIOUS
      <4>2. Values(r, m) \o <<>> = Values(r, m)
        BY <3>3, ConcatEmptySeq
      <4>3. QED
        BY <4>1, <4>2
    <3>5. QED
      BY <3>1, <3>2, <3>4
  <2>2. QED
    BY <2>1
<1>8. \A S : n \in S => Drop(Append(r, x), S) = Drop(h, S)
  BY <1>1, <1>3, <1>6 DEF Replaces
<1>9. set_header(h, n, v) = Append(r, x)
  BY DEF set_header, r, x
<1>10. QED
  BY <1>5, <1>7, <1>8, <1>9 DEF Replaces, IsHeaders

\* crunch removes every header that an argument of the list names.
LEMMA CrunchDrops ==
  ASSUME NEW h, IsHeaders(h), NEW a, NEW list
  PROVE  LET g == crunch(h, a, list)
         IN /\ IsHeaders(g)
            /\ \A m : Values(g, m) = IF Crunches(a, list, m) THEN <<>> ELSE Values(h, m)
            /\ \A S : (\A m \in Names(h) : Crunches(a, list, m) => m \in S)
                        => Drop(g, S) = Drop(h, S)
<1> DEFINE R == {m \in Names(h) : Crunches(a, list, m)}
<1>1. PICK T : h \in Seq(T)
  BY DEF IsHeaders
<1>2. crunch(h, a, list) = Drop(h, R)
  BY DEF crunch
<1>3. Drop(h, R) \in Seq(T)
  BY <1>1, Passes
<1>4. \A m : Values(Drop(h, R), m) = IF Crunches(a, list, m) THEN <<>> ELSE Values(h, m)
  <2>1. ASSUME NEW m
        PROVE  Values(Drop(h, R), m) = IF Crunches(a, list, m) THEN <<>> ELSE Values(h, m)
    <3>1. Values(Drop(h, R), m) = IF m \in R THEN <<>> ELSE Values(h, m)
      <4> HIDE DEF R
      <4>1. QED
        BY <1>1, ValuesDrop
    <3>2. m \in R <=> m \in Names(h) /\ Crunches(a, list, m)
      OBVIOUS
    <3>3. m \notin Names(h) => Values(h, m) = <<>>
      BY <1>1, NoValues
    <3> HIDE DEF R
    <3>4. QED
      BY <3>1, <3>2, <3>3
  <2>2. QED
    BY <2>1
<1>5. \A S : (\A m \in Names(h) : Crunches(a, list, m) => m \in S) => Drop(Drop(h, R), S) = Drop(h, S)
  <2>1. ASSUME NEW S, \A m \in Names(h) : Crunches(a, list, m) => m \in S
        PROVE  Drop(Drop(h, R), S) = Drop(h, S)
    <3>1. R \subseteq S
      BY <2>1
    <3> HIDE DEF R
    <3>2. QED
      BY <1>1, <3>1, DropDrop
  <2>2. QED
    BY <2>1
<1>6. QED
  BY <1>2, <1>3, <1>4, <1>5 DEF IsHeaders

-----------------------------------------------------------------------------
\* Steps over a sequence that F describes: f[i] is what the first i come to.
Stepper(A, B) == [A \X B -> A]

LEMMA StepsExist ==
  ASSUME NEW A, NEW B, NEW F \in Stepper(A, B), NEW a \in A, NEW s \in Seq(B)
  PROVE  \E f \in [0 .. Len(s) -> A] :
           f[0] = a /\ \A i \in 1 .. Len(s) : f[i] = F[<<f[i - 1], s[i]>>]
<1> DEFINE Runs(f, n) == f[0] = a /\ \A i \in 1 .. n : f[i] = F[<<f[i - 1], s[i]>>]
           S == {n \in Nat : n <= Len(s) => \E f \in [0 .. n -> A] : Runs(f, n)}
<1>a. Len(s) \in Nat /\ \A i \in 1 .. Len(s) : s[i] \in B
  OBVIOUS
<1>b. \A x \in A, y \in B : F[<<x, y>>] \in A
  BY DEF Stepper
<1>1. 0 \in S
  <2> DEFINE f == [i \in 0 .. 0 |-> a]
  <2>1. f \in [0 .. 0 -> A] /\ Runs(f, 0)
    OBVIOUS
  <2>2. QED
    BY <2>1
<1>2. ASSUME NEW n \in Nat, n \in S PROVE n + 1 \in S
  <2> SUFFICES ASSUME n + 1 <= Len(s)
               PROVE  \E g \in [0 .. n + 1 -> A] : Runs(g, n + 1)
    OBVIOUS
  <2>1. PICK f \in [0 .. n -> A] : Runs(f, n)
    BY <1>2, <1>a
  <2> DEFINE new == F[<<f[n], s[n + 1]>>]
             g == [i \in 0 .. n + 1 |-> IF i = n + 1 THEN new ELSE f[i]]
  <2>2. new \in A
    <3>1. f[n] \in A /\ s[n + 1] \in B
      BY <1>a
    <3>2. QED
      BY <3>1, <1>b
  <2> HIDE DEF new
  <2>3. g \in [0 .. n + 1 -> A]
    BY <2>2
  <2>4. g[n + 1] = new /\ \A i \in 0 .. n : g[i] = f[i]
    OBVIOUS
  <2> HIDE DEF g
  <2>5. \A i \in 1 .. n + 1 : g[i] = F[<<g[i - 1], s[i]>>]
    <3>1. \A i \in 1 .. n : g[i] = F[<<g[i - 1], s[i]>>]
      <4>1. \A i \in 1 .. n : i \in 0 .. n /\ i - 1 \in 0 .. n
        OBVIOUS
      <4>2. QED
        BY <2>1, <2>4, <4>1
    <3>2. g[n + 1] = F[<<g[(n + 1) - 1], s[n + 1]>>]
      <4>1. (n + 1) - 1 = n /\ n \in 0 .. n
        OBVIOUS
      <4>2. QED
        BY <2>4, <4>1 DEF new
    <3>3. \A i \in 1 .. n + 1 : i \in 1 .. n \/ i = n + 1
      OBVIOUS
    <3>4. QED
      BY <3>1, <3>2, <3>3
  <2>6. g[0] = a
    BY <2>1, <2>4
  <2>7. QED
    BY <2>3, <2>5, <2>6
<1>3. Nat \subseteq S
  <2> HIDE DEF S
  <2>1. QED
    BY <1>1, <1>2, Induction
<1>4. QED
  BY <1>3, <1>a

-----------------------------------------------------------------------------
\* The actions that a rule can have: an argument is off as its name says, and a
\* default is not.
Texts == {t.arg : t \in TokenType} \union {Default[n] : n \in DOMAIN Default}
ArgumentType == [off : -2 .. 1, text : Texts]
EntryType == {e \in STRING \X ArgumentType : e[2].off = Offset(e[1])}
OffAsNamed(n, arg) == arg.off = Offset(n) \/ (n \in DOMAIN Default /\ arg.off = 0)
Settings ==
  {v \in UNION {[S -> ArgumentType] : S \in SUBSET STRING} :
     \A n \in DOMAIN v : OffAsNamed(n, v[n])}
ActionType == [on : SUBSET STRING, value : Settings, listed : Seq(EntryType)]

\* What the parts of a token are.
LEMMA TokenFacts ==
  ASSUME NEW t \in TokenType
  PROVE  /\ t.name \in STRING
         /\ Stored(t) \in ArgumentType /\ Stored(t).off = Offset(t.name)
         /\ \A n \in DOMAIN Default : [off |-> 0, text |-> Default[n]] \in ArgumentType
<1>1. t.name \in STRING
  BY DEF TokenType
<1>2. t.arg \in Texts
  BY DEF Texts
<1>3. Offset(t.name) \in -2 .. 1
  BY DEF Offset
<1>4. \A n \in DOMAIN Default : Default[n] \in Texts
  BY DEF Texts
<1>5. QED
  BY <1>1, <1>2, <1>3, <1>4 DEF Stored, ArgumentType

\* retain: what is left of a list are its entries.
LEMMA WithoutTyped ==
  ASSUME NEW T, NEW s \in Seq(T), NEW e
  PROVE  Without(s, e) \in Seq(T)
<1> DEFINE g == [x \in T |-> IF x = e THEN <<>> ELSE <<x>>]
<1>1. g \in Lister(T, T)
  BY DEF Lister
<1>2. \A i \in DOMAIN s : g[s[i]] = IF s[i] = e THEN <<>> ELSE <<s[i]>>
  OBVIOUS
<1>3. Without(s, e) = Collect(g, s)
  <2> HIDE DEF g
  <2>1. [i \in DOMAIN s |-> IF s[i] = e THEN <<>> ELSE <<s[i]>>] = [i \in DOMAIN s |-> g[s[i]]]
    BY <1>2
  <2>2. QED
    BY <2>1 DEF Without, Collect
<1> HIDE DEF g
<1>4. QED
  BY <1>1, <1>3, CollectTyped

\* parse_action_string makes an action of an action.
LEMMA ApplyType ==
  ASSUME NEW a \in ActionType, NEW t \in TokenType
  PROVE  Apply(a, t) \in ActionType
<1>1. a.on \in SUBSET STRING /\ a.value \in Settings /\ a.listed \in Seq(EntryType)
  BY DEF ActionType
<1>2. Switched(a.on, t) \in SUBSET STRING
  BY <1>1, TokenFacts DEF Switched
<1>3. Valued(a.value, t) \in Settings
  <2>1. /\ DOMAIN a.value \in SUBSET STRING
        /\ \A n \in DOMAIN a.value : a.value[n] \in ArgumentType
        /\ \A n \in DOMAIN a.value : OffAsNamed(n, a.value[n])
    BY <1>1 DEF Settings
  <2>2. ASSUME NEW arg \in ArgumentType, OffAsNamed(t.name, arg)
        PROVE  Given(a.value, t.name, arg) \in Settings
    <3> DEFINE S == DOMAIN a.value \union {t.name}
               v == Given(a.value, t.name, arg)
    <3>1. S \in SUBSET STRING
      BY <2>1, TokenFacts
    <3>2. v \in [S -> ArgumentType]
      BY <2>1, <2>2 DEF Given
    <3>3. \A n \in DOMAIN v : OffAsNamed(n, v[n])
      BY <2>1, <2>2 DEF Given
    <3> HIDE DEF v, S
    <3>4. QED
      BY <3>1, <3>2, <3>3 DEF Settings, v
  <2>3. [n \in DOMAIN a.value \ {t.name} |-> a.value[n]] \in Settings
    <3> DEFINE S == DOMAIN a.value \ {t.name}
               v == [n \in S |-> a.value[n]]
    <3>1. S \in SUBSET STRING
      BY <2>1
    <3>2. v \in [S -> ArgumentType]
      BY <2>1
    <3>3. \A n \in DOMAIN v : OffAsNamed(n, v[n])
      BY <2>1
    <3> HIDE DEF v, S
    <3>4. v \in Settings
      BY <3>1, <3>2, <3>3 DEF Settings
    <3>5. QED
      BY <3>4 DEF v, S
  <2>4. QED
    BY <1>1, <2>2, <2>3, TokenFacts DEF Valued, OffAsNamed
<1>4. Listed(a.listed, t) \in Seq(EntryType)
  <2>1. Entry(t) \in EntryType
    BY TokenFacts DEF Entry, EntryType
  <2>2. Append(a.listed, Entry(t)) \in Seq(EntryType)
    BY <1>1, <2>1
  <2>3. Without(a.listed, Entry(t)) \in Seq(EntryType)
    BY <1>1, WithoutTyped
  <2>4. QED
    BY <1>1, <2>2, <2>3 DEF Listed
<1>5. QED
  BY <1>2, <1>3, <1>4 DEF Apply, ActionType

\* The tokens of a rule make an action.
LEMMA ParsedType ==
  ASSUME NEW ts \in Seq(TokenType)
  PROVE  parse_action_string(ts) \in ActionType
<1> DEFINE n == Len(ts)
           Made(f) == f = [i \in 0 .. n |-> IF i = 0 THEN NoAction ELSE Apply(f[i - 1], ts[i])]
           G == CHOOSE f : Made(f)
           F == [p \in ActionType \X TokenType |-> Apply(p[1], p[2])]
<1>1. NoAction \in ActionType
  <2>1. <<>> \in [{} -> ArgumentType] /\ {} \in SUBSET STRING /\ DOMAIN <<>> = {}
    OBVIOUS
  <2>2. <<>> \in Settings
    BY <2>1 DEF Settings
  <2>3. <<>> \in Seq(EntryType)
    OBVIOUS
  <2>4. QED
    BY <2>2, <2>3 DEF NoAction, ActionType
<1>2. F \in Stepper(ActionType, TokenType)
  BY ApplyType DEF Stepper
<1>3. \A a \in ActionType, t \in TokenType : F[<<a, t>>] = Apply(a, t)
  OBVIOUS
<1>a. n \in Nat /\ \A i \in 1 .. n : ts[i] \in TokenType
  OBVIOUS
<1> HIDE DEF F
<1>4. PICK f \in [0 .. n -> ActionType] :
        f[0] = NoAction /\ \A i \in 1 .. n : f[i] = F[<<f[i - 1], ts[i]>>]
  BY <1>1, <1>2, StepsExist
<1> HIDE DEF n
<1>5. Made(f)
  <2>1. \A i \in 0 .. n : f[i] = IF i = 0 THEN NoAction ELSE Apply(f[i - 1], ts[i])
    <3>1. \A i \in 1 .. n : f[i - 1] \in ActionType
      <4>1. \A i \in 1 .. n : i - 1 \in 0 .. n
        BY <1>a
      <4>2. QED
        BY <4>1
    <3>2. \A i \in 0 .. n : i = 0 \/ (i # 0 /\ i \in 1 .. n)
      BY <1>a
    <3>3. QED
      BY <1>3, <1>4, <1>a, <3>1, <3>2
  <2>2. f = [i \in 0 .. n |-> f[i]]
    OBVIOUS
  <2>3. QED
    BY <2>1, <2>2
<1>6. Made(G)
  <2> HIDE DEF Made
  <2>1. QED
    BY <1>5
<1>7. parse_action_string(ts) = G[n]
  BY DEF parse_action_string, n
<1> HIDE DEF G
<1>8. \A i \in 0 .. n : G[i] = IF i = 0 THEN NoAction ELSE Apply(G[i - 1], ts[i])
  BY <1>6
<1> DEFINE S == {i \in Nat : i <= n => G[i] \in ActionType}
<1>9. 0 \in S
  BY <1>1, <1>8, <1>a
<1>10. ASSUME NEW i \in Nat, i \in S PROVE i + 1 \in S
  <2> SUFFICES ASSUME i + 1 <= n PROVE G[i + 1] \in ActionType
    OBVIOUS
  <2>1. G[i] \in ActionType /\ ts[i + 1] \in TokenType
    BY <1>a, <1>10
  <2>2. i + 1 \in 0 .. n /\ i + 1 # 0 /\ (i + 1) - 1 = i
    BY <1>a
  <2>3. G[i + 1] = Apply(G[i], ts[i + 1])
    BY <1>8, <2>2
  <2>4. QED
    BY <2>1, <2>3, ApplyType
<1>11. Nat \subseteq S
  <2> HIDE DEF S
  <2>1. QED
    BY <1>9, <1>10, Induction
<1>12. QED
  BY <1>7, <1>11, <1>a

-----------------------------------------------------------------------------
\* The arguments of a list are as far off as its name says.
ArgumentOf(list) == {v \in ArgumentType : v.off = Offset(list)}

LEMMA ArgumentsTyped ==
  ASSUME NEW a \in ActionType, NEW list
  PROVE  Arguments(a, list) \in Seq(ArgumentOf(list))
<1> DEFINE g == [e \in EntryType |-> IF e[1] = list THEN <<e[2]>> ELSE <<>>]
           W == ArgumentOf(list)
           es == a.listed
<1>1. es \in Seq(EntryType)
  BY DEF ActionType
<1>2. g \in Lister(EntryType, W)
  <2>1. ASSUME NEW e \in EntryType PROVE (IF e[1] = list THEN <<e[2]>> ELSE <<>>) \in Seq(W)
    <3>1. CASE e[1] = list
      <4>1. e[2] \in W
        BY <3>1 DEF EntryType, ArgumentOf
      <4> HIDE DEF W
      <4>2. <<e[2]>> \in Seq(W)
        BY <4>1
      <4>3. QED
        BY <3>1, <4>2
    <3>2. CASE e[1] # list
      BY <3>2
    <3>3. QED
      BY <3>1, <3>2
  <2> HIDE DEF W
  <2>2. QED
    BY <2>1 DEF Lister
<1>3. Arguments(a, list) = Collect(g, es)
  <2>1. \A i \in DOMAIN es : g[es[i]] = IF es[i][1] = list THEN <<es[i][2]>> ELSE <<>>
    BY <1>1
  <2> HIDE DEF g
  <2>2. [i \in DOMAIN es |-> IF es[i][1] = list THEN <<es[i][2]>> ELSE <<>>]
          = [i \in DOMAIN es |-> g[es[i]]]
    BY <2>1
  <2>3. QED
    BY <2>2 DEF Arguments, Collect
<1> HIDE DEF g, es, W
<1>4. QED
  BY <1>1, <1>2, <1>3, CollectTyped DEF W

\* +crunch-server-header cuts its argument too early, so that it names no header.
LEMMA NothingCrunched ==
  ASSUME NEW a \in ActionType, NEW n
  PROVE  ~Crunches(a, "crunch-server-header", n)
<1> DEFINE list == "crunch-server-header"
           vs == Arguments(a, list)
           W == ArgumentOf(list)
<1>1. vs \in Seq(W)
  BY ArgumentsTyped
<1>2. \A v \in W : v.off = -1
  BY DEF ArgumentOf, Offset
<1> HIDE DEF vs, W
<1>3. \A v \in ToSet(vs) : v \in W
  BY <1>1 DEF ToSet
<1>4. \A v \in ToSet(vs) : v.off # 0
  BY <1>2, <1>3
<1>5. QED
  BY <1>4 DEF Crunches, vs

\* apply_add_header: of several headers of a name that are added, the last one
\* stays.
Additions(args, n, k) == {i \in 1 .. k : Adds(args[i]) /\ args[i].text[1] = n}

LEMMA AddedAtTheEnd ==
  ASSUME NEW h, IsHeaders(h), NEW a \in ActionType
  PROVE  LET args == Arguments(a, "add-header")
             on(n) == Additions(args, n, Len(args))
             g == apply_add_header(h, a)
         IN /\ \A n : Values(g, n) = IF on(n) = {} THEN Values(h, n)
                                     ELSE <<V(Tail(args[Max(on(n))].text))>>
            /\ \A S : (\A i \in DOMAIN args : Adds(args[i]) => args[i].text[1] \in S)
                        => Drop(g, S) = Drop(h, S)
<1> DEFINE B == ArgumentOf("add-header")
           args == Arguments(a, "add-header")
           k == Len(args)
           Step(g, v) == IF Adds(v) THEN set_header(g, v.text[1], V(Tail(v.text))) ELSE g
           Runs(f) == f = [i \in 0 .. k |->
                             IF i = 0 THEN h
                             ELSE IF Adds(args[i])
                             THEN set_header(f[i - 1], args[i].text[1], V(Tail(args[i].text)))
                             ELSE f[i - 1]]
           G == CHOOSE f : Runs(f)
<1>1. args \in Seq(B)
  BY ArgumentsTyped
<1>a. k \in Nat /\ (\A i \in 1 .. k : args[i] \in B) /\ DOMAIN args = 1 .. k
  <2> HIDE DEF args, B
  <2>1. QED
    BY <1>1
<1>2. PICK T : h \in Seq(T)
  BY DEF IsHeaders
<1> DEFINE New(v) == Header(v.text[1], V(Tail(v.text)))
           U == T \union {New(v) : v \in B}
           A == Seq(U)
           F == [p \in A \X B |-> Step(p[1], p[2])]
<1>3. h \in A
  <2>1. T \subseteq U
    OBVIOUS
  <2> HIDE DEF U
  <2>2. QED
    BY <1>2, <2>1
<1>4. \A g \in A, v \in B : Step(g, v) \in A
  <2> SUFFICES ASSUME NEW g \in A, NEW v \in B PROVE Step(g, v) \in A
    OBVIOUS
  <2>1. New(v) \in U
    OBVIOUS
  <2> HIDE DEF U, New
  <2>2. remove_header(g, v.text[1]) \in A
    BY Passes DEF remove_header
  <2>3. set_header(g, v.text[1], V(Tail(v.text))) \in A
    BY <2>1, <2>2 DEF set_header, New
  <2>4. QED
    BY <2>3
<1> HIDE DEF B, args, U
<1>5. F \in Stepper(A, B)
  BY <1>4 DEF Stepper
<1>6. \A g \in A, v \in B : F[<<g, v>>] = Step(g, v)
  OBVIOUS
<1> HIDE DEF F, A
<1>7. PICK f \in [0 .. Len(args) -> A] :
        f[0] = h /\ \A i \in 1 .. Len(args) : f[i] = F[<<f[i - 1], args[i]>>]
  BY <1>1, <1>3, <1>5, StepsExist
<1>8. Runs(f)
  <2>1. \A i \in 1 .. k : i - 1 \in 0 .. k
    BY <1>a
  <2>2. \A i \in 1 .. k : f[i] = Step(f[i - 1], args[i])
    BY <1>6, <1>7, <1>a, <2>1
  <2>3. \A i \in 0 .. k : i = 0 \/ (i # 0 /\ i \in 1 .. k)
    BY <1>a
  <2>4. f = [i \in 0 .. k |-> f[i]]
    BY <1>7
  <2>5. QED
    BY <1>7, <2>2, <2>3, <2>4
<1>9. Runs(G)
  <2> HIDE DEF Runs
  <2>1. QED
    BY <1>8
<1>10. apply_add_header(h, a) = G[k]
  BY DEF apply_add_header, args
<1> HIDE DEF G
<1>11. \A i \in 0 .. k : G[i] = IF i = 0 THEN h ELSE Step(G[i - 1], args[i])
  BY <1>9
<1> HIDE DEF k, Step
<1> DEFINE Right(g, i) ==
             /\ IsHeaders(g)
             /\ \A n : Values(g, n) = IF Additions(args, n, i) = {} THEN Values(h, n)
                                      ELSE <<V(Tail(args[Max(Additions(args, n, i))].text))>>
             /\ \A S : (\A j \in 1 .. i : Adds(args[j]) => args[j].text[1] \in S)
                         => Drop(g, S) = Drop(h, S)
<1>12. Right(h, 0)
  <2>1. \A n : Additions(args, n, 0) = {}
    BY DEF Additions
  <2>2. QED
    BY <2>1
<1>13. ASSUME NEW i \in Nat, i + 1 <= k, NEW g, Right(g, i)
       PROVE  Right(Step(g, args[i + 1]), i + 1)
  <2> DEFINE v == args[i + 1]
             m == v.text[1]
             r == Step(g, v)
  <2>1. \A n : Additions(args, n, i + 1) =
                 IF Adds(v) /\ n = m THEN Additions(args, n, i) \union {i + 1}
                 ELSE Additions(args, n, i)
    <3>1. 1 .. i + 1 = (1 .. i) \union {i + 1}
      OBVIOUS
    <3>2. QED
      BY <3>1 DEF Additions
  <2>2. \A n : Additions(args, n, i) \subseteq 1 .. i
    BY DEF Additions
  <2>3. CASE Adds(v)
    <3>1. r = set_header(g, m, V(Tail(v.text)))
      BY <2>3 DEF Step
    <3> HIDE DEF r, m
    <3>2. Replaces(r, g, m, <<V(Tail(v.text))>>)
      BY <1>13, <3>1, SetReplaces
    <3>3. \A n : Additions(args, n, i + 1) = {} => n # m
      BY <2>1, <2>3
    <3>4. ASSUME NEW n
          PROVE  Values(r, n) = IF Additions(args, n, i + 1) = {} THEN Values(h, n)
                                ELSE <<V(Tail(args[Max(Additions(args, n, i + 1))].text))>>
      <4>1. CASE n = m
        <5>1. Values(r, n) = <<V(Tail(v.text))>>
          BY <3>2, <4>1 DEF Replaces
        <5>2. Max(Additions(args, n, i) \union {i + 1}) = i + 1
          BY <2>2, MaxTop
        <5>3. Additions(args, n, i + 1) = Additions(args, n, i) \union {i + 1}
          BY <2>1, <2>3, <4>1
        <5>4. Additions(args, n, i + 1) # {}
          BY <5>3
        <5>5. QED
          BY <5>1, <5>2, <5>3, <5>4
      <4>2. CASE n # m
        <5>1. Values(r, n) = Values(g, n)
          BY <3>2, <4>2 DEF Replaces
        <5>2. Additions(args, n, i + 1) = Additions(args, n, i)
          BY <2>1, <4>2
        <5>3. QED
          BY <1>13, <5>1, <5>2
      <4>3. QED
        BY <4>1, <4>2
    <3>5. ASSUME NEW S, \A j \in 1 .. i + 1 : Adds(args[j]) => args[j].text[1] \in S
          PROVE  Drop(r, S) = Drop(h, S)
      <4>1. m \in S
        <5>1. i + 1 \in 1 .. i + 1
          OBVIOUS
        <5>2. QED
          BY <2>3, <3>5, <5>1 DEF m
      <4>2. \A j \in 1 .. i : Adds(args[j]) => args[j].text[1] \in S
        BY <3>5
      <4>3. QED
        BY <1>13, <3>2, <4>1, <4>2 DEF Replaces
    <3>6. IsHeaders(r)
      BY <3>2 DEF Replaces
    <3>7. QED
      BY <3>4, <3>5, <3>6 DEF r
  <2>4. CASE ~Adds(v)
    <3>1. r = g
      BY <2>4 DEF Step
    <3>2. \A n : Additions(args, n, i + 1) = Additions(args, n, i)
      BY <2>1, <2>4
    <3>3. ASSUME NEW S, \A j \in 1 .. i + 1 : Adds(args[j]) => args[j].text[1] \in S
          PROVE  Drop(g, S) = Drop(h, S)
      <4>1. \A j \in 1 .. i : Adds(args[j]) => args[j].text[1] \in S
        BY <3>3
      <4>2. QED
        BY <1>13, <4>1
    <3> HIDE DEF r
    <3>4. QED
      BY <1>13, <3>1, <3>2, <3>3 DEF r
  <2>5. QED
    BY <2>3, <2>4
<1> DEFINE S == {i \in Nat : i <= k => Right(G[i], i)}
<1> HIDE DEF Right
<1>b. k \in Nat
  BY <1>a DEF k
<1>14. 0 \in S
  <2>1. G[0] = h
    BY <1>11, <1>b
  <2>2. QED
    BY <1>12, <2>1
<1>15. ASSUME NEW i \in Nat, i \in S PROVE i + 1 \in S
  <2> SUFFICES ASSUME i + 1 <= k PROVE Right(G[i + 1], i + 1)
    OBVIOUS
  <2>1. Right(G[i], i)
    BY <1>b, <1>15
  <2>2. i + 1 \in 0 .. k /\ i + 1 # 0 /\ (i + 1) - 1 = i
    BY <1>b
  <2>3. G[i + 1] = Step(G[i], args[i + 1])
    BY <1>11, <2>2
  <2>4. QED
    BY <1>13, <2>1, <2>3
<1>16. Nat \subseteq S
  <2> HIDE DEF S
  <2>1. QED
    BY <1>14, <1>15, Induction
<1>17. Right(G[k], k)
  BY <1>16, <1>b
<1>18. QED
  BY <1>10, <1>17, <1>a DEF Right, args, k

-----------------------------------------------------------------------------
\* The steps of the pipelines, one by one: each replaces the values of its header,
\* or leaves all as it is.
LEMMA RemovedIf ==
  ASSUME NEW h, IsHeaders(h), NEW a, NEW switch, NEW n
  PROVE  /\ Replaces(remove_if(h, a, switch, n), h, n,
                     IF switch \in a.on THEN <<>> ELSE Values(h, n))
         /\ switch \notin a.on => remove_if(h, a, switch, n) = h
BY RemoveReplaces, StaysAsItIs DEF remove_if

LEMMA Hidden ==
  ASSUME NEW h, IsHeaders(h), NEW a, NEW option, NEW n
  PROVE  /\ Replaces(hide(h, a, option, n), h, n,
                     IF Blocks(a, option) THEN <<>>
                     ELSE IF SetsTo(a, option) THEN <<a.value[option]>>
                     ELSE Values(h, n))
         /\ option \notin DOMAIN a.value => hide(h, a, option, n) = h
<1>1. option \notin DOMAIN a.value => ~Blocks(a, option) /\ ~SetsTo(a, option)
  BY DEF Blocks, SetsTo
<1>2. QED
  BY <1>1, RemoveReplaces, SetReplaces, StaysAsItIs DEF hide

LEMMA Overwritten ==
  ASSUME NEW h, IsHeaders(h), NEW a, NEW option, NEW n
  PROVE  /\ Replaces(overwrite(h, a, option, n), h, n,
                     IF option \in DOMAIN a.value THEN <<a.value[option]>> ELSE Values(h, n))
         /\ option \notin DOMAIN a.value => overwrite(h, a, option, n) = h
BY SetReplaces, StaysAsItIs DEF overwrite

\* apply_hide_referrer forges the referrer from the Host header, if there is one.
LEMMA ReferrerHidden ==
  ASSUME NEW h, IsHeaders(h), NEW a
  PROVE  LET v == a.value["hide-referrer"]
             g == apply_hide_referrer(h, a)
         IN /\ Replaces(g, h, "Referer",
                 IF "hide-referrer" \notin DOMAIN a.value THEN Values(h, "Referer")
                 ELSE IF Blocks(a, "hide-referrer") \/ v = V(<<"conditional-block">>) THEN <<>>
                 ELSE IF ~Forges(a) THEN <<v>>
                 ELSE IF Has(h, "Host") THEN <<Forged(get_header(h, "Host"))>>
                 ELSE Values(h, "Referer"))
            /\ "hide-referrer" \notin DOMAIN a.value => g = h
BY RemoveReplaces, SetReplaces, StaysAsItIs DEF apply_hide_referrer

LEMMA CompressionPrevented ==
  ASSUME NEW h, IsHeaders(h), NEW a
  PROVE  LET g == apply_prevent_compression(h, a)
         IN /\ Replaces(g, h, "Accept-Encoding",
                 IF "prevent-compression" \in a.on THEN <<V(<<"identity">>)>>
                 ELSE Values(h, "Accept-Encoding"))
            /\ "prevent-compression" \notin a.on => g = h
BY SetReplaces, StaysAsItIs DEF apply_prevent_compression

LEMMA CookiesOfSession ==
  ASSUME NEW h, IsHeaders(h), NEW a
  PROVE  LET g == apply_session_cookies_only(h, a)
         IN /\ Replaces(g, h, "Cookie",
                 IF "session-cookies-only" \in a.on /\ Has(h, "Cookie")
                 THEN <<V(SelectSeq(get_header(h, "Cookie").text, LAMBDA w : w \notin Secure))>>
                 ELSE Values(h, "Cookie"))
            /\ "session-cookies-only" \notin a.on => g = h
BY SetReplaces, StaysAsItIs DEF apply_session_cookies_only

\* The options whose argument is cut too early are never the word that the code
\* compares them with, nor a number.
LEMMA NeverActs ==
  ASSUME NEW a \in ActionType, NEW h, NEW client
  PROVE  /\ apply_hide_if_modified_since(h, a) = h
         /\ apply_change_x_forwarded_for(h, a, client) = h
<1>1. \A n \in DOMAIN a.value \ DOMAIN Default : a.value[n].off = Offset(n)
  BY DEF ActionType, Settings, OffAsNamed
<1>2. /\ Offset("hide-if-modified-since") = -1
      /\ Offset("change-x-forwarded-for") = -1
      /\ "hide-if-modified-since" \notin DOMAIN Default
      /\ "change-x-forwarded-for" \notin DOMAIN Default
  BY DEF Offset, Default, Blockers
<1>3. \A n \in DOMAIN a.value : \A words :
        n \in {"hide-if-modified-since", "change-x-forwarded-for"} =>
          a.value[n].off # 0 /\ a.value[n] # V(words)
  <2>1. \A words : V(words).off = 0
    BY DEF V
  <2>2. QED
    BY <1>1, <1>2, <2>1
<1>4. apply_hide_if_modified_since(h, a) = h
  BY <1>3 DEF apply_hide_if_modified_since, Blocks
<1>5. apply_change_x_forwarded_for(h, a, client) = h
  BY <1>3 DEF apply_change_x_forwarded_for, Blocks
<1>6. QED
  BY <1>4, <1>5

-----------------------------------------------------------------------------
\* What the code makes of a header, in the terms of the arguments that it keeps.
MadeReferer ==
  IF Blocks(action, "hide-referrer") \/ action.value["hide-referrer"] = V(<<"conditional-block">>)
  THEN <<>>
  ELSE IF ~Forges(action) THEN <<action.value["hide-referrer"]>>
  ELSE IF Has(request, "Host") /\ ~Withheld("Host") THEN <<Forged(get_header(request, "Host"))>>
  ELSE Passed("Referer")

MadeRequest(name) ==
  IF Adding(name) # {} THEN <<V(Tail(Added[Max(Adding(name))].text))>>
  ELSE IF name = "Accept-Encoding" /\ "prevent-compression" \in action.on
  THEN <<V(<<"identity">>)>>
  ELSE IF name = "User-Agent" /\ "send-user-agent" \in DOMAIN action.value
  THEN <<action.value["send-user-agent"]>>
  ELSE IF name = "Referer" /\ "hide-referrer" \in DOMAIN action.value THEN MadeReferer
  ELSE IF name \in DOMAIN HiddenBy /\ Blocks(action, HiddenBy[name]) THEN <<>>
  ELSE IF name \in DOMAIN HiddenBy /\ SetsTo(action, HiddenBy[name])
  THEN <<action.value[HiddenBy[name]]>>
  ELSE Passed(name)

\* An argument that is not cut wrongly is kept as it is written.
LEMMA KeptWhole ==
  ASSUME action \in ActionType, NEW option, Offset(option) = 0
  PROVE  /\ option \in DOMAIN action.value => Says(option) = action.value[option]
         /\ \A w : Written(option, w) <=>
                     option \in DOMAIN action.value /\ action.value[option] = V(<<w>>)
         /\ Written(option, "block") <=> Blocks(action, option)
         /\ SetsTo(action, option) <=>
              option \in DOMAIN action.value /\ ~Written(option, "block")
<1>1. ASSUME option \in DOMAIN action.value
      PROVE  /\ action.value[option].off = 0
             /\ action.value[option] = [off |-> 0, text |-> action.value[option].text]
  <2>1. action.value[option] \in ArgumentType /\ OffAsNamed(option, action.value[option])
    BY <1>1 DEF ActionType, Settings
  <2>2. QED
    BY <2>1 DEF OffAsNamed, ArgumentType
<1>2. option \in DOMAIN action.value => Says(option) = action.value[option]
  BY <1>1 DEF Says, V
<1>3. ASSUME NEW w
      PROVE  Written(option, w) <=>
               option \in DOMAIN action.value /\ action.value[option] = V(<<w>>)
  <2>1. V(<<w>>).text = <<w>>
    BY DEF V
  <2>2. QED
    BY <1>2, <2>1 DEF Written, Says
<1>4. QED
  BY <1>2, <1>3 DEF Blocks, SetsTo

\* No argument of this list is cut wrongly, so that what it names is crunched.
LEMMA NamedCrunches ==
  ASSUME action \in ActionType, NEW n
  PROVE  Named("crunch-client-header", n) <=> Crunches(action, "crunch-client-header", n)
<1> DEFINE list == "crunch-client-header"
<1>1. Arguments(action, list) \in Seq(ArgumentOf(list))
  BY ArgumentsTyped
<1>2. Offset(list) = 0
  BY DEF Offset
<1> DEFINE args == Arguments(action, list)
<1>3. \A v \in ToSet(args) : v.off = 0
  <2> HIDE DEF args
  <2>1. args \in Seq(ArgumentOf("crunch-client-header"))
    BY <1>1 DEF args
  <2>2. QED
    BY <1>2, <2>1 DEF ToSet, ArgumentOf
<1>4. QED
  BY <1>3 DEF Named, Crunches

\* The code makes of a header what the rule says, unless its option is one of those
\* whose argument is cut too early.
LEMMA MadeAsRuled ==
  ASSUME action \in ActionType, NEW n
  PROVE  \/ MadeRequest(n) = RuledRequest(n)
         \/ n \in DOMAIN ChangedBy /\ Miscut(ChangedBy[n])
<1>1. /\ Offset("hide-user-agent") = 0 /\ Offset("hide-from-header") = 0
      /\ Offset("hide-accept-language") = 0 /\ Offset("hide-referrer") = 0
      /\ Offset("send-user-agent") = 0
  BY DEF Offset
<1>2. /\ DOMAIN HiddenBy = {"User-Agent", "From", "Accept-Language", "Referer"}
      /\ HiddenBy["User-Agent"] = "hide-user-agent" /\ HiddenBy["From"] = "hide-from-header"
      /\ HiddenBy["Accept-Language"] = "hide-accept-language"
      /\ HiddenBy["Referer"] = "hide-referrer"
  BY DEF HiddenBy
<1>3. \A k \in DOMAIN HiddenBy : Offset(HiddenBy[k]) = 0
  BY <1>1, <1>2
<1>4. ASSUME n \in DOMAIN HiddenBy
      PROVE  LET o == HiddenBy[n]
             IN /\ o \in DOMAIN action.value => Says(o) = action.value[o]
                /\ Written(o, "block") <=> Blocks(action, o)
                /\ SetsTo(action, o) <=> o \in DOMAIN action.value /\ ~Written(o, "block")
  <2>1. Offset(HiddenBy[n]) = 0
    BY <1>3, <1>4
  <2>2. QED
    BY <2>1, KeptWhole
<1>5. "send-user-agent" \in DOMAIN action.value =>
        Says("send-user-agent") = action.value["send-user-agent"]
  BY <1>1, KeptWhole
<1>6. "hide-referrer" \in DOMAIN action.value => MadeReferer = RuledReferer
  <2> DEFINE o == "hide-referrer"
  <2>1. o \in DOMAIN action.value => Says(o) = action.value[o]
    BY <1>1, KeptWhole
  <2>2. \A w : Written(o, w) <=> o \in DOMAIN action.value /\ action.value[o] = V(<<w>>)
    BY <1>1, KeptWhole
  <2>3. Written(o, "block") <=> Blocks(action, o)
    BY <1>1, KeptWhole
  <2>4. QED
    BY <2>1, <2>2, <2>3 DEF MadeReferer, RuledReferer, Forges
<1>7. /\ DOMAIN ChangedBy = {"If-Modified-Since", "X-Forwarded-For"}
      /\ \A k \in DOMAIN ChangedBy : /\ ChangedBy[k] \notin DOMAIN Default
                                     /\ Offset(ChangedBy[k]) = -1
  BY DEF ChangedBy, Default, Blockers, Offset
<1>8. ASSUME n \in DOMAIN ChangedBy, ChangedBy[n] \in DOMAIN action.value
      PROVE  Miscut(ChangedBy[n])
  <2>1. OffAsNamed(ChangedBy[n], action.value[ChangedBy[n]])
    BY <1>8 DEF ActionType, Settings
  <2>2. QED
    BY <1>7, <1>8, <2>1 DEF OffAsNamed, Miscut
<1>9. CASE n \in DOMAIN ChangedBy /\ ChangedBy[n] \in DOMAIN action.value
  BY <1>8, <1>9
<1>10. CASE ~(n \in DOMAIN ChangedBy /\ ChangedBy[n] \in DOMAIN action.value)
  BY <1>4, <1>5, <1>6, <1>10 DEF MadeRequest, RuledRequest
<1>11. QED
  BY <1>9, <1>10

-----------------------------------------------------------------------------
\* apply_client_header_crunching: what the rule withholds is gone.
LEMMA Crunched ==
  ASSUME action \in ActionType, IsHeaders(request)
  PROVE  LET g == apply_client_header_crunching(request, action)
         IN /\ IsHeaders(g)
            /\ \A n : Values(g, n) = IF Withheld(n) THEN <<>> ELSE Values(request, n)
            /\ \A S : (\A n \in Names(request) \union {"Cookie", "If-None-Match"} :
                         Withheld(n) => n \in S)
                        => Drop(g, S) = Drop(request, S)
<1> DEFINE c == crunch(request, action, "crunch-client-header")
           k == remove_if(c, action, "crunch-outgoing-cookies", "Cookie")
           g == remove_if(k, action, "crunch-if-none-match", "If-None-Match")
<1>1. /\ IsHeaders(c)
      /\ \A n : Values(c, n) = IF Crunches(action, "crunch-client-header", n) THEN <<>>
                               ELSE Values(request, n)
      /\ \A S : (\A n \in Names(request) : Crunches(action, "crunch-client-header", n) => n \in S)
                  => Drop(c, S) = Drop(request, S)
  BY CrunchDrops
<1> HIDE DEF c
<1>2. /\ Replaces(k, c, "Cookie",
                  IF "crunch-outgoing-cookies" \in action.on THEN <<>> ELSE Values(c, "Cookie"))
      /\ "crunch-outgoing-cookies" \notin action.on => k = c
  BY <1>1, RemovedIf
<1>3. IsHeaders(k)
  BY <1>2 DEF Replaces
<1> HIDE DEF k
<1>4. /\ Replaces(g, k, "If-None-Match",
                  IF "crunch-if-none-match" \in action.on THEN <<>> ELSE Values(k, "If-None-Match"))
      /\ "crunch-if-none-match" \notin action.on => g = k
  BY <1>3, RemovedIf
<1>5. apply_client_header_crunching(request, action) = g
  BY DEF apply_client_header_crunching, c, k
<1> HIDE DEF g
<1>6. IsHeaders(g)
  BY <1>4 DEF Replaces
<1>7. ASSUME NEW n
      PROVE  Values(g, n) = IF Withheld(n) THEN <<>> ELSE Values(request, n)
  <2>1. Values(k, n) = IF n = "Cookie" /\ "crunch-outgoing-cookies" \in action.on THEN <<>>
                       ELSE Values(c, n)
    BY <1>2 DEF Replaces
  <2>2. Values(g, n) = IF n = "If-None-Match" /\ "crunch-if-none-match" \in action.on THEN <<>>
                       ELSE Values(k, n)
    BY <1>4 DEF Replaces
  <2>3. Values(c, n) = IF Crunches(action, "crunch-client-header", n) THEN <<>>
                       ELSE Values(request, n)
    BY <1>1
  <2>4. QED
    BY <2>1, <2>2, <2>3, NamedCrunches DEF Withheld
<1>8. ASSUME NEW S, \A n \in Names(request) \union {"Cookie", "If-None-Match"} :
                      Withheld(n) => n \in S
      PROVE  Drop(g, S) = Drop(request, S)
  <2>1. Drop(c, S) = Drop(request, S)
    <3>1. \A n \in Names(request) : Crunches(action, "crunch-client-header", n) => n \in S
      BY <1>8, NamedCrunches DEF Withheld
    <3>2. QED
      BY <1>1, <3>1
  <2>2. Drop(k, S) = Drop(c, S)
    <3>1. "crunch-outgoing-cookies" \in action.on => "Cookie" \in S
      BY <1>8 DEF Withheld
    <3>2. QED
      BY <1>2, <3>1 DEF Replaces
  <2>3. Drop(g, S) = Drop(k, S)
    <3>1. "crunch-if-none-match" \in action.on => "If-None-Match" \in S
      BY <1>8 DEF Withheld
    <3>2. QED
      BY <1>4, <3>1 DEF Replaces
  <2>4. QED
    BY <2>1, <2>2, <2>3
<1>9. QED
  BY <1>5, <1>6, <1>7, <1>8

\* apply_client_header_hiding: a header that is not added has the values that the
\* rule says, and only the headers that the rule touches are touched.
LEMMA HiddenAsRuled ==
  ASSUME action \in ActionType, NEW h, IsHeaders(h), NEW client,
         \A n : Values(h, n) = IF Withheld(n) THEN <<>> ELSE Values(request, n)
  PROVE  LET g == apply_client_header_hiding(h, action, client)
         IN /\ IsHeaders(g)
            /\ \A n : Adding(n) = {} => Values(g, n) = MadeRequest(n)
            /\ \A S : (\A n \in DOMAIN HiddenBy \union {"Accept-Encoding", "Cookie"} :
                         Touched(n) => n \in S)
                        => Drop(g, S) = Drop(h, S)
<1> DEFINE ref == apply_hide_referrer(h, action)
           ua == hide(ref, action, "hide-user-agent", "User-Agent")
           agent == overwrite(ua, action, "send-user-agent", "User-Agent")
           fr == hide(agent, action, "hide-from-header", "From")
           from == hide(fr, action, "hide-accept-language", "Accept-Language")
           enc == apply_prevent_compression(from, action)
           g == apply_session_cookies_only(enc, action)
           v == action.value
<1>0. apply_client_header_hiding(h, action, client) = g
  <2>1. apply_change_x_forwarded_for(apply_hide_if_modified_since(from, action), action, client)
          = from
    BY NeverActs
  <2>2. QED
    BY <2>1 DEF apply_client_header_hiding
<1>1. /\ Replaces(ref, h, "Referer",
           IF "hide-referrer" \notin DOMAIN v THEN Values(h, "Referer")
           ELSE IF \/ Blocks(action, "hide-referrer")
                   \/ v["hide-referrer"] = V(<<"conditional-block">>) THEN <<>>
           ELSE IF ~Forges(action) THEN <<v["hide-referrer"]>>
           ELSE IF Has(h, "Host") THEN <<Forged(get_header(h, "Host"))>>
           ELSE Values(h, "Referer"))
      /\ "hide-referrer" \notin DOMAIN v => ref = h
  BY ReferrerHidden
<1>a. IsHeaders(ref)
  BY <1>1 DEF Replaces
<1> HIDE DEF ref
<1>2. /\ Replaces(ua, ref, "User-Agent",
           IF Blocks(action, "hide-user-agent") THEN <<>>
           ELSE IF SetsTo(action, "hide-user-agent") THEN <<v["hide-user-agent"]>>
           ELSE Values(ref, "User-Agent"))
      /\ "hide-user-agent" \notin DOMAIN v => ua = ref
  BY <1>a, Hidden
<1>b. IsHeaders(ua)
  BY <1>2 DEF Replaces
<1> HIDE DEF ua
<1>3. /\ Replaces(agent, ua, "User-Agent",
           IF "send-user-agent" \in DOMAIN v THEN <<v["send-user-agent"]>>
           ELSE Values(ua, "User-Agent"))
      /\ "send-user-agent" \notin DOMAIN v => agent = ua
  BY <1>b, Overwritten
<1>c. IsHeaders(agent)
  BY <1>3 DEF Replaces
<1> HIDE DEF agent
<1>4. /\ Replaces(fr, agent, "From",
           IF Blocks(action, "hide-from-header") THEN <<>>
           ELSE IF SetsTo(action, "hide-from-header") THEN <<v["hide-from-header"]>>
           ELSE Values(agent, "From"))
      /\ "hide-from-header" \notin DOMAIN v => fr = agent
  BY <1>c, Hidden
<1>d. IsHeaders(fr)
  BY <1>4 DEF Replaces
<1> HIDE DEF fr
<1>5. /\ Replaces(from, fr, "Accept-Language",
           IF Blocks(action, "hide-accept-language") THEN <<>>
           ELSE IF SetsTo(action, "hide-accept-language") THEN <<v["hide-accept-language"]>>
           ELSE Values(fr, "Accept-Language"))
      /\ "hide-accept-language" \notin DOMAIN v => from = fr
  BY <1>d, Hidden
<1>e. IsHeaders(from)
  BY <1>5 DEF Replaces
<1> HIDE DEF from
<1>6. /\ Replaces(enc, from, "Accept-Encoding",
           IF "prevent-compression" \in action.on THEN <<V(<<"identity">>)>>
           ELSE Values(from, "Accept-Encoding"))
      /\ "prevent-compression" \notin action.on => enc = from
  BY <1>e, CompressionPrevented
<1>f. IsHeaders(enc)
  BY <1>6 DEF Replaces
<1> HIDE DEF enc
<1>7. /\ Replaces(g, enc, "Cookie",
           IF "session-cookies-only" \in action.on /\ Has(enc, "Cookie")
           THEN <<V(SelectSeq(get_header(enc, "Cookie").text, LAMBDA w : w \notin Secure))>>
           ELSE Values(enc, "Cookie"))
      /\ "session-cookies-only" \notin action.on => g = enc
  BY <1>f, CookiesOfSession
<1>g. IsHeaders(g)
  BY <1>7 DEF Replaces
<1> HIDE DEF g
<1>8. \A n : n \notin {"Referer", "User-Agent", "From", "Accept-Language", "Accept-Encoding", "Cookie"}
               => Values(g, n) = Values(h, n)
  BY <1>1, <1>2, <1>3, <1>4, <1>5, <1>6, <1>7, ZenonT(40) DEF Replaces
<1>9. ASSUME NEW n, Adding(n) = {}
      PROVE  Values(g, n) = MadeRequest(n)
  <2>1. Values(h, n) = IF Withheld(n) THEN <<>> ELSE Values(request, n)
    OBVIOUS
  <2>2. n # "Cookie" => Passed(n) = Values(h, n)
    BY <2>1 DEF Passed, Has
  <2>3. DOMAIN HiddenBy = {"User-Agent", "From", "Accept-Language", "Referer"}
    BY DEF HiddenBy
  <2>4. /\ HiddenBy["User-Agent"] = "hide-user-agent" /\ HiddenBy["From"] = "hide-from-header"
        /\ HiddenBy["Accept-Language"] = "hide-accept-language"
    BY DEF HiddenBy
  <2>5. CASE n = "Referer"
    <3>1. Values(g, n) = Values(ref, n)
      BY <1>2, <1>3, <1>4, <1>5, <1>6, <1>7, <2>5 DEF Replaces
    <3>2. Values(ref, n) =
            IF "hide-referrer" \notin DOMAIN v THEN Values(h, n)
            ELSE IF \/ Blocks(action, "hide-referrer")
                    \/ v["hide-referrer"] = V(<<"conditional-block">>) THEN <<>>
            ELSE IF ~Forges(action) THEN <<v["hide-referrer"]>>
            ELSE IF Has(h, "Host") THEN <<Forged(get_header(h, "Host"))>>
            ELSE Values(h, n)
      BY <1>1, <2>5 DEF Replaces
    <3>3. /\ Has(h, "Host") <=> Has(request, "Host") /\ ~Withheld("Host")
          /\ ~Withheld("Host") => get_header(h, "Host") = get_header(request, "Host")
      BY DEF Has, get_header
    <3>4. "hide-referrer" \in DOMAIN v => Values(g, n) = MadeReferer
      BY <2>2, <2>5, <3>1, <3>2, <3>3 DEF MadeReferer
    <3>5. "hide-referrer" \notin DOMAIN v =>
            HiddenBy[n] \notin DOMAIN v /\ Values(g, n) = Passed(n)
      BY <2>2, <2>5, <3>1, <3>2 DEF HiddenBy
    <3>6. "hide-referrer" \notin DOMAIN v =>
            ~Blocks(action, HiddenBy[n]) /\ ~SetsTo(action, HiddenBy[n])
      BY <3>5 DEF Blocks, SetsTo
    <3>7. QED
      BY <1>9, <2>5, <3>4, <3>5, <3>6 DEF MadeRequest
  <2>6. CASE n = "User-Agent"
    <3>1. Values(g, n) = Values(agent, n) /\ Values(ref, n) = Values(h, n)
      BY <1>1, <1>4, <1>5, <1>6, <1>7, <2>6 DEF Replaces
    <3>2. Values(agent, n) =
            IF "send-user-agent" \in DOMAIN v THEN <<v["send-user-agent"]>>
            ELSE IF Blocks(action, "hide-user-agent") THEN <<>>
            ELSE IF SetsTo(action, "hide-user-agent") THEN <<v["hide-user-agent"]>>
            ELSE Values(ref, n)
      BY <1>2, <1>3, <2>6 DEF Replaces
    <3>3. QED
      BY <1>9, <2>2, <2>3, <2>4, <2>6, <3>1, <3>2 DEF MadeRequest
  <2>7. CASE n = "From"
    <3>1. Values(g, n) = Values(fr, n) /\ Values(agent, n) = Values(h, n)
      BY <1>1, <1>2, <1>3, <1>5, <1>6, <1>7, <2>7 DEF Replaces
    <3>2. Values(fr, n) =
            IF Blocks(action, "hide-from-header") THEN <<>>
            ELSE IF SetsTo(action, "hide-from-header") THEN <<v["hide-from-header"]>>
            ELSE Values(agent, n)
      BY <1>4, <2>7 DEF Replaces
    <3>3. QED
      BY <1>9, <2>2, <2>3, <2>4, <2>7, <3>1, <3>2 DEF MadeRequest
  <2>8. CASE n = "Accept-Language"
    <3>1. Values(g, n) = Values(from, n) /\ Values(fr, n) = Values(h, n)
      BY <1>1, <1>2, <1>3, <1>4, <1>6, <1>7, <2>8 DEF Replaces
    <3>2. Values(from, n) =
            IF Blocks(action, "hide-accept-language") THEN <<>>
            ELSE IF SetsTo(action, "hide-accept-language") THEN <<v["hide-accept-language"]>>
            ELSE Values(fr, n)
      BY <1>5, <2>8 DEF Replaces
    <3>3. QED
      BY <1>9, <2>2, <2>3, <2>4, <2>8, <3>1, <3>2 DEF MadeRequest
  <2>9. CASE n = "Accept-Encoding"
    <3>1. Values(g, n) = Values(enc, n) /\ Values(from, n) = Values(h, n)
      BY <1>1, <1>2, <1>3, <1>4, <1>5, <1>7, <2>9 DEF Replaces
    <3>2. Values(enc, n) = IF "prevent-compression" \in action.on THEN <<V(<<"identity">>)>>
                           ELSE Values(from, n)
      BY <1>6, <2>9 DEF Replaces
    <3>3. QED
      BY <1>9, <2>2, <2>3, <2>9, <3>1, <3>2 DEF MadeRequest
  <2>10. CASE n = "Cookie"
    <3>1. Values(enc, n) = Values(h, n)
      BY <1>1, <1>2, <1>3, <1>4, <1>5, <1>6, <2>10 DEF Replaces
    <3>2. Values(g, n) =
            IF "session-cookies-only" \in action.on /\ Has(enc, n)
            THEN <<V(SelectSeq(get_header(enc, n).text, LAMBDA w : w \notin Secure))>>
            ELSE Values(enc, n)
      BY <1>7, <2>10 DEF Replaces
    <3>3. Has(enc, n) <=> Has(request, n) /\ ~Withheld(n)
      BY <2>1, <3>1 DEF Has
    <3>4. Has(enc, n) => get_header(enc, n) = get_header(request, n)
      BY <2>1, <3>1, <3>3 DEF get_header
    <3>5. ~Has(enc, n) => Values(enc, n) = <<>>
      BY DEF Has
    <3>6. Has(enc, n) => Values(enc, n) = Values(request, n)
      BY <2>1, <3>1, <3>3
    <3>7. Values(g, n) = Passed(n)
      BY <2>10, <3>2, <3>3, <3>4, <3>5, <3>6 DEF Passed
    <3>8. QED
      BY <1>9, <2>3, <2>10, <3>7 DEF MadeRequest
  <2>11. CASE n \notin {"Referer", "User-Agent", "From", "Accept-Language", "Accept-Encoding",
                        "Cookie"}
    <3>1. Values(g, n) = Passed(n)
      BY <1>8, <2>2, <2>11
    <3>2. QED
      BY <1>9, <2>3, <2>11, <3>1 DEF MadeRequest
  <2>12. QED
    BY <2>5, <2>6, <2>7, <2>8, <2>9, <2>10, <2>11
<1>10. ASSUME NEW S, \A n \in DOMAIN HiddenBy \union {"Accept-Encoding", "Cookie"} :
                       Touched(n) => n \in S
       PROVE  Drop(g, S) = Drop(h, S)
  <2>1. /\ "hide-referrer" \in DOMAIN v => "Referer" \in S
        /\ "hide-user-agent" \in DOMAIN v \/ "send-user-agent" \in DOMAIN v => "User-Agent" \in S
        /\ "hide-from-header" \in DOMAIN v => "From" \in S
        /\ "hide-accept-language" \in DOMAIN v => "Accept-Language" \in S
        /\ "prevent-compression" \in action.on => "Accept-Encoding" \in S
        /\ "session-cookies-only" \in action.on => "Cookie" \in S
    BY <1>10 DEF Touched, HiddenBy
  <2>2. Drop(ref, S) = Drop(h, S) /\ Drop(ua, S) = Drop(ref, S)
    BY <1>1, <1>2, <2>1 DEF Replaces
  <2>3. Drop(agent, S) = Drop(ua, S) /\ Drop(fr, S) = Drop(agent, S)
    BY <1>3, <1>4, <2>1 DEF Replaces
  <2>4. Drop(from, S) = Drop(fr, S) /\ Drop(enc, S) = Drop(from, S)
    BY <1>5, <1>6, <2>1 DEF Replaces
  <2>5. Drop(g, S) = Drop(enc, S)
    BY <1>7, <2>1 DEF Replaces
  <2>6. QED
    BY <2>2, <2>3, <2>4, <2>5
<1>11. QED
  BY <1>0, <1>g, <1>9, <1>10

\* apply_client_header_actions: the headers that the server is sent.
LEMMA RequestRuled ==
  ASSUME action \in ActionType, IsHeaders(request), NEW client,
         sent = apply_client_header_actions(request, action, client)
  PROVE  /\ \A n : Values(sent, n) = MadeRequest(n)
         /\ LET touched == {n \in Names(request) \union Names(sent) : Touched(n)}
            IN Drop(sent, touched) = Drop(request, touched)
<1> DEFINE c == apply_client_header_crunching(request, action)
           g == apply_client_header_hiding(c, action, client)
           k == Len(Added)
<1>1. /\ IsHeaders(c)
      /\ \A n : Values(c, n) = IF Withheld(n) THEN <<>> ELSE Values(request, n)
      /\ \A S : (\A n \in Names(request) \union {"Cookie", "If-None-Match"} :
                   Withheld(n) => n \in S)
                  => Drop(c, S) = Drop(request, S)
  BY Crunched
<1> HIDE DEF c
<1>2. /\ IsHeaders(g)
      /\ \A n : Adding(n) = {} => Values(g, n) = MadeRequest(n)
      /\ \A S : (\A n \in DOMAIN HiddenBy \union {"Accept-Encoding", "Cookie"} :
                   Touched(n) => n \in S)
                  => Drop(g, S) = Drop(c, S)
  BY <1>1, HiddenAsRuled
<1> HIDE DEF g
<1>3. sent = apply_add_header(g, action)
  BY DEF apply_client_header_actions, c, g
<1>4. DOMAIN Added = 1 .. k
  <2>1. Added \in Seq(ArgumentOf("add-header"))
    BY ArgumentsTyped DEF Added
  <2>2. QED
    BY <2>1
<1>5. /\ \A n : Values(sent, n) = IF Additions(Added, n, k) = {} THEN Values(g, n)
                                  ELSE <<V(Tail(Added[Max(Additions(Added, n, k))].text))>>
      /\ \A S : (\A i \in DOMAIN Added : Adds(Added[i]) => Added[i].text[1] \in S)
                  => Drop(sent, S) = Drop(g, S)
  BY <1>2, <1>3, AddedAtTheEnd DEF Added
<1>6. \A n : Additions(Added, n, k) = Adding(n)
  BY <1>4 DEF Additions, Adding
<1>7. \A n : Values(sent, n) = MadeRequest(n)
  <2>1. ASSUME NEW n PROVE Values(sent, n) = MadeRequest(n)
    <3>1. CASE Adding(n) = {}
      BY <1>2, <1>5, <1>6, <3>1
    <3>2. CASE Adding(n) # {}
      BY <1>5, <1>6, <3>2 DEF MadeRequest
    <3>3. QED
      BY <3>1, <3>2
  <2>2. QED
    BY <2>1
<1>8. Drop(sent, {n \in Names(request) \union Names(sent) : Touched(n)})
        = Drop(request, {n \in Names(request) \union Names(sent) : Touched(n)})
  <2> DEFINE R == {n \in Names(request) \union Names(sent) : Touched(n)}
             N == Names(request) \union Names(sent)
                    \union DOMAIN HiddenBy \union {"Accept-Encoding", "Cookie", "If-None-Match"}
                    \union {Added[i].text[1] : i \in DOMAIN Added}
             S == {n \in N : Touched(n)}
  <2>1. \A n \in Names(request) \union Names(sent) : n \in R <=> n \in S
    OBVIOUS
  <2>2. \A n \in N : Touched(n) => n \in S
    OBVIOUS
  <2>3. \A i \in DOMAIN Added : Added[i].text[1] \in N
    OBVIOUS
  <2>4. /\ Names(request) \union {"Cookie", "If-None-Match"} \subseteq N
        /\ DOMAIN HiddenBy \union {"Accept-Encoding", "Cookie"} \subseteq N
    OBVIOUS
  <2> HIDE DEF R, S, N
  <2>5. Drop(c, S) = Drop(request, S)
    <3>1. \A n : Withheld(n) => Touched(n)
      BY DEF Touched
    <3>2. \A n \in Names(request) \union {"Cookie", "If-None-Match"} : Withheld(n) => n \in S
      BY <2>2, <2>4, <3>1
    <3>3. QED
      BY <1>1, <3>2
  <2>6. Drop(g, S) = Drop(c, S)
    <3>1. \A n \in DOMAIN HiddenBy \union {"Accept-Encoding", "Cookie"} : Touched(n) => n \in S
      BY <2>2, <2>4
    <3>2. QED
      BY <1>2, <3>1
  <2>7. Drop(sent, S) = Drop(g, S)
    <3>1. \A i \in DOMAIN Added : Adds(Added[i]) => Added[i].text[1] \in S
      <4>1. ASSUME NEW i \in DOMAIN Added, Adds(Added[i]) PROVE Touched(Added[i].text[1])
        <5>1. i \in Adding(Added[i].text[1])
          BY <4>1 DEF Adding
        <5>2. QED
          BY <5>1 DEF Touched
      <4>2. QED
        BY <2>2, <2>3, <4>1
    <3>2. QED
      BY <1>5, <3>1
  <2>8. Drop(sent, R) = Drop(sent, S) /\ Drop(request, R) = Drop(request, S)
    BY <2>1, DropAgrees
  <2>9. QED
    BY <2>5, <2>6, <2>7, <2>8 DEF R
<1>9. QED
  BY <1>7, <1>8

-----------------------------------------------------------------------------
LEMMA DateOverwritten ==
  ASSUME NEW h, IsHeaders(h), NEW a
  PROVE  LET v == a.value["overwrite-last-modified"]
         IN Replaces(apply_overwrite_last_modified(h, a), h, "Last-Modified",
              IF Blocks(a, "overwrite-last-modified") THEN <<>>
              ELSE IF /\ "overwrite-last-modified" \in DOMAIN a.value
                      /\ v \in {V(<<"reset-to-request-time">>), V(<<"randomize">>)}
              THEN <<V(<<Now>> \o v.text)>>
              ELSE Values(h, "Last-Modified"))
BY RemoveReplaces, SetReplaces, StaysAsItIs DEF apply_overwrite_last_modified

\* apply_limit_cookie_lifetime: what it makes of the cookies is not said.
LEMMA LifetimeLimited ==
  ASSUME NEW h, IsHeaders(h), NEW a
  PROVE  LET g == apply_limit_cookie_lifetime(h, a)
         IN /\ IsHeaders(g)
            /\ \A n : \/ Values(g, n) = Values(h, n)
                      \/ n = "Set-Cookie" /\ "limit-cookie-lifetime" \in DOMAIN a.value
                           /\ Values(h, n) # <<>>
<1> DEFINE v == Limited(get_header(h, "Set-Cookie"),
                        MaxAge[a.value["limit-cookie-lifetime"].text[1]])
<1>1. Replaces(set_header(h, "Set-Cookie", v), h, "Set-Cookie", <<v>>)
  BY SetReplaces
<1> HIDE DEF v
<1>2. QED
  BY <1>1 DEF apply_limit_cookie_lifetime, Replaces, Has, v

LEMMA TextForced ==
  ASSUME NEW h, IsHeaders(h), NEW a
  PROVE  Replaces(apply_force_text_mode(h, a), h, "Content-Type",
           IF "force-text-mode" \in a.on THEN <<V(<<"text/plain">>)>>
           ELSE Values(h, "Content-Type"))
BY SetReplaces, StaysAsItIs DEF apply_force_text_mode

\* +hide-content-disposition cuts its argument too late to be "block".
LEMMA NeverBlocksDisposition ==
  ASSUME NEW a \in ActionType
  PROVE  ~Blocks(a, "hide-content-disposition")
<1>1. \A n \in DOMAIN a.value \ DOMAIN Default : a.value[n].off = Offset(n)
  BY DEF ActionType, Settings, OffAsNamed
<1>2. /\ Offset("hide-content-disposition") = 1
      /\ "hide-content-disposition" \notin DOMAIN Default
  BY DEF Offset, Default, Blockers
<1>3. V(<<"block">>).off = 0
  BY DEF V
<1>4. QED
  BY <1>1, <1>2, <1>3 DEF Blocks

\* What the code makes of a header, in the terms of the arguments that it keeps.
Redates ==
  /\ "overwrite-last-modified" \in DOMAIN action.value
  /\ action.value["overwrite-last-modified"] \in {V(<<"reset-to-request-time">>), V(<<"randomize">>)}

MadeResponse(name) ==
  IF name = "Content-Type" /\ "force-text-mode" \in action.on THEN <<V(<<"text/plain">>)>>
  ELSE IF name = "Content-Type" /\ "content-type-overwrite" \in DOMAIN action.value
  THEN <<action.value["content-type-overwrite"]>>
  ELSE IF name = "Last-Modified" /\ Blocks(action, "overwrite-last-modified") THEN <<>>
  ELSE IF name = "Last-Modified" /\ Redates
  THEN <<V(<<Now>> \o action.value["overwrite-last-modified"].text)>>
  ELSE IF name = "Content-Disposition" /\ SetsTo(action, "hide-content-disposition")
  THEN <<action.value["hide-content-disposition"]>>
  ELSE IF name = "Set-Cookie" /\ "crunch-incoming-cookies" \in action.on THEN <<>>
  ELSE Values(response, name)

\* Every argument of this list is cut too early.
LEMMA NamedMiscut ==
  ASSUME action \in ActionType, NEW n, Named("crunch-server-header", n)
  PROVE  n \in MiscutNames("crunch-server-header")
<1> DEFINE list == "crunch-server-header"
           args == Arguments(action, list)
<1>1. args \in Seq(ArgumentOf(list))
  BY ArgumentsTyped
<1>2. Offset(list) = -1
  BY DEF Offset
<1>3. PICK v \in ToSet(args) : n \in NamesWith[v.text]
  BY DEF Named
<1> HIDE DEF args
<1>4. v.off # 0
  BY <1>1, <1>2, <1>3 DEF ToSet, ArgumentOf
<1>5. QED
  BY <1>3, <1>4 DEF MiscutNames, args

\* The code makes of a header what the rule says, unless an argument is cut wrongly.
LEMMA ResponseMadeAsRuled ==
  ASSUME action \in ActionType, NEW n
  PROVE  \/ MadeResponse(n) = RuledResponse(n)
         \/ n = "Content-Disposition" /\ Miscut("hide-content-disposition")
         \/ n \in MiscutNames("crunch-server-header")
<1>1. Offset("content-type-overwrite") = 0 /\ Offset("overwrite-last-modified") = 0
  BY DEF Offset
<1>2. "content-type-overwrite" \in DOMAIN action.value =>
        Says("content-type-overwrite") = action.value["content-type-overwrite"]
  BY <1>1, KeptWhole
<1> DEFINE o == "overwrite-last-modified"
<1>3. /\ o \in DOMAIN action.value => Says(o) = action.value[o]
      /\ \A w : Written(o, w) <=> o \in DOMAIN action.value /\ action.value[o] = V(<<w>>)
      /\ Written(o, "block") <=> Blocks(action, o)
  BY <1>1, KeptWhole
<1>4. Redates <=> Redated
  BY <1>3 DEF Redates, Redated
<1>5. Redates => o \in DOMAIN action.value
  BY DEF Redates
<1> HIDE DEF o
<1>6. "hide-content-disposition" \in DOMAIN action.value => Miscut("hide-content-disposition")
  <2> DEFINE d == "hide-content-disposition"
  <2>1. d \in DOMAIN action.value => OffAsNamed(d, action.value[d])
    BY DEF ActionType, Settings
  <2>2. d \notin DOMAIN Default /\ Offset(d) = 1
    BY DEF Default, Blockers, Offset
  <2>3. QED
    BY <2>1, <2>2 DEF OffAsNamed, Miscut
<1>7. SetsTo(action, "hide-content-disposition") =>
        "hide-content-disposition" \in DOMAIN action.value
  BY DEF SetsTo
<1>8. CASE n = "Content-Disposition" /\ "hide-content-disposition" \in DOMAIN action.value
  BY <1>6, <1>8
<1>9. CASE Named("crunch-server-header", n)
  BY <1>9, NamedMiscut
<1>10. CASE /\ ~(n = "Content-Disposition" /\ "hide-content-disposition" \in DOMAIN action.value)
            /\ ~Named("crunch-server-header", n)
  <2>1. /\ ~(n = "Content-Disposition" /\ SetsTo(action, "hide-content-disposition"))
        /\ ~(n = "Content-Disposition" /\ Written("hide-content-disposition", "block"))
    BY <1>7, <1>10 DEF Written
  <2>2. Returned(n) = IF n = "Set-Cookie" /\ "crunch-incoming-cookies" \in action.on THEN <<>>
                      ELSE Values(response, n)
    BY <1>10 DEF Returned
  <2>3. n = "Last-Modified" /\ Redates =>
          V(<<Now>> \o action.value["overwrite-last-modified"].text)
            = V(<<Now>> \o Says("overwrite-last-modified").text)
    BY <1>3, <1>5 DEF o
  <2>4. Blocks(action, "overwrite-last-modified") <=> Written("overwrite-last-modified", "block")
    BY <1>3 DEF o
  <2>5. QED
    BY <1>2, <1>4, <1>10, <2>1, <2>2, <2>3, <2>4 DEF MadeResponse, RuledResponse
<1>11. QED
  BY <1>8, <1>9, <1>10

\* apply_action_to_response: the headers that the client is sent.
LEMMA ResponseRuled ==
  ASSUME action \in ActionType, IsHeaders(response),
         delivered = apply_action_to_response(response, action)
  PROVE  \A n : \/ Values(delivered, n) = MadeResponse(n)
                \/ n = "Set-Cookie" /\ "limit-cookie-lifetime" \in DOMAIN action.value
                     /\ "crunch-incoming-cookies" \notin action.on
<1> DEFINE c == crunch(response, action, "crunch-server-header")
           r == remove_if(c, action, "crunch-incoming-cookies", "Set-Cookie")
           hid == hide(r, action, "hide-content-disposition", "Content-Disposition")
           date == apply_overwrite_last_modified(hid, action)
           type == overwrite(date, action, "content-type-overwrite", "Content-Type")
           life == apply_limit_cookie_lifetime(type, action)
           text == apply_force_text_mode(life, action)
           v == action.value
<1>0. delivered = text
  BY DEF apply_action_to_response, apply_server_header_actions
<1>1. IsHeaders(c) /\ \A n : Values(c, n) = Values(response, n)
  BY CrunchDrops, NothingCrunched
<1> HIDE DEF c
<1>2. Replaces(r, c, "Set-Cookie",
        IF "crunch-incoming-cookies" \in action.on THEN <<>> ELSE Values(c, "Set-Cookie"))
  BY <1>1, RemovedIf
<1>a. IsHeaders(r)
  BY <1>2 DEF Replaces
<1> HIDE DEF r
<1>3. Replaces(hid, r, "Content-Disposition",
        IF SetsTo(action, "hide-content-disposition") THEN <<v["hide-content-disposition"]>>
        ELSE Values(r, "Content-Disposition"))
  <2>1. Replaces(hid, r, "Content-Disposition",
          IF Blocks(action, "hide-content-disposition") THEN <<>>
          ELSE IF SetsTo(action, "hide-content-disposition") THEN <<v["hide-content-disposition"]>>
          ELSE Values(r, "Content-Disposition"))
    BY <1>a, Hidden
  <2>2. ~Blocks(action, "hide-content-disposition")
    BY NeverBlocksDisposition
  <2> HIDE DEF hid, v
  <2>3. QED
    BY <2>1, <2>2
<1>b. IsHeaders(hid)
  BY <1>3 DEF Replaces
<1> HIDE DEF hid
<1>4. Replaces(date, hid, "Last-Modified",
        IF Blocks(action, "overwrite-last-modified") THEN <<>>
        ELSE IF Redates THEN <<V(<<Now>> \o v["overwrite-last-modified"].text)>>
        ELSE Values(hid, "Last-Modified"))
  BY <1>b, DateOverwritten DEF Redates
<1>c. IsHeaders(date)
  BY <1>4 DEF Replaces
<1> HIDE DEF date
<1>5. Replaces(type, date, "Content-Type",
        IF "content-type-overwrite" \in DOMAIN v THEN <<v["content-type-overwrite"]>>
        ELSE Values(date, "Content-Type"))
  BY <1>c, Overwritten
<1>d. IsHeaders(type)
  BY <1>5 DEF Replaces
<1> HIDE DEF type
<1>6. /\ IsHeaders(life)
      /\ \A n : \/ Values(life, n) = Values(type, n)
                \/ n = "Set-Cookie" /\ "limit-cookie-lifetime" \in DOMAIN v
                     /\ Values(type, n) # <<>>
  BY <1>d, LifetimeLimited
<1> HIDE DEF life
<1>7. Replaces(text, life, "Content-Type",
        IF "force-text-mode" \in action.on THEN <<V(<<"text/plain">>)>>
        ELSE Values(life, "Content-Type"))
  BY <1>6, TextForced
<1> HIDE DEF text
<1> SUFFICES ASSUME NEW n
             PROVE  \/ Values(text, n) = MadeResponse(n)
                    \/ n = "Set-Cookie" /\ "limit-cookie-lifetime" \in DOMAIN v
                         /\ "crunch-incoming-cookies" \notin action.on
  BY <1>0
<1>8. CASE n = "Content-Type"
  <2>1. Values(text, n) = IF "force-text-mode" \in action.on THEN <<V(<<"text/plain">>)>>
                          ELSE Values(life, n)
    BY <1>7, <1>8 DEF Replaces
  <2>2. Values(life, n) = Values(type, n)
    BY <1>6, <1>8
  <2>3. Values(type, n) = IF "content-type-overwrite" \in DOMAIN v
                          THEN <<v["content-type-overwrite"]>> ELSE Values(date, n)
    BY <1>5, <1>8 DEF Replaces
  <2>4. Values(date, n) = Values(response, n)
    BY <1>1, <1>2, <1>3, <1>4, <1>8 DEF Replaces
  <2>5. QED
    BY <1>8, <2>1, <2>2, <2>3, <2>4 DEF MadeResponse
<1>9. CASE n = "Last-Modified"
  <2>1. Values(text, n) = Values(date, n)
    BY <1>5, <1>6, <1>7, <1>9 DEF Replaces
  <2>2. Values(date, n) =
          IF Blocks(action, "overwrite-last-modified") THEN <<>>
          ELSE IF Redates THEN <<V(<<Now>> \o v["overwrite-last-modified"].text)>>
          ELSE Values(hid, n)
    BY <1>4, <1>9 DEF Replaces
  <2>3. Values(hid, n) = Values(response, n)
    BY <1>1, <1>2, <1>3, <1>9 DEF Replaces
  <2>4. QED
    BY <1>9, <2>1, <2>2, <2>3 DEF MadeResponse
<1>10. CASE n = "Content-Disposition"
  <2>1. Values(text, n) = Values(hid, n)
    BY <1>4, <1>5, <1>6, <1>7, <1>10 DEF Replaces
  <2>2. Values(hid, n) = IF SetsTo(action, "hide-content-disposition")
                         THEN <<v["hide-content-disposition"]>> ELSE Values(r, n)
    BY <1>3, <1>10 DEF Replaces
  <2>3. Values(r, n) = Values(response, n)
    BY <1>1, <1>2, <1>10 DEF Replaces
  <2>4. QED
    BY <1>10, <2>1, <2>2, <2>3 DEF MadeResponse
<1>11. CASE n = "Set-Cookie"
  <2>1. Values(text, n) = Values(life, n) /\ Values(type, n) = Values(r, n)
    BY <1>3, <1>4, <1>5, <1>7, <1>11 DEF Replaces
  <2>2. Values(r, n) = IF "crunch-incoming-cookies" \in action.on THEN <<>>
                       ELSE Values(response, n)
    BY <1>1, <1>2, <1>11 DEF Replaces
  <2>3. MadeResponse(n) = IF "crunch-incoming-cookies" \in action.on THEN <<>>
                           ELSE Values(response, n)
    BY <1>11 DEF MadeResponse
  <2>4. QED
    BY <1>6, <1>11, <2>1, <2>2, <2>3
<1>12. CASE n \notin {"Content-Type", "Last-Modified", "Content-Disposition", "Set-Cookie"}
  <2>1. Values(text, n) = Values(response, n)
    BY <1>1, <1>2, <1>3, <1>4, <1>5, <1>6, <1>7, <1>12 DEF Replaces
  <2>2. QED
    BY <1>12, <2>1 DEF MadeResponse
<1>13. QED
  BY <1>8, <1>9, <1>10, <1>11, <1>12

-----------------------------------------------------------------------------
\* The inductive invariant: the action is one that tokens can make, and what went
\* out is what came in, rewritten.
Rewritten ==
  /\ action \in ActionType
  /\ request \in Seq(HeaderType) /\ response \in Seq(HeaderType)
  /\ stage = "forwarded" => sent = apply_client_header_actions(request, action, Client)
  /\ stage = "answered" => delivered = apply_action_to_response(response, action)

LEMMA RewrittenHolds == Spec => []Rewritten
<1>1. Init => Rewritten
  <2> SUFFICES ASSUME Init PROVE Rewritten
    OBVIOUS
  <2>1. tokens \in Seq(TokenType)
    BY HeadersAssumption DEF Init
  <2>2. action \in ActionType
    BY <2>1, ParsedType DEF Init
  <2>3. QED
    BY <2>2 DEF Init, Rewritten
<1>2. Rewritten /\ [Next]_vars => Rewritten'
  <2> SUFFICES ASSUME Rewritten, [Next]_vars PROVE Rewritten'
    OBVIOUS
  <2>1. ASSUME NEW h \in Requests, Stop(h) PROVE Rewritten'
    BY <2>1, HeadersAssumption DEF Stop, Rewritten
  <2>2. ASSUME NEW h \in Requests, Forward(h) PROVE Rewritten'
    BY <2>2, HeadersAssumption DEF Forward, Rewritten
  <2>3. ASSUME NEW h \in Responses, Answer(h) PROVE Rewritten'
    BY <2>3, HeadersAssumption DEF Answer, Rewritten
  <2>4. CASE UNCHANGED vars
    BY <2>4 DEF vars, Rewritten
  <2>5. QED
    BY <2>1, <2>2, <2>3, <2>4 DEF Next
<1>3. QED
  BY <1>1, <1>2, PTL DEF Spec

\* Whatever the rule and the client's headers, the server is sent what the rule
\* says of each header, unless its option has an argument that is cut wrongly, and
\* the others in the client's order.
THEOREM RequestHolds == Spec => []RequestAsRuled
<1>1. Rewritten => RequestAsRuled
  <2> SUFFICES ASSUME Rewritten, stage = "forwarded" PROVE RequestAsRuled
    BY DEF RequestAsRuled
  <2>1. /\ action \in ActionType /\ IsHeaders(request)
        /\ sent = apply_client_header_actions(request, action, Client)
    BY DEF Rewritten, IsHeaders
  <2>2. /\ \A n : Values(sent, n) = MadeRequest(n)
        /\ LET touched == {n \in Names(request) \union Names(sent) : Touched(n)}
           IN Drop(sent, touched) = Drop(request, touched)
    BY <2>1, RequestRuled
  <2>3. \A n : \/ MadeRequest(n) = RuledRequest(n)
               \/ n \in DOMAIN ChangedBy /\ Miscut(ChangedBy[n])
    BY <2>1, MadeAsRuled
  <2>4. QED
    BY <2>2, <2>3 DEF RequestAsRuled
<1>2. QED
  BY <1>1, RewrittenHolds, PTL

\* Whatever the rule and the server's headers, the client is sent what the rule says
\* of each header, but for cookies whose lifetime is limited and for the arguments
\* that are cut wrongly.
THEOREM ResponseHolds == Spec => []ResponseAsRuled
<1>1. Rewritten => ResponseAsRuled
  <2> SUFFICES ASSUME Rewritten, stage = "answered" PROVE ResponseAsRuled
    BY DEF ResponseAsRuled
  <2>1. /\ action \in ActionType /\ IsHeaders(response)
        /\ delivered = apply_action_to_response(response, action)
    BY DEF Rewritten, IsHeaders
  <2>2. \A n : \/ Values(delivered, n) = MadeResponse(n)
               \/ n = "Set-Cookie" /\ "limit-cookie-lifetime" \in DOMAIN action.value
                    /\ "crunch-incoming-cookies" \notin action.on
    BY <2>1, ResponseRuled
  <2>3. \A n : \/ MadeResponse(n) = RuledResponse(n)
               \/ n = "Content-Disposition" /\ Miscut("hide-content-disposition")
               \/ n \in MiscutNames("crunch-server-header")
    BY <2>1, ResponseMadeAsRuled
  <2>4. QED
    BY <2>2, <2>3 DEF ResponseAsRuled
<1>2. QED
  BY <1>1, RewrittenHolds, PTL
=============================================================================
