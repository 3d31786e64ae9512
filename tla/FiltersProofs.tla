---------------------------- MODULE FiltersProofs ----------------------------
(* Proofs about Filters, for every filter file, however long, and every rule,    *)
(* request and answer of the kinds FiltersAssumption names.                      *)
(*                                                                               *)
(* The code is a fold wherever it reads a text, a file or a list of filters; what *)
(* the properties say of the result is said at once, by the set of places where  *)
(* something stands.  A fold is unrolled to a function of the positions it has   *)
(* passed (FoldComes), and a set of positions says at each of them what the fold *)
(* has come to: the parity of the backslashes in front (ScanIs), the occurrences *)
(* begun so far (ReplacedIs), the lines that wait (ClosedAppend), the filters of *)
(* the lines up to here (GroupedIs), the jobs of the filters applied (ContentIs). *)
EXTENDS Filters, SequenceTheorems, WellFoundedInduction, TLAPS

-----------------------------------------------------------------------------
\* Numbers, sequences and what is put together of them.

\* A set of numbers that is not empty has a least one.
LEMMA LeastNat ==
  ASSUME NEW S, S \subseteq Nat, S # {}
  PROVE  \E n \in S : \A m \in S : n <= m
  <1> DEFINE R == OpToRel(<, Nat)
  <1>1. \A m, n \in Nat : m < n => <<m, n>> \in R
    BY DEF OpToRel
  <1>2. IsWellFoundedOn(R, Nat)
    BY NatLessThanWellFounded
  <1> HIDE DEF R
  <1>3. PICK n \in S : \A m \in S : <<m, n>> \notin R
    BY <1>2, WFMin
  <1>4. \A m \in S : m \in Nat /\ n \in Nat /\ ~(m < n)
    BY <1>1, <1>3
  <1>5. QED
    BY <1>4

\* Induction over the numbers, with a set.
LEMMA Induction ==
  ASSUME NEW S, 0 \in S, \A n \in Nat : n \in S => n + 1 \in S
  PROVE  Nat \subseteq S
  <1> SUFFICES ASSUME Nat \ S # {} PROVE FALSE
    OBVIOUS
  <1>1. PICK n \in Nat \ S : \A m \in Nat \ S : n <= m
    BY LeastNat
  <1>2. n # 0 /\ n - 1 \in Nat /\ n - 1 \in S
    BY <1>1
  <1>3. QED
    BY <1>1, <1>2

\* Induction over sequences, with a set.
LEMMA SeqInduction ==
  ASSUME NEW T, NEW S, <<>> \in S, \A s \in Seq(T), e \in T : s \in S => Append(s, e) \in S
  PROVE  Seq(T) \subseteq S
  <1> DEFINE L == {n \in Nat : \A s \in Seq(T) : Len(s) = n => s \in S}
  <1>1. 0 \in L
    BY EmptySeq
  <1>2. ASSUME NEW n \in Nat, n \in L PROVE n + 1 \in L
    <2> SUFFICES ASSUME NEW s \in Seq(T), Len(s) = n + 1 PROVE s \in S
      OBVIOUS
    <2>1. s # <<>>
      OBVIOUS
    <2>2. PICK r \in Seq(T), e \in T : s = Append(r, e)
      BY <2>1, SequenceEmptyOrAppend
    <2>3. Len(r) = n
      BY <2>2
    <2>4. QED
      BY <2>2, <2>3, <1>2
  <1>3. Nat \subseteq L
    <2> HIDE DEF L
    <2>1. QED
      BY <1>1, <1>2, Induction
  <1>4. ASSUME NEW s \in Seq(T) PROVE s \in S
    <2>1. Len(s) \in Nat
      OBVIOUS
    <2>2. Len(s) \in L
      BY <2>1, <1>3
    <2>3. QED
      BY <2>2
  <1>5. QED
    BY <1>4

\* The least of a set of numbers is one of them.
LEMMA MinIs ==
  ASSUME NEW S, S \subseteq Nat, S # {}
  PROVE  Min(S) \in S /\ \A m \in S : Min(S) <= m
  <1>1. \E n \in S : \A m \in S : n <= m
    BY LeastNat
  <1>2. QED
    BY <1>1 DEF Min

\* So is the greatest of numbers that are bounded.
LEMMA MaxIs ==
  ASSUME NEW n \in Nat, NEW S, S \subseteq 0 .. n, S # {}
  PROVE  Max(S) \in S /\ \A m \in S : m <= Max(S)
  <1> DEFINE D == {n - m : m \in S}
  <1>1. D \subseteq Nat /\ D # {}
    <2>1. \A m \in S : n - m \in Nat
      OBVIOUS
    <2>2. PICK x \in S : TRUE
      OBVIOUS
    <2>3. n - x \in D
      BY <2>2
    <2>4. QED
      BY <2>1, <2>3
  <1>2. PICK d \in D : \A k \in D : d <= k
    <2> HIDE DEF D
    <2>1. QED
      BY <1>1, LeastNat
  <1>3. PICK x \in S : d = n - x
    BY <1>2
  <1>4. \A m \in S : n - x <= n - m
    BY <1>2, <1>3
  <1>5. \A m \in S : m <= x
    BY <1>4
  <1>6. QED
    BY <1>5 DEF Max

-----------------------------------------------------------------------------
\* FlattenSeq by its prefixes: f[i] is the first i sequences put together.
Chain(f, ss, n) ==
  \A i \in 1 .. n : f[i] = IF i = 1 THEN ss[i] ELSE f[i - 1] \o ss[i]

\* There is such a sequence of prefixes.
LEMMA ChainExists ==
  ASSUME NEW T, NEW ss \in Seq(Seq(T))
  PROVE  \E f \in [1 .. Len(ss) -> Seq(T)] : Chain(f, ss, Len(ss))
  <1> DEFINE S == {n \in Nat : n <= Len(ss) => \E f \in [1 .. n -> Seq(T)] : Chain(f, ss, n)}
  <1>a. Len(ss) \in Nat
    OBVIOUS
  <1>1. 0 \in S
    <2> DEFINE f == [i \in 1 .. 0 |-> <<>>]
    <2>1. f \in [1 .. 0 -> Seq(T)] /\ 1 .. 0 = {}
      OBVIOUS
    <2> HIDE DEF f
    <2>2. Chain(f, ss, 0)
      BY <2>1 DEF Chain
    <2>3. QED
      BY <2>1, <2>2
  <1>2. ASSUME NEW n \in Nat, n \in S PROVE n + 1 \in S
    <2> SUFFICES ASSUME n + 1 <= Len(ss)
                 PROVE  \E g \in [1 .. n + 1 -> Seq(T)] : Chain(g, ss, n + 1)
      OBVIOUS
    <2>1. PICK f \in [1 .. n -> Seq(T)] : Chain(f, ss, n)
      BY <1>2, <1>a
    <2>2. ss[n + 1] \in Seq(T)
      BY <1>a
    <2> DEFINE new == IF n = 0 THEN ss[n + 1] ELSE f[n] \o ss[n + 1]
               g == [i \in 1 .. n + 1 |-> IF i = n + 1 THEN new ELSE f[i]]
    <2>3. new \in Seq(T)
      <3>1. CASE n = 0
        BY <2>2, <3>1
      <3>2. CASE n # 0
        <4>1. f[n] \in Seq(T)
          <5>1. n \in 1 .. n
            BY <3>2
          <5>2. QED
            BY <5>1
        <4>2. f[n] \o ss[n + 1] \in Seq(T)
          BY <4>1, <2>2, ConcatProperties
        <4>3. QED
          BY <4>2, <3>2
      <3>3. QED
        BY <3>1, <3>2
    <2>4. g \in [1 .. n + 1 -> Seq(T)]
      <3> HIDE DEF new
      <3>1. QED
        BY <2>3
    <2>5. Chain(g, ss, n + 1)
      <3> SUFFICES ASSUME NEW i \in 1 .. n + 1
                   PROVE  g[i] = IF i = 1 THEN ss[i] ELSE g[i - 1] \o ss[i]
        BY DEF Chain
      <3>1. CASE i = n + 1
        <4>1. g[i] = new /\ (n # 0 => g[i - 1] = f[n])
          <5> HIDE DEF new
          <5>1. i - 1 = n /\ (n # 0 => n \in 1 .. n + 1 /\ n # n + 1)
            BY <3>1
          <5>2. QED
            BY <3>1, <5>1
        <4>2. QED
          BY <4>1, <3>1
      <3>2. CASE i \in 1 .. n
        <4>1. g[i] = f[i] /\ (i # 1 => g[i - 1] = f[i - 1])
          <5> HIDE DEF new
          <5>1. i # n + 1 /\ (i # 1 => i - 1 \in 1 .. n + 1 /\ i - 1 # n + 1)
            BY <3>2
          <5>2. QED
            BY <3>2, <5>1
        <4>2. f[i] = IF i = 1 THEN ss[i] ELSE f[i - 1] \o ss[i]
          BY <2>1, <3>2 DEF Chain
        <4>3. QED
          BY <4>1, <4>2
      <3>3. QED
        BY <3>1, <3>2
    <2>6. QED
      BY <2>4, <2>5
  <1>3. Nat \subseteq S
    <2> HIDE DEF S
    <2>1. QED
      BY <1>1, <1>2, Induction
  <1>4. QED
    BY <1>3, <1>a

\* There is only one.
LEMMA ChainUnique ==
  ASSUME NEW ss, NEW n \in Nat \ {0}, NEW f, NEW g, Chain(f, ss, n), Chain(g, ss, n)
  PROVE  f[n] = g[n]
  <1> DEFINE S == {k \in Nat : k \in 1 .. n => f[k] = g[k]}
  <1>1. 0 \in S
    OBVIOUS
  <1>2. ASSUME NEW k \in Nat, k \in S PROVE k + 1 \in S
    <2> SUFFICES ASSUME k + 1 \in 1 .. n PROVE f[k + 1] = g[k + 1]
      OBVIOUS
    <2>1. CASE k = 0
      BY <2>1 DEF Chain
    <2>2. CASE k # 0
      <3>1. f[k] = g[k] /\ k + 1 # 1 /\ (k + 1) - 1 = k
        BY <2>2, <1>2
      <3>2. f[k + 1] = f[(k + 1) - 1] \o ss[k + 1] /\ g[k + 1] = g[(k + 1) - 1] \o ss[k + 1]
        BY <3>1 DEF Chain
      <3>3. QED
        BY <3>1, <3>2
    <2>3. QED
      BY <2>1, <2>2
  <1>3. Nat \subseteq S
    <2> HIDE DEF S
    <2>1. QED
      BY <1>1, <1>2, Induction
  <1>4. n \in S
    BY <1>3
  <1>5. QED
    BY <1>4

\* FlattenSeq is the last of the prefixes.
LEMMA FlattenChain ==
  ASSUME NEW T, NEW ss \in Seq(Seq(T)), Len(ss) # 0, NEW g, Chain(g, ss, Len(ss))
  PROVE  FlattenSeq(ss) = g[Len(ss)]
  <1> DEFINE Flat(f) == f = [i \in 1 .. Len(ss) |-> IF i = 1 THEN ss[i] ELSE f[i - 1] \o ss[i]]
             F == CHOOSE f : Flat(f)
  <1>a. Len(ss) \in Nat \ {0}
    OBVIOUS
  <1>1. \E f : Flat(f)
    <2>1. PICK f \in [1 .. Len(ss) -> Seq(T)] : Chain(f, ss, Len(ss))
      BY ChainExists
    <2>2. f = [i \in 1 .. Len(ss) |-> f[i]]
      OBVIOUS
    <2>3. Flat(f)
      BY <2>1, <2>2 DEF Chain
    <2>4. QED
      BY <2>3
  <1>2. Flat(F)
    BY <1>1
  <1>3. FlattenSeq(ss) = F[Len(ss)]
    BY <1>a DEF FlattenSeq
  <1>4. Chain(F, ss, Len(ss))
    <2> HIDE DEF F
    <2>1. QED
      BY <1>2 DEF Chain
  <1>5. F[Len(ss)] = g[Len(ss)]
    <2> HIDE DEF F
    <2>1. QED
      BY <1>4, <1>a, ChainUnique
  <1>6. QED
    BY <1>3, <1>5

\* Of no sequences it is the empty one.
LEMMA FlattenEmpty == FlattenSeq(<<>>) = <<>>
  BY DEF FlattenSeq

\* One more sequence is put at the end.
LEMMA FlattenAppend ==
  ASSUME NEW T, NEW ss \in Seq(Seq(T)), NEW s \in Seq(T)
  PROVE  /\ FlattenSeq(ss) \in Seq(T)
         /\ FlattenSeq(Append(ss, s)) = FlattenSeq(ss) \o s
  <1> DEFINE tt == Append(ss, s)
             n == Len(ss)
  <1>1. tt \in Seq(Seq(T)) /\ Len(tt) = n + 1 /\ n \in Nat /\ tt[n + 1] = s
        /\ \A i \in 1 .. n : tt[i] = ss[i]
    BY AppendProperties
  <1>2. PICK g \in [1 .. n + 1 -> Seq(T)] : Chain(g, tt, n + 1)
    BY <1>1, ChainExists, ZenonT(40)
  <1>3. FlattenSeq(tt) = g[n + 1]
    <2> HIDE DEF tt, n
    <2>1. QED
      BY <1>1, <1>2, FlattenChain
  <1>4. CASE n = 0
    <2>1. ss = <<>>
      BY <1>4
    <2>2. FlattenSeq(ss) = <<>> /\ <<>> \in Seq(T)
      BY <2>1, FlattenEmpty
    <2>3. g[n + 1] = s
      BY <1>1, <1>2, <1>4 DEF Chain
    <2>4. <<>> \o s = s
      BY ConcatEmptySeq
    <2>5. QED
      BY <1>3, <2>2, <2>3, <2>4
  <1>5. CASE n # 0
    <2>1. Chain(g, ss, n)
      <3> HIDE DEF tt, n
      <3>1. \A i \in 1 .. n : i \in 1 .. n + 1
        BY <1>1
      <3>2. QED
        BY <1>1, <1>2, <3>1 DEF Chain
    <2>2. FlattenSeq(ss) = g[n]
      <3> HIDE DEF tt
      <3>1. QED
        BY <2>1, <1>5, FlattenChain
    <2>3. g[n + 1] = g[n] \o s
      <3>1. n + 1 \in 1 .. n + 1 /\ n + 1 # 1 /\ (n + 1) - 1 = n
        BY <1>1, <1>5
      <3> HIDE DEF tt, n
      <3>2. g[n + 1] = g[(n + 1) - 1] \o tt[n + 1]
        BY <1>2, <3>1 DEF Chain
      <3>3. QED
        BY <3>1, <3>2, <1>1
    <2>4. g[n] \in Seq(T)
      BY <1>1, <1>5
    <2>5. QED
      BY <1>3, <2>2, <2>3, <2>4
  <1>6. QED
    BY <1>4, <1>5

\* What g makes of each element, put together.
Collect(g, s) == FlattenSeq([i \in DOMAIN s |-> g[s[i]]])
Lister(U, T) == [U -> Seq(T)]

\* The elements are of those that g gives.
LEMMA CollectTyped ==
  ASSUME NEW T, NEW U, NEW g \in Lister(U, T), NEW s \in Seq(U)
  PROVE  Collect(g, s) \in Seq(T)
  <1> DEFINE ss == [i \in DOMAIN s |-> g[s[i]]]
  <1>1. \A u \in U : g[u] \in Seq(T)
    BY DEF Lister
  <1>2. DOMAIN s = 1 .. Len(s) /\ Len(s) \in Nat /\ \A i \in 1 .. Len(s) : s[i] \in U
    OBVIOUS
  <1>3. ss \in Seq(Seq(T))
    BY <1>1, <1>2
  <1>4. <<>> \in Seq(T)
    OBVIOUS
  <1>5. Collect(g, s) = FlattenSeq(ss)
    BY DEF Collect
  <1> HIDE DEF ss
  <1>6. QED
    BY <1>3, <1>4, <1>5, FlattenAppend

\* Nothing is made of nothing.
LEMMA CollectEmpty ==
  ASSUME NEW g
  PROVE  Collect(g, <<>>) = <<>>
  <1>1. [i \in DOMAIN <<>> |-> g[<<>>[i]]] = <<>>
    OBVIOUS
  <1>2. QED
    BY <1>1, FlattenEmpty DEF Collect

\* One more element adds what g makes of it.
LEMMA CollectAppend ==
  ASSUME NEW T, NEW U, NEW g \in Lister(U, T), NEW s \in Seq(U), NEW x \in U
  PROVE  Collect(g, Append(s, x)) = Collect(g, s) \o g[x]
  <1> DEFINE ss == [i \in DOMAIN s |-> g[s[i]]]
             tt == [i \in DOMAIN Append(s, x) |-> g[Append(s, x)[i]]]
  <1>0. \A u \in U : g[u] \in Seq(T)
    BY DEF Lister
  <1>1. DOMAIN s = 1 .. Len(s) /\ Len(s) \in Nat /\ \A i \in 1 .. Len(s) : s[i] \in U
    OBVIOUS
  <1>2. ss \in Seq(Seq(T)) /\ Len(ss) = Len(s)
    BY <1>0, <1>1
  <1>3. /\ DOMAIN Append(s, x) = 1 .. Len(s) + 1
        /\ \A i \in 1 .. Len(s) : Append(s, x)[i] = s[i]
        /\ Append(s, x)[Len(s) + 1] = x
    BY AppendProperties, <1>1
  <1>4. tt = Append(ss, g[x])
    <2>1. tt \in Seq(Seq(T)) /\ Len(tt) = Len(s) + 1
      <3>1. tt = [i \in 1 .. Len(s) + 1 |-> g[Append(s, x)[i]]]
        BY <1>3
      <3>2. \A i \in 1 .. Len(s) + 1 : g[Append(s, x)[i]] \in Seq(T)
        <4>1. \A i \in 1 .. Len(s) + 1 : Append(s, x)[i] \in U
          BY <1>1, <1>3
        <4>2. QED
          BY <1>0, <4>1
      <3>3. QED
        BY <1>1, <3>1, <3>2
    <2>2. /\ Append(ss, g[x]) \in Seq(Seq(T)) /\ Len(Append(ss, g[x])) = Len(s) + 1
          /\ \A i \in 1 .. Len(s) : Append(ss, g[x])[i] = ss[i]
          /\ Append(ss, g[x])[Len(s) + 1] = g[x]
      <3> HIDE DEF ss
      <3>1. QED
        BY <1>0, <1>1, <1>2, AppendProperties
    <2>3. \A i \in 1 .. Len(s) : tt[i] = ss[i]
      BY <1>1, <1>3
    <2>4. tt[Len(s) + 1] = g[x]
      BY <1>1, <1>3
    <2> HIDE DEF tt, ss
    <2>5. QED
      BY <1>1, <2>1, <2>2, <2>3, <2>4, SeqEqual
  <1>5. Collect(g, s) = FlattenSeq(ss) /\ Collect(g, Append(s, x)) = FlattenSeq(tt)
    BY DEF Collect
  <1> HIDE DEF ss, tt
  <1>6. QED
    BY <1>0, <1>2, <1>4, <1>5, FlattenAppend

\* Two sequences, one after the other, add up.
LEMMA CollectConcat ==
  ASSUME NEW T, NEW U, NEW g \in Lister(U, T), NEW s \in Seq(U), NEW t \in Seq(U)
  PROVE  Collect(g, s \o t) = Collect(g, s) \o Collect(g, t)
  <1> DEFINE S == {u \in Seq(U) : Collect(g, s \o u) = Collect(g, s) \o Collect(g, u)}
  <1>a. \A u \in Seq(U) : Collect(g, u) \in Seq(T)
    BY CollectTyped
  <1>b. \A u \in Seq(U), x \in U : Collect(g, Append(u, x)) = Collect(g, u) \o g[x]
    BY CollectAppend
  <1>1. <<>> \in S
    <2>1. s \o <<>> = s /\ <<>> \in Seq(U)
      BY ConcatEmptySeq
    <2>2. Collect(g, <<>>) = <<>>
      BY CollectEmpty
    <2>3. Collect(g, s) \o <<>> = Collect(g, s)
      BY <1>a, ConcatEmptySeq
    <2>4. QED
      BY <2>1, <2>2, <2>3
  <1>2. ASSUME NEW u \in Seq(U), NEW x \in U, u \in S PROVE Append(u, x) \in S
    <2>1. s \o Append(u, x) = Append(s \o u, x) /\ s \o u \in Seq(U)
      OBVIOUS
    <2>2. Collect(g, Append(s \o u, x)) = Collect(g, s \o u) \o g[x]
      BY <2>1, <1>b
    <2>3. Collect(g, Append(u, x)) = Collect(g, u) \o g[x]
      BY <1>b
    <2>4. Collect(g, s \o u) = Collect(g, s) \o Collect(g, u)
      BY <1>2
    <2>5. (Collect(g, s) \o Collect(g, u)) \o g[x] = Collect(g, s) \o (Collect(g, u) \o g[x])
      <3>1. Collect(g, s) \in Seq(T) /\ Collect(g, u) \in Seq(T) /\ g[x] \in Seq(T)
        BY <1>a DEF Lister
      <3>2. QED
        <4> DEFINE a == Collect(g, s)  b == Collect(g, u)  c == g[x]
        <4>1. a \in Seq(T) /\ b \in Seq(T) /\ c \in Seq(T)
          BY <3>1
        <4> HIDE DEF a, b, c
        <4>2. (a \o b) \o c = a \o (b \o c)
          BY <4>1, ConcatAssociative, SMTT(30)
        <4>3. QED
          BY <4>2 DEF a, b, c
    <2>6. Append(u, x) \in Seq(U)
      OBVIOUS
    <2>7. QED
      BY <2>1, <2>2, <2>3, <2>4, <2>5, <2>6
  <1>3. Seq(U) \subseteq S
    <2> HIDE DEF S
    <2>1. QED
      BY <1>1, <1>2, SeqInduction
  <1>4. QED
    BY <1>3

\* The largest position is the new one.
LEMMA MaxTop ==
  ASSUME NEW n \in Nat, NEW S, S \subseteq 1 .. n
  PROVE  Max(S \union {n + 1}) = n + 1
  <1>1. S \union {n + 1} \subseteq 1 .. n + 1
    OBVIOUS
  <1> DEFINE R == S \union {n + 1}
  <1>2. Max(R) \in R /\ n + 1 <= Max(R)
    <2>1. n + 1 \in Nat /\ R # {} /\ n + 1 \in R /\ R \subseteq 0 .. n + 1
      OBVIOUS
    <2> HIDE DEF R
    <2>2. QED
      BY <2>1, MaxIs
  <1>3. \A m \in R : n + 1 <= m => m = n + 1
    OBVIOUS
  <1>4. QED
    BY <1>2, <1>3

\* Of one element it is what g makes of it.
LEMMA CollectOne ==
  ASSUME NEW T, NEW U, NEW g \in Lister(U, T), NEW x \in U
  PROVE  Collect(g, <<x>>) = g[x]
  <1>1. g[x] \in Seq(T)
    BY DEF Lister
  <1>2. <<>> \in Seq(U)
    OBVIOUS
  <1>3. Collect(g, <<x>>) = Collect(g, <<>>) \o g[x]
    <2>1. \A s \in Seq(U) : Collect(g, Append(s, x)) = Collect(g, s) \o g[x]
      BY CollectAppend
    <2>2. Append(<<>>, x) = <<x>>
      OBVIOUS
    <2>3. QED
      BY <1>2, <2>1, <2>2
  <1>4. Collect(g, <<>>) = <<>>
    BY CollectEmpty
  <1>5. <<>> \o g[x] = g[x]
    BY <1>1, ConcatEmptySeq
  <1>6. QED
    BY <1>3, <1>4, <1>5

\* Two passes over a sequence are one.
LEMMA CollectTwice ==
  ASSUME NEW T, NEW U, NEW W, NEW g \in Lister(T, U), NEW f \in Lister(U, W), NEW s \in Seq(T)
  PROVE  Collect(f, Collect(g, s)) = Collect([x \in T |-> Collect(f, g[x])], s)
  <1> DEFINE k == [x \in T |-> Collect(f, g[x])]
             S == {u \in Seq(T) : Collect(f, Collect(g, u)) = Collect(k, u)}
  <1>a. \A x \in T : g[x] \in Seq(U)
    BY DEF Lister
  <1>b. \A u \in Seq(U) : Collect(f, u) \in Seq(W)
    BY CollectTyped
  <1>c. \A u \in Seq(T) : Collect(g, u) \in Seq(U)
    BY CollectTyped
  <1>d. k \in Lister(T, W)
    BY <1>a, <1>b DEF Lister
  <1>e. \A x \in T : k[x] = Collect(f, g[x])
    OBVIOUS
  <1> HIDE DEF k
  <1>1. <<>> \in S
    <2>1. <<>> \in Seq(T)
      OBVIOUS
    <2>2. Collect(g, <<>>) = <<>> /\ Collect(f, <<>>) = <<>> /\ Collect(k, <<>>) = <<>>
      BY CollectEmpty
    <2>3. QED
      BY <2>1, <2>2
  <1>2. ASSUME NEW u \in Seq(T), NEW x \in T, u \in S PROVE Append(u, x) \in S
    <2>1. Collect(g, Append(u, x)) = Collect(g, u) \o g[x]
      BY CollectAppend
    <2>2. Collect(f, Collect(g, u) \o g[x]) = Collect(f, Collect(g, u)) \o Collect(f, g[x])
      <3>1. Collect(g, u) \in Seq(U) /\ g[x] \in Seq(U)
        BY <1>a, <1>c
      <3>2. QED
        BY <3>1, CollectConcat
    <2>3. Collect(k, Append(u, x)) = Collect(k, u) \o k[x]
      BY <1>d, CollectAppend
    <2>4. Collect(f, Collect(g, u)) = Collect(k, u)
      BY <1>2
    <2>5. Append(u, x) \in Seq(T)
      OBVIOUS
    <2>6. QED
      BY <1>e, <2>1, <2>2, <2>3, <2>4, <2>5
  <1>3. Seq(T) \subseteq S
    <2> HIDE DEF S
    <2>1. QED
      BY <1>1, <1>2, SeqInduction
  <1>4. QED
    BY <1>3 DEF k

-----------------------------------------------------------------------------
\* Steps over a sequence that F describes: f[i] is what the first i come to.
Stepper(A, B) == [A \X B -> A]

\* Such steps there are, and they go on from what came before.
LEMMA StepsExist ==
  ASSUME NEW A, NEW B, NEW F \in Stepper(A, B), NEW a \in A, NEW s \in Seq(B)
  PROVE  \E f \in [0 .. Len(s) -> A] :
           f[0] = a /\ \A i \in 1 .. Len(s) : f[i] = F[<<f[i - 1], s[i]>>]
  <1> DEFINE Runs(f, n) == f[0] = a /\ \A i \in 1 .. n : f[i] = F[<<f[i - 1], s[i]>>]
             S == {n \in Nat : n <= Len(s) => \E f \in [0 .. n -> A] : Runs(f, n)}
  <1>a. Len(s) \in Nat /\ \A i \in 1 .. Len(s) : s[i] \in B
    OBVIOUS
  <1>b. \A x \in A, y \in B : F[<<x, y>>] \in A
    BY DEF Stepper
  <1>1. 0 \in S
    <2> DEFINE f == [i \in 0 .. 0 |-> a]
    <2>1. f \in [0 .. 0 -> A] /\ Runs(f, 0)
      OBVIOUS
    <2>2. QED
      BY <2>1
  <1>2. ASSUME NEW n \in Nat, n \in S PROVE n + 1 \in S
    <2> SUFFICES ASSUME n + 1 <= Len(s)
                 PROVE  \E g \in [0 .. n + 1 -> A] : Runs(g, n + 1)
      OBVIOUS
    <2>1. PICK f \in [0 .. n -> A] : Runs(f, n)
      BY <1>2, <1>a
    <2> DEFINE new == F[<<f[n], s[n + 1]>>]
               g == [i \in 0 .. n + 1 |-> IF i = n + 1 THEN new ELSE f[i]]
    <2>2. new \in A
      <3>1. f[n] \in A /\ s[n + 1] \in B
        BY <1>a
      <3>2. QED
        BY <3>1, <1>b
    <2> HIDE DEF new
    <2>3. g \in [0 .. n + 1 -> A]
      BY <2>2
    <2>4. g[n + 1] = new /\ \A i \in 0 .. n : g[i] = f[i]
      OBVIOUS
    <2> HIDE DEF g
    <2>5. \A i \in 1 .. n + 1 : g[i] = F[<<g[i - 1], s[i]>>]
      <3>1. \A i \in 1 .. n : g[i] = F[<<g[i - 1], s[i]>>]
        <4>1. \A i \in 1 .. n : i \in 0 .. n /\ i - 1 \in 0 .. n
          OBVIOUS
        <4>2. QED
          BY <2>1, <2>4, <4>1
      <3>2. g[n + 1] = F[<<g[(n + 1) - 1], s[n + 1]>>]
        <4>1. (n + 1) - 1 = n /\ n \in 0 .. n
          OBVIOUS
        <4>2. QED
          BY <2>4, <4>1 DEF new
      <3>3. \A i \in 1 .. n + 1 : i \in 1 .. n \/ i = n + 1
        OBVIOUS
      <3>4. QED
        BY <3>1, <3>2, <3>3
    <2>6. g[0] = a
      BY <2>1, <2>4
    <2>7. QED
      BY <2>3, <2>5, <2>6
  <1>3. Nat \subseteq S
    <2> HIDE DEF S
    <2>1. QED
      BY <1>1, <1>2, Induction
  <1>4. QED
    BY <1>3, <1>a

\* FlattenSeq by its prefixes, from none on.
LEMMA FlattenComes ==
  ASSUME NEW T, NEW ss \in Seq(Seq(T))
  PROVE  \E f \in [0 .. Len(ss) -> Seq(T)] :
           /\ f[0] = <<>>
           /\ \A i \in 1 .. Len(ss) : f[i] = f[i - 1] \o ss[i]
           /\ FlattenSeq(ss) = f[Len(ss)]
  <1> DEFINE n == Len(ss)
  <1>1. n \in Nat /\ \A i \in 1 .. n : ss[i] \in Seq(T)
    OBVIOUS
  <1>2. PICK g \in [1 .. n -> Seq(T)] : Chain(g, ss, n)
    BY ChainExists
  <1> DEFINE f == [i \in 0 .. n |-> IF i = 0 THEN <<>> ELSE g[i]]
  <1>3. f \in [0 .. n -> Seq(T)] /\ f[0] = <<>> /\ \A i \in 1 .. n : f[i] = g[i]
    <2>1. <<>> \in Seq(T)
      OBVIOUS
    <2>2. QED
      BY <1>1, <2>1
  <1> HIDE DEF f
  <1>4. ASSUME NEW i \in 1 .. n PROVE f[i] = f[i - 1] \o ss[i]
    <2>1. CASE i = 1
      <3>1. f[1] = ss[1]
        BY <1>2, <1>3, <2>1 DEF Chain
      <3>2. <<>> \o ss[1] = ss[1]
        BY <1>1, <2>1, ConcatEmptySeq
      <3>3. 1 - 1 = 0
        OBVIOUS
      <3>4. f[i] = ss[i] /\ f[i - 1] = <<>> /\ <<>> \o ss[i] = ss[i]
        BY <1>3, <2>1, <3>1, <3>2, <3>3
      <3>5. QED
        BY <3>4
    <2>2. CASE i # 1
      <3>1. i - 1 \in 1 .. n
        BY <2>2, <1>1
      <3>2. QED
        BY <1>2, <1>3, <2>2, <3>1 DEF Chain
    <2>3. QED
      BY <2>1, <2>2
  <1>5. FlattenSeq(ss) = f[n]
    <2>1. CASE n = 0
      <3>1. ss = <<>>
        BY <2>1, EmptySeq
      <3>2. QED
        BY <1>3, <2>1, <3>1, FlattenEmpty
    <2>2. CASE n # 0
      <3>1. FlattenSeq(ss) = g[n]
        BY <1>2, <2>2, FlattenChain
      <3>2. QED
        BY <1>1, <1>3, <2>2, <3>1
    <2>3. QED
      BY <2>1, <2>2
  <1>6. QED
    BY <1>3, <1>4, <1>5

\* What a fold computes, as a function of the positions it has passed.
Folded(X, F, a, s) ==
  X = [S \in SUBSET DOMAIN s |-> IF S = {} THEN a ELSE F[<<X[S \ {Max(S)}], s[Max(S)]>>]]

\* The steps of a fold one after the other.
Comes(f, F, a, s) ==
  f[0] = a /\ \A i \in 1 .. Len(s) : f[i] = F[<<f[i - 1], s[i]>>]

\* The last position of a part of a sequence is one of its positions.
LEMMA MaxInside ==
  ASSUME NEW n \in Nat, NEW S \in SUBSET (1 .. n), S # {}
  PROVE  Max(S) \in 1 .. n /\ Max(S) \in S /\ S \ {Max(S)} \in SUBSET (1 .. n)
  <1>1. Max(S) \in S
    <2>1. S \subseteq 0 .. n
      OBVIOUS
    <2>2. QED
      BY <2>1, MaxIs
  <1>2. QED
    BY <1>1

\* There is such a function.
LEMMA FoldExists ==
  ASSUME NEW A, NEW B, NEW F \in Stepper(A, B), NEW a \in A, NEW s \in Seq(B)
  PROVE  \E X \in [SUBSET DOMAIN s -> A] : Folded(X, F, a, s)
  <1> DEFINE Runs(X, n) ==
               \A S \in SUBSET (1 .. n) :
                 X[S] = IF S = {} THEN a ELSE F[<<X[S \ {Max(S)}], s[Max(S)]>>]
             Has(n) == \E X \in [SUBSET (1 .. n) -> A] : Runs(X, n)
             L == {n \in Nat : n <= Len(s) => Has(n)}
  <1>a. Len(s) \in Nat /\ DOMAIN s = 1 .. Len(s) /\ \A i \in 1 .. Len(s) : s[i] \in B
    OBVIOUS
  <1>b. \A x \in A, y \in B : F[<<x, y>>] \in A
    BY DEF Stepper
  <1>1. 0 \in L
    <2> DEFINE X == [S \in SUBSET (1 .. 0) |-> a]
    <2>1. X \in [SUBSET (1 .. 0) -> A] /\ \A S \in SUBSET (1 .. 0) : S = {} /\ X[S] = a
      OBVIOUS
    <2> HIDE DEF X
    <2>2. Runs(X, 0)
      BY <2>1
    <2>3. Has(0)
      BY <2>1, <2>2
    <2> HIDE DEF Has
    <2>4. QED
      BY <2>3
  <1>2. ASSUME NEW n \in Nat, Has(n), n + 1 <= Len(s) PROVE Has(n + 1)
    <2>1. PICK X \in [SUBSET (1 .. n) -> A] : Runs(X, n)
      BY <1>2
    <2> DEFINE Y == [S \in SUBSET (1 .. n + 1) |->
                      IF n + 1 \in S THEN F[<<X[S \ {n + 1}], s[n + 1]>>] ELSE X[S]]
    <2>2. \A S \in SUBSET (1 .. n + 1) :
            /\ S \ {n + 1} \in SUBSET (1 .. n)
            /\ n + 1 \notin S => S \in SUBSET (1 .. n)
      OBVIOUS
    <2>3. Y \in [SUBSET (1 .. n + 1) -> A]
      <3>1. s[n + 1] \in B
        BY <1>a, <1>2
      <3>2. \A S \in SUBSET (1 .. n + 1) : X[S \ {n + 1}] \in A
        BY <2>2
      <3>3. \A S \in SUBSET (1 .. n + 1) : n + 1 \notin S => X[S] \in A
        BY <2>2
      <3>4. \A S \in SUBSET (1 .. n + 1) : F[<<X[S \ {n + 1}], s[n + 1]>>] \in A
        BY <3>1, <3>2, <1>b
      <3>5. QED
        BY <3>3, <3>4
    <2>4. \A S \in SUBSET (1 .. n) : S \in SUBSET (1 .. n + 1) /\ n + 1 \notin S
      OBVIOUS
    <2>5. /\ \A S \in SUBSET (1 .. n) : Y[S] = X[S]
          /\ \A S \in SUBSET (1 .. n + 1) :
               n + 1 \in S => Y[S] = F[<<X[S \ {n + 1}], s[n + 1]>>]
      BY <2>4
    <2> HIDE DEF Y
    <2>6. ASSUME NEW S \in SUBSET (1 .. n + 1)
          PROVE  Y[S] = IF S = {} THEN a ELSE F[<<Y[S \ {Max(S)}], s[Max(S)]>>]
      <3>1. CASE n + 1 \in S
        <4>1. Max((S \ {n + 1}) \union {n + 1}) = n + 1
          BY <2>2, MaxTop
        <4>2. (S \ {n + 1}) \union {n + 1} = S
          BY <3>1
        <4>3. Max(S) = n + 1
          BY <4>1, <4>2
        <4>4. Y[S \ {n + 1}] = X[S \ {n + 1}]
          BY <2>2, <2>5
        <4>5. QED
          BY <2>5, <3>1, <4>3, <4>4
      <3>2. CASE n + 1 \notin S /\ S # {}
        <4>1. S \in SUBSET (1 .. n)
          BY <2>2, <3>2
        <4>2. S \ {Max(S)} \in SUBSET (1 .. n)
          BY <3>2, <4>1, MaxInside
        <4>3. X[S] = F[<<X[S \ {Max(S)}], s[Max(S)]>>]
          BY <2>1, <3>2, <4>1
        <4>4. QED
          BY <2>5, <3>2, <4>1, <4>2, <4>3
      <3>3. CASE S = {}
        <4>1. S \in SUBSET (1 .. n)
          BY <3>3
        <4>2. X[S] = a
          BY <2>1, <3>3, <4>1
        <4>3. QED
          BY <2>5, <3>3, <4>1, <4>2
      <3>4. QED
        BY <3>1, <3>2, <3>3
    <2>7. QED
      BY <2>3, <2>6
  <1>3. Has(Len(s))
    <2> HIDE DEF Has
    <2>1. \A n \in Nat : n \in L => n + 1 \in L
      BY <1>2, <1>a
    <2> HIDE DEF L
    <2>2. Nat \subseteq L
      BY <1>1, <2>1, Induction
    <2>3. QED
      BY <1>a, <2>2 DEF L
  <1>4. PICK X \in [SUBSET (1 .. Len(s)) -> A] : Runs(X, Len(s))
    BY <1>3
  <1>5. X = [S \in SUBSET DOMAIN s |-> IF S = {} THEN a ELSE F[<<X[S \ {Max(S)}], s[Max(S)]>>]]
    BY <1>4, <1>a
  <1>6. QED
    BY <1>4, <1>5, <1>a DEF Folded

\* X takes these steps as far as it stays in A.
Solves(X, F, a, A, s) ==
  /\ X[{}] = a
  /\ \A S \in SUBSET DOMAIN s :
       S # {} /\ X[S \ {Max(S)}] \in A => X[S] = F[<<X[S \ {Max(S)}], s[Max(S)]>>]

\* Whatever is computed by these steps is so position after position.
LEMMA FoldComes ==
  ASSUME NEW A, NEW B, NEW F \in Stepper(A, B), NEW a \in A, NEW s \in Seq(B), NEW X,
         Solves(X, F, a, A, s)
  PROVE  \E f \in [0 .. Len(s) -> A] : Comes(f, F, a, s) /\ X[DOMAIN s] = f[Len(s)]
  <1>a. Len(s) \in Nat /\ DOMAIN s = 1 .. Len(s)
    OBVIOUS
  <1>1. PICK f \in [0 .. Len(s) -> A] : Comes(f, F, a, s)
    BY StepsExist DEF Comes
  <1> DEFINE L == {n \in Nat : n <= Len(s) => X[1 .. n] = f[n]}
  <1>2. 0 \in L
    <2>1. 1 .. 0 = {}
      OBVIOUS
    <2>2. QED
      BY <1>1, <2>1 DEF Comes, Solves
  <1>3. ASSUME NEW n \in Nat, n \in L PROVE n + 1 \in L
    <2> SUFFICES ASSUME n + 1 <= Len(s) PROVE X[1 .. n + 1] = f[n + 1]
      OBVIOUS
    <2> DEFINE S == 1 .. n + 1
    <2>1. S = (1 .. n) \union {n + 1} /\ S # {} /\ S \ {n + 1} = 1 .. n /\ S \in SUBSET DOMAIN s
      BY <1>a
    <2>2. Max(S) = n + 1
      BY <2>1, MaxTop
    <2>3. X[1 .. n] = f[n] /\ f[n] \in A
      BY <1>a, <1>3
    <2> HIDE DEF S
    <2>4. X[S] = F[<<f[n], s[n + 1]>>]
      BY <2>1, <2>2, <2>3 DEF Solves
    <2>5. n + 1 \in 1 .. Len(s) /\ (n + 1) - 1 = n
      BY <1>a
    <2>6. f[n + 1] = F[<<f[n], s[n + 1]>>]
      BY <1>1, <2>5 DEF Comes
    <2>7. QED
      BY <2>4, <2>6 DEF S
  <1>4. Nat \subseteq L
    <2> HIDE DEF L
    <2>1. QED
      BY <1>2, <1>3, Induction
  <1>5. X[DOMAIN s] = f[Len(s)]
    BY <1>4, <1>a
  <1>6. QED
    BY <1>1, <1>5

\* A sequence is known by what it adds to a shorter one.
LEMMA AppendIs ==
  ASSUME NEW T, NEW s \in Seq(T), NEW e \in T, NEW t \in Seq(T), Len(t) = Len(s) + 1,
         \A k \in 1 .. Len(s) : t[k] = s[k], t[Len(s) + 1] = e
  PROVE  t = Append(s, e)
  <1>1. Len(s) \in Nat /\ Append(s, e) \in Seq(T) /\ Len(Append(s, e)) = Len(s) + 1
    OBVIOUS
  <1>2. \A k \in 1 .. Len(s) : Append(s, e)[k] = s[k]
    OBVIOUS
  <1>3. Append(s, e)[Len(s) + 1] = e
    OBVIOUS
  <1>4. \A k \in 1 .. Len(t) : t[k] = Append(s, e)[k]
    <2>1. \A k \in 1 .. Len(t) : k \in 1 .. Len(s) \/ k = Len(s) + 1
      BY <1>1
    <2>2. QED
      BY <1>2, <1>3, <2>1
  <1>5. QED
    BY <1>1, <1>4, SeqEqual

\* A function on the first numbers is a sequence.
LEMMA Listed ==
  ASSUME NEW T, NEW n \in Nat, NEW f, f = [k \in 1 .. n |-> f[k]], \A k \in 1 .. n : f[k] \in T
  PROVE  f \in Seq(T) /\ Len(f) = n /\ DOMAIN f = 1 .. n
  OBVIOUS

\* Two lists of sequences that agree in front of one place and have nothing behind it.
LEMMA FlattenTail ==
  ASSUME NEW T, NEW ss \in Seq(Seq(T)), NEW tt \in Seq(Seq(T)), Len(ss) = Len(tt),
         NEW h \in 1 .. Len(ss), \A i \in 1 .. h - 1 : ss[i] = tt[i],
         \A i \in h + 1 .. Len(ss) : ss[i] = <<>> /\ tt[i] = <<>>
  PROVE  \E p \in Seq(T) : FlattenSeq(ss) = p \o ss[h] /\ FlattenSeq(tt) = p \o tt[h]
  <1> DEFINE n == Len(ss)
  <1>0. n \in Nat /\ h \in Nat /\ \A i \in 1 .. n : ss[i] \in Seq(T) /\ tt[i] \in Seq(T)
    OBVIOUS
  <1>1. PICK f \in [0 .. n -> Seq(T)] :
          f[0] = <<>> /\ (\A i \in 1 .. n : f[i] = f[i - 1] \o ss[i]) /\ FlattenSeq(ss) = f[n]
    BY FlattenComes
  <1>2. PICK g \in [0 .. n -> Seq(T)] :
          g[0] = <<>> /\ (\A i \in 1 .. n : g[i] = g[i - 1] \o tt[i]) /\ FlattenSeq(tt) = g[n]
    <2>1. Len(tt) = n
      OBVIOUS
    <2>2. \E g \in [0 .. Len(tt) -> Seq(T)] :
            g[0] = <<>> /\ (\A i \in 1 .. Len(tt) : g[i] = g[i - 1] \o tt[i]) /\ FlattenSeq(tt) = g[Len(tt)]
      BY FlattenComes
    <2> HIDE DEF n
    <2>3. QED
      BY <2>1, <2>2
  <1> DEFINE Same(i) == i < h => f[i] = g[i]
             Stays(k) == h + k <= n => f[h + k] = f[h - 1] \o ss[h] /\ g[h + k] = g[h - 1] \o tt[h]
             L == {i \in Nat : Same(i)}
             M == {k \in Nat : Stays(k)}
  <1>h. \A i \in 1 .. h - 1 : ss[i] = tt[i]
    OBVIOUS
  <1>t. \A i \in h + 1 .. n : ss[i] = <<>> /\ tt[i] = <<>>
    OBVIOUS
  <1>g. h \in 1 .. n
    OBVIOUS
  <1> HIDE DEF n
  <1>3. \A k \in Nat : Same(k)
    <2>1. 0 \in L
      BY <1>1, <1>2
    <2>2. ASSUME NEW k \in Nat, Same(k) PROVE Same(k + 1)
      <3> SUFFICES ASSUME k + 1 < h PROVE f[k + 1] = g[k + 1]
        OBVIOUS
      <3>1. k + 1 \in 1 .. n /\ k + 1 \in 1 .. h - 1 /\ (k + 1) - 1 = k /\ k < h
        BY <1>0, <1>g
      <3>2. f[k + 1] = f[k] \o ss[k + 1] /\ g[k + 1] = g[k] \o tt[k + 1]
        BY <1>1, <1>2, <3>1
      <3>3. f[k] = g[k] /\ ss[k + 1] = tt[k + 1]
        BY <1>h, <2>2, <3>1
      <3>4. QED
        BY <3>2, <3>3
    <2> HIDE DEF Same
    <2>3. \A k \in Nat : k \in L => k + 1 \in L
      BY <2>2
    <2> HIDE DEF L
    <2>4. Nat \subseteq L
      BY <2>1, <2>3, Induction
    <2>5. QED
      BY <2>4 DEF L
  <1>4. h - 1 \in 0 .. n /\ f[h - 1] = g[h - 1] /\ f[h - 1] \in Seq(T)
    <2>1. h - 1 \in 0 .. n /\ h - 1 \in Nat /\ h - 1 < h
      BY <1>0, <1>g
    <2>2. QED
      BY <1>3, <2>1
  <1>5. \A k \in Nat : Stays(k)
    <2>1. 0 \in M
      <3>1. h \in 1 .. n /\ h + 0 = h
        BY <1>0, <1>g
      <3>2. QED
        BY <1>1, <1>2, <3>1
    <2>2. ASSUME NEW k \in Nat, Stays(k) PROVE Stays(k + 1)
      <3> SUFFICES ASSUME h + (k + 1) <= n
                   PROVE  f[h + (k + 1)] = f[h - 1] \o ss[h] /\ g[h + (k + 1)] = g[h - 1] \o tt[h]
        OBVIOUS
      <3> DEFINE i == h + (k + 1)
      <3>1. i \in 1 .. n /\ i \in h + 1 .. n /\ i - 1 = h + k /\ h + k <= n /\ h + k \in 0 .. n
        BY <1>0
      <3>2. f[i] = f[i - 1] \o <<>> /\ g[i] = g[i - 1] \o <<>>
        BY <1>1, <1>2, <1>t, <3>1
      <3>3. f[i - 1] \in Seq(T) /\ g[i - 1] \in Seq(T)
        BY <3>1
      <3>4. f[i] = f[i - 1] /\ g[i] = g[i - 1]
        BY <3>2, <3>3, ConcatEmptySeq
      <3>5. f[h + k] = f[h - 1] \o ss[h] /\ g[h + k] = g[h - 1] \o tt[h]
        BY <2>2, <3>1
      <3>6. QED
        BY <3>1, <3>4, <3>5
    <2> HIDE DEF Stays
    <2>3. \A k \in Nat : k \in M => k + 1 \in M
      BY <2>2
    <2> HIDE DEF M
    <2>4. Nat \subseteq M
      BY <2>1, <2>3, Induction
    <2>5. QED
      BY <2>4 DEF M
  <1>6. n - h \in Nat /\ h + (n - h) = n /\ n <= n
    BY <1>0, <1>g, SMTT(30)
  <1>7. f[n] = f[h - 1] \o ss[h] /\ g[n] = g[h - 1] \o tt[h]
    <2>1. Stays(n - h)
      BY <1>5, <1>6
    <2>2. QED
      BY <1>6, <2>1
  <1>8. QED
    BY <1>1, <1>2, <1>4, <1>7

\* Nothing put together is nothing.
LEMMA FlattenNothing ==
  ASSUME NEW T, NEW ss \in Seq(Seq(T)), \A i \in 1 .. Len(ss) : ss[i] = <<>>
  PROVE  FlattenSeq(ss) = <<>>
  <1> DEFINE n == Len(ss)
  <1>0. n \in Nat /\ \A i \in 1 .. n : ss[i] = <<>>
    OBVIOUS
  <1>1. PICK f \in [0 .. n -> Seq(T)] :
          f[0] = <<>> /\ (\A i \in 1 .. n : f[i] = f[i - 1] \o ss[i]) /\ FlattenSeq(ss) = f[n]
    BY FlattenComes
  <1> HIDE DEF n
  <1> DEFINE Same(i) == i <= n => f[i] = <<>>
             L == {i \in Nat : Same(i)}
  <1>2. 0 \in L
    BY <1>1
  <1>3. ASSUME NEW k \in Nat, k \in L PROVE k + 1 \in L
    <2> SUFFICES ASSUME k + 1 <= n PROVE f[k + 1] = <<>>
      OBVIOUS
    <2>1. k + 1 \in 1 .. n /\ (k + 1) - 1 = k /\ k <= n
      BY <1>0
    <2>2. f[k] = <<>> /\ ss[k + 1] = <<>> /\ f[k + 1] = f[k] \o ss[k + 1]
      BY <1>0, <1>1, <1>3, <2>1
    <2>3. <<>> \o <<>> = <<>>
      OBVIOUS
    <2>4. QED
      BY <2>2, <2>3
  <1> HIDE DEF L
  <1>4. Nat \subseteq L
    BY <1>2, <1>3, Induction
  <1>5. Same(n)
    BY <1>0, <1>4 DEF L
  <1>6. n <= n
    BY <1>0
  <1>7. QED
    BY <1>1, <1>5, <1>6 DEF n

\* The set of a sequence's elements, with one more.
LEMMA ToSetAppend ==
  ASSUME NEW T, NEW s \in Seq(T), NEW e \in T
  PROVE  ToSet(s \o <<e>>) = ToSet(s) \union {e}
  <1>1. s \o <<e>> = Append(s, e) /\ Len(s) \in Nat /\ DOMAIN s = 1 .. Len(s)
    OBVIOUS
  <1>2. /\ DOMAIN Append(s, e) = 1 .. Len(s) + 1 /\ Append(s, e)[Len(s) + 1] = e
        /\ \A i \in 1 .. Len(s) : Append(s, e)[i] = s[i]
    OBVIOUS
  <1>3. \A i \in 1 .. Len(s) + 1 : i \in 1 .. Len(s) \/ i = Len(s) + 1
    BY <1>1
  <1>4. \A i \in 1 .. Len(s) : i \in 1 .. Len(s) + 1
    BY <1>1
  <1>5. Len(s) + 1 \in 1 .. Len(s) + 1
    BY <1>1
  <1>6. QED
    BY <1>1, <1>2, <1>3, <1>4, <1>5 DEF ToSet

\* What holds of an element holds of one of a longer sequence.
LEMMA AppendHas ==
  ASSUME NEW T, NEW s \in Seq(T), NEW e \in T
  PROVE  /\ Append(s, e) \in Seq(T) /\ Len(Append(s, e)) = Len(s) + 1 /\ Len(s) \in Nat
         /\ Append(s, e)[Len(s) + 1] = e
         /\ \A i \in 1 .. Len(s) : Append(s, e)[i] = s[i]
  OBVIOUS

-----------------------------------------------------------------------------
\* The characters: those of a file or an exchange, and those the code puts in.
Chars ==
  STRING \union {"\\", "#", "newline", "tab", "return", "http://", "/", "client"} \union ToSet(Names)

\* The characters that the theorems meet.  The provers do not take a literal for a
\* member of STRING, so Chars names those that the code writes.
LEMMA CharsHold ==
  /\ \A text \in Seq(STRING) : text \in Seq(Chars)
  /\ \A c \in {"\\", "#", "newline", "tab", "return", "http://", "/", "client"} \union ToSet(Names) : c \in Chars
  BY DEF Chars

-----------------------------------------------------------------------------
\* The folds of Filters, step by step.

DomainFolds(s, text, F, a, A) ==
  /\ DOMAIN s = DOMAIN text /\ \A i \in DOMAIN s : s[i] = i
  /\ \E X \in [SUBSET DOMAIN s -> A] : Folded(X, F, a, s)
  /\ \A X : Solves(X, F, a, A, s)
            => \E f \in [0 .. Len(text) -> A] :
                 /\ f[0] = a
                 /\ \A i \in 1 .. Len(text) : f[i] = F[<<f[i - 1], i>>]
                 /\ X[DOMAIN s] = f[Len(text)]
  /\ \A S \in SUBSET DOMAIN s :
       S # {} => Max(S) \in DOMAIN s /\ S \ {Max(S)} \in SUBSET DOMAIN s

\* A fold over the positions of a text goes from each to the next.
LEMMA DomainFold ==
  ASSUME NEW text, DOMAIN text = 1 .. Len(text), Len(text) \in Nat,
         NEW A, NEW F \in Stepper(A, DOMAIN text), NEW a \in A
  PROVE  DomainFolds([i \in DOMAIN text |-> i], text, F, a, A)
  <1> DEFINE s == [i \in DOMAIN text |-> i]
             B == DOMAIN text
  <1>1. s \in Seq(B) /\ Len(s) = Len(text) /\ DOMAIN s = 1 .. Len(text) /\ \A i \in DOMAIN s : s[i] = i
    OBVIOUS
  <1>2. F \in Stepper(A, B)
    OBVIOUS
  <1>d. DOMAIN s = DOMAIN text
    OBVIOUS
  <1> HIDE DEF s, B
  <1>3. \E X \in [SUBSET DOMAIN s -> A] : Folded(X, F, a, s)
    BY <1>1, <1>2, FoldExists
  <1>4. ASSUME NEW X, Solves(X, F, a, A, s)
        PROVE  \E f \in [0 .. Len(text) -> A] :
                 /\ f[0] = a
                 /\ \A i \in 1 .. Len(text) : f[i] = F[<<f[i - 1], i>>]
                 /\ X[DOMAIN s] = f[Len(text)]
    <2>1. PICK f \in [0 .. Len(s) -> A] : Comes(f, F, a, s) /\ X[DOMAIN s] = f[Len(s)]
      BY <1>1, <1>2, <1>4, FoldComes
    <2>2. \A i \in 1 .. Len(text) : f[i] = F[<<f[i - 1], i>>]
      <3> SUFFICES ASSUME NEW i \in 1 .. Len(text) PROVE f[i] = F[<<f[i - 1], i>>]
        OBVIOUS
      <3>1. s[i] = i /\ i \in 1 .. Len(s)
        BY <1>1
      <3>2. f[i] = F[<<f[i - 1], s[i]>>]
        BY <2>1, <3>1 DEF Comes
      <3>3. QED
        BY <3>1, <3>2
    <2>3. QED
      BY <1>1, <2>1, <2>2 DEF Comes
  <1>5. \A S \in SUBSET DOMAIN s :
          S # {} => Max(S) \in DOMAIN s /\ S \ {Max(S)} \in SUBSET DOMAIN s
    BY <1>1, MaxInside
  <1>6. QED
    BY <1>1, <1>d, <1>3, <1>4, <1>5 DEF s, DomainFolds

\* Looking for a character.
ScanState == [at : Nat, escaped : BOOLEAN]

ScanStep(s, x, i, c) ==
  IF s.at > 0 THEN s
  ELSE IF s.escaped THEN [s EXCEPT !.escaped = FALSE]
  ELSE IF x = "\\" THEN [s EXCEPT !.escaped = TRUE]
  ELSE IF x = c THEN [s EXCEPT !.at = i] ELSE s

\* Scan, character by character.
LEMMA ScanComes ==
  ASSUME NEW text \in Seq(Chars), NEW c
  PROVE  \E f \in [0 .. Len(text) -> ScanState] :
           /\ f[0] = [at |-> 0, escaped |-> FALSE]
           /\ \A i \in 1 .. Len(text) : f[i] = ScanStep(f[i - 1], text[i], i, c)
           /\ Scan(text, c) = f[Len(text)].at
  <1> DEFINE n == Len(text)
             a == [at |-> 0, escaped |-> FALSE]
             A == ScanState
             F == [p \in A \X DOMAIN text |-> ScanStep(p[1], text[p[2]], p[2], c)]
             s == [i \in DOMAIN text |-> i]
             Body(X, S) ==
               IF S = {} THEN a
               ELSE IF X[S \ {Max(S)}].at > 0 THEN X[S \ {Max(S)}]
               ELSE IF X[S \ {Max(S)}].escaped THEN [X[S \ {Max(S)}] EXCEPT !.escaped = FALSE]
               ELSE IF text[s[Max(S)]] = "\\" THEN [X[S \ {Max(S)}] EXCEPT !.escaped = TRUE]
               ELSE IF text[s[Max(S)]] = c THEN [X[S \ {Max(S)}] EXCEPT !.at = s[Max(S)]] ELSE X[S \ {Max(S)}]
             Z == CHOOSE X : X = [S \in SUBSET DOMAIN s |-> Body(X, S)]
  <1>1. n \in Nat /\ DOMAIN text = 1 .. n
    OBVIOUS
  <1>2. a \in A
    BY DEF ScanState
  <1>3. F \in Stepper(A, DOMAIN text)
        /\ \A x \in A, i \in DOMAIN text : F[<<x, i>>] = ScanStep(x, text[i], i, c)
    <2>1. ASSUME NEW x \in A, NEW i \in DOMAIN text PROVE ScanStep(x, text[i], i, c) \in A
      <3>1. [x EXCEPT !.escaped = FALSE] \in A
        BY DEF ScanState
      <3>2. [x EXCEPT !.escaped = TRUE] \in A
        BY DEF ScanState
      <3>3. i \in Nat
        BY <1>1
      <3>4. [x EXCEPT !.at = i] \in A
        BY <3>3 DEF ScanState
      <3> HIDE DEF A
      <3>5. QED
        BY <3>1, <3>2, <3>4 DEF ScanStep
    <2>2. QED
      BY <2>1 DEF Stepper
  <1>4. Scan(text, c) = Z[DOMAIN s].at
    BY DEF Scan, FoldLeftDomain, FoldLeft, MapThenFoldSet
  <1> HIDE DEF F, a
  <1>5. DomainFolds(s, text, F, a, A)
    BY <1>1, <1>2, <1>3, DomainFold
  <1>s. /\ DOMAIN s = DOMAIN text /\ \A i \in DOMAIN s : s[i] = i
        /\ \A S \in SUBSET DOMAIN s :
             S # {} => Max(S) \in DOMAIN s /\ S \ {Max(S)} \in SUBSET DOMAIN s
    BY <1>5 DEF DomainFolds
  <1> HIDE DEF s
  <1>6. ASSUME NEW X, NEW S \in SUBSET DOMAIN s, S # {}, X[S \ {Max(S)}] \in A
        PROVE  F[<<X[S \ {Max(S)}], s[Max(S)]>>] = Body(X, S)
    <2>1. F[<<X[S \ {Max(S)}], s[Max(S)]>>] = ScanStep(X[S \ {Max(S)}], text[s[Max(S)]], s[Max(S)], c)
      BY <1>3, <1>s, <1>6
    <2>2. QED
      BY <1>6, <2>1 DEF ScanStep
  <1>7. Z = [S \in SUBSET DOMAIN s |-> Body(Z, S)]
    <2>1. PICK X \in [SUBSET DOMAIN s -> A] : Folded(X, F, a, s)
      BY <1>5 DEF DomainFolds
    <2>2. \A S \in SUBSET DOMAIN s : X[S] = IF S = {} THEN a ELSE F[<<X[S \ {Max(S)}], s[Max(S)]>>]
      BY <2>1 DEF Folded
    <2>3. \A S \in SUBSET DOMAIN s : S # {} => X[S \ {Max(S)}] \in A
      BY <1>s, <2>1
    <2>4. \A S \in SUBSET DOMAIN s : X[S] = Body(X, S)
      <3> SUFFICES ASSUME NEW S \in SUBSET DOMAIN s PROVE X[S] = Body(X, S)
        OBVIOUS
      <3>1. CASE S = {}
        BY <2>2, <3>1
      <3>2. CASE S # {}
        <4>1. F[<<X[S \ {Max(S)}], s[Max(S)]>>] = Body(X, S)
          BY <1>6, <2>3, <3>2
        <4> HIDE DEF Body
        <4>2. QED
          BY <2>2, <3>2, <4>1
      <3>3. QED
        BY <3>1, <3>2
    <2> HIDE DEF Body
    <2>5. X = [S \in SUBSET DOMAIN s |-> Body(X, S)]
      BY <2>1, <2>4
    <2>6. QED
      BY <2>5
  <1>8. Solves(Z, F, a, A, s)
    <2>1. {} \in SUBSET DOMAIN s /\ Body(Z, {}) = a
      OBVIOUS
    <2>2. Z[{}] = a
      <3> HIDE DEF Body
      <3>1. QED
        BY <1>7, <2>1
    <2>3. \A S \in SUBSET DOMAIN s : Z[S] = Body(Z, S)
      <3> HIDE DEF Body
      <3>1. QED
        BY <1>7
    <2> HIDE DEF Z, Body
    <2>4. QED
      BY <1>6, <2>2, <2>3 DEF Solves
  <1>9. PICK f \in [0 .. Len(text) -> A] :
          /\ f[0] = a
          /\ \A i \in 1 .. Len(text) : f[i] = F[<<f[i - 1], i>>]
          /\ Z[DOMAIN s] = f[Len(text)]
    <2> HIDE DEF Z
    <2>1. QED
      BY <1>5, <1>8 DEF DomainFolds
  <1>10. \A i \in 1 .. n : f[i] = ScanStep(f[i - 1], text[i], i, c)
    <2>1. \A i \in 1 .. n : i - 1 \in 0 .. n
      BY <1>1
    <2>2. QED
      BY <1>1, <1>3, <1>9, <2>1
  <1>11. QED
    <2> HIDE DEF Z
    <2>1. QED
      BY <1>4, <1>9, <1>10 DEF a

\* The last of the first n characters that is no backslash.
Other(text, n) == Max({0} \union {m \in 1 .. n : text[m] # "\\"})

\* It stays where it was at a backslash, and moves on at any other character.
LEMMA OtherComes ==
  ASSUME NEW text \in Seq(Chars)
  PROVE  /\ Other(text, 0) = 0
         /\ \A i \in 1 .. Len(text) :
              /\ Other(text, i) = (IF text[i] = "\\" THEN Other(text, i - 1) ELSE i)
              /\ Other(text, i - 1) \in 0 .. i - 1
  <1> DEFINE All(n) == {0} \union {m \in 1 .. n : text[m] # "\\"}
  <1>1. Other(text, 0) = 0
    <2>1. {0} \union {m \in 1 .. 0 : text[m] # "\\"} = {0}
      OBVIOUS
    <2>2. Max({0}) \in {0}
      <3>1. {0} \subseteq 0 .. 0 /\ {0} # {}
        OBVIOUS
      <3>2. QED
        BY <3>1, MaxIs
    <2>3. QED
      BY <2>1, <2>2 DEF Other
  <1>2. ASSUME NEW n \in Nat
        PROVE  Other(text, n) \in All(n) /\ (\A m \in All(n) : m <= Other(text, n)) /\ Other(text, n) \in 0 .. n
    <2>1. All(n) \subseteq 0 .. n /\ All(n) # {}
      OBVIOUS
    <2>2. Other(text, n) = Max(All(n))
      BY DEF Other
    <2> HIDE DEF All
    <2>3. QED
      BY <2>1, <2>2, MaxIs
  <1>3. ASSUME NEW i \in 1 .. Len(text)
        PROVE  Other(text, i) = (IF text[i] = "\\" THEN Other(text, i - 1) ELSE i)
    <2>0. Len(text) \in Nat /\ i \in Nat /\ i - 1 \in Nat
      OBVIOUS
    <2>1. CASE text[i] = "\\"
      <3>1. {m \in 1 .. i : text[m] # "\\"} = {m \in 1 .. i - 1 : text[m] # "\\"}
        BY <2>0, <2>1
      <3>2. QED
        BY <2>1, <3>1 DEF Other
    <2>2. CASE text[i] # "\\"
      <3>1. i \in All(i)
        BY <2>0, <2>2
      <3>2. QED
        BY <1>2, <2>0, <2>2, <3>1
    <2>3. QED
      BY <2>1, <2>2
  <1>4. \A i \in 1 .. Len(text) : Other(text, i - 1) \in 0 .. i - 1
    <2>1. \A i \in 1 .. Len(text) : i - 1 \in Nat
      OBVIOUS
    <2>2. QED
      BY <1>2, <2>1
  <1>5. QED
    BY <1>1, <1>3, <1>4

\* Bare, in terms of it.
LEMMA BareIs ==
  ASSUME NEW text \in Seq(Chars), NEW c
  PROVE  /\ Bare(text, c) \subseteq DOMAIN text
         /\ \A i \in 1 .. Len(text) :
              i \in Bare(text, c) <=> text[i] = c /\ (i - 1 - Other(text, i - 1)) % 2 = 0
  <1>1. DOMAIN text = 1 .. Len(text)
    OBVIOUS
  <1>2. Bare(text, c) = {i \in DOMAIN text : text[i] = c /\ (i - 1 - Other(text, i - 1)) % 2 = 0}
    BY DEF Bare, Other
  <1>3. QED
    BY <1>1, <1>2

\* The scan keeps in mind whether an odd number of backslashes stands in front.
LEMMA ScanIs ==
  ASSUME NEW text \in Seq(Chars), NEW c
  PROVE  Scan(text, c) = IF c = "\\" \/ Bare(text, c) = {} THEN 0 ELSE Min(Bare(text, c))
  <1> DEFINE n == Len(text)
             B == Bare(text, c)
             Odd(i) == (i - Other(text, i)) % 2 = 1
  <1>1. n \in Nat /\ DOMAIN text = 1 .. n
    OBVIOUS
  <1>2. PICK f \in [0 .. Len(text) -> ScanState] :
          /\ f[0] = [at |-> 0, escaped |-> FALSE]
          /\ \A i \in 1 .. Len(text) : f[i] = ScanStep(f[i - 1], text[i], i, c)
          /\ Scan(text, c) = f[Len(text)].at
    BY ScanComes
  <1>3. \A i \in 0 .. n : f[i].at \in Nat /\ f[i].escaped \in BOOLEAN
    BY DEF ScanState
  <1> DEFINE Done(i) == /\ f[i].at = 0 => /\ \A j \in 1 .. i : j \notin B \/ c = "\\"
                                          /\ f[i].escaped <=> Odd(i)
                        /\ f[i].at # 0 => /\ c # "\\" /\ f[i].at \in B
                                          /\ \A j \in B : f[i].at <= j
             L == {i \in Nat : i <= n => Done(i)}
  <1>4. 0 \in L
    <2>1. Other(text, 0) = 0
      BY OtherComes
    <2>2. ~Odd(0)
      BY <2>1
    <2>3. f[0].at = 0 /\ f[0].escaped = FALSE
      BY <1>2
    <2> HIDE DEF B, Odd
    <2>4. QED
      BY <2>2, <2>3
  <1>5. ASSUME NEW k \in Nat, k \in L PROVE k + 1 \in L
    <2> SUFFICES ASSUME k + 1 <= n PROVE Done(k + 1)
      OBVIOUS
    <2> DEFINE i == k + 1
    <2>1. i \in 1 .. n /\ i - 1 = k /\ k \in 0 .. n /\ i \in 0 .. n /\ k <= n
      BY <1>1
    <2>2. Done(k)
      BY <1>5, <2>1
    <2>3. f[i] = ScanStep(f[k], text[i], i, c)
      BY <1>2, <2>1
    <2>4. B \subseteq 1 .. n /\ (i \in B <=> text[i] = c /\ ~Odd(k))
      <3>1. Other(text, k) \in 0 .. k
        BY <2>1, OtherComes
      <3>2. (k - Other(text, k)) % 2 = 0 <=> ~Odd(k)
        BY <3>1
      <3>3. B \subseteq 1 .. n /\ (i \in B <=> text[i] = c /\ (i - 1 - Other(text, i - 1)) % 2 = 0)
        BY <1>1, <2>1, BareIs
      <3>4. QED
        BY <2>1, <3>2, <3>3
    <2>5. Odd(i) <=> text[i] = "\\" /\ ~Odd(k)
      <3>1. Other(text, k) \in 0 .. k /\ Other(text, i) = (IF text[i] = "\\" THEN Other(text, k) ELSE i)
        BY <2>1, OtherComes
      <3>2. CASE text[i] = "\\"
        <4>1. \A d \in Nat : (d + 1) % 2 = 1 <=> d % 2 # 1
          OBVIOUS
        <4>2. k - Other(text, k) \in Nat /\ i - Other(text, i) = (k - Other(text, k)) + 1
          BY <3>1, <3>2
        <4>3. QED
          BY <3>2, <4>1, <4>2
      <3>3. CASE text[i] # "\\"
        <4>1. i - Other(text, i) = 0
          BY <2>1, <3>1, <3>3
        <4>2. QED
          BY <3>3, <4>1
      <3>4. QED
        BY <3>2, <3>3
    <2>6. \A j \in 1 .. i : j \in 1 .. k \/ j = i
      BY <2>1
    <2> HIDE DEF B, Odd, i
    <2>7. CASE f[k].at # 0
      <3>1. f[k].at > 0
        BY <1>3, <2>1, <2>7
      <3>2. f[i] = f[k]
        BY <2>3, <3>1 DEF ScanStep
      <3>3. QED
        BY <2>2, <2>7, <3>2 DEF i
    <2>8. CASE f[k].at = 0
      <3>0. ~(f[k].at > 0) /\ f[k].escaped \in BOOLEAN /\ f[k] \in ScanState
        BY <1>3, <2>1, <2>8
      <3>1. CASE f[k].escaped
        <4>1. f[i] = [f[k] EXCEPT !.escaped = FALSE]
          BY <2>3, <3>0, <3>1 DEF ScanStep
        <4>2. f[i].at = 0 /\ f[i].escaped = FALSE
          BY <2>8, <3>0, <4>1 DEF ScanState
        <4>3. QED
          BY <2>2, <2>4, <2>5, <2>6, <2>8, <3>1, <4>2 DEF i
      <3>2. CASE ~f[k].escaped /\ text[i] = "\\"
        <4>1. f[i] = [f[k] EXCEPT !.escaped = TRUE]
          BY <2>3, <3>0, <3>2 DEF ScanStep
        <4>2. f[i].at = 0 /\ f[i].escaped = TRUE
          BY <2>8, <3>0, <4>1 DEF ScanState
        <4>3. QED
          BY <2>2, <2>4, <2>5, <2>6, <2>8, <3>2, <4>2 DEF i
      <3>3. CASE ~f[k].escaped /\ text[i] # "\\" /\ text[i] = c
        <4>1. f[i] = [f[k] EXCEPT !.at = i]
          BY <2>3, <3>0, <3>3 DEF ScanStep
        <4>2. f[i].at = i
          BY <3>0, <4>1 DEF ScanState
        <4>3. i \in B /\ i # 0 /\ c # "\\"
          BY <2>1, <2>2, <2>4, <2>8, <3>3
        <4>4. \A j \in B : i <= j
          <5>1. \A j \in B : j \in Nat /\ j \notin 1 .. k /\ j >= 1
            BY <2>2, <2>4, <2>8, <4>3, <1>1
          <5>2. i = k + 1
            BY DEF i
          <5>3. QED
            BY <5>1, <5>2
        <4>5. QED
          BY <4>2, <4>3, <4>4 DEF i
      <3>4. CASE ~f[k].escaped /\ text[i] # "\\" /\ text[i] # c
        <4>1. f[i] = f[k]
          BY <2>3, <3>0, <3>4 DEF ScanStep
        <4>2. QED
          BY <2>2, <2>4, <2>5, <2>6, <2>8, <3>4, <4>1 DEF i
      <3>5. QED
        BY <3>0, <3>1, <3>2, <3>3, <3>4
    <2>9. QED
      BY <2>7, <2>8
  <1>6. Done(n)
    <2> HIDE DEF Done
    <2>1. Nat \subseteq L
      <3> HIDE DEF L
      <3>1. QED
        BY <1>4, <1>5, Induction
    <2>2. QED
      BY <1>1, <2>1
  <1>7. B \subseteq 1 .. n
    BY <1>1, BareIs
  <1> HIDE DEF B, Odd
  <1>8. CASE f[n].at = 0
    <2>1. c = "\\" \/ B = {}
      BY <1>6, <1>7, <1>8
    <2>2. QED
      BY <1>2, <1>8, <2>1 DEF B
  <1>9. CASE f[n].at # 0
    <2>1. c # "\\" /\ f[n].at \in B /\ \A j \in B : f[n].at <= j
      BY <1>6, <1>9
    <2>2. B \subseteq Nat /\ B # {}
      BY <1>7, <2>1, <1>1
    <2>3. Min(B) \in B /\ \A j \in B : Min(B) <= j
      BY <2>2, MinIs
    <2>4. f[n].at = Min(B)
      BY <2>1, <2>2, <2>3
    <2>5. QED
      BY <1>2, <2>1, <2>2, <2>4 DEF B
  <1>10. QED
    BY <1>8, <1>9

\* Replacing the occurrences of a text.
ReplaceState == [out : Seq(Chars), skip : Nat]

ReplaceStep(r, text, i, old, new) ==
  IF r.skip > 0 THEN [r EXCEPT !.skip = r.skip - 1]
  ELSE IF StandsAt(text, i, old) THEN [out |-> r.out \o new, skip |-> Len(old) - 1]
  ELSE [r EXCEPT !.out = Append(r.out, text[i])]

\* Replaced, character by character.
LEMMA ReplacedComes ==
  ASSUME NEW text \in Seq(Chars), NEW old \in Seq(Chars), old # <<>>, NEW new \in Seq(Chars)
  PROVE  \E f \in [0 .. Len(text) -> ReplaceState] :
           /\ f[0] = [out |-> <<>>, skip |-> 0]
           /\ \A i \in 1 .. Len(text) : f[i] = ReplaceStep(f[i - 1], text, i, old, new)
           /\ Replaced(text, old, new) = f[Len(text)].out
  <1> DEFINE n == Len(text)
             a == [out |-> <<>>, skip |-> 0]
             A == ReplaceState
             F == [p \in A \X DOMAIN text |-> ReplaceStep(p[1], text, p[2], old, new)]
             s == [i \in DOMAIN text |-> i]
             Body(X, S) ==
               IF S = {} THEN a
               ELSE IF X[S \ {Max(S)}].skip > 0 THEN [X[S \ {Max(S)}] EXCEPT !.skip = X[S \ {Max(S)}].skip - 1]
               ELSE IF StandsAt(text, s[Max(S)], old)
               THEN [out |-> X[S \ {Max(S)}].out \o new, skip |-> Len(old) - 1]
               ELSE [X[S \ {Max(S)}] EXCEPT !.out = Append(X[S \ {Max(S)}].out, text[s[Max(S)]])]
             Z == CHOOSE X : X = [S \in SUBSET DOMAIN s |-> Body(X, S)]
  <1>1. n \in Nat /\ DOMAIN text = 1 .. n
    OBVIOUS
  <1>2. a \in A
    BY DEF ReplaceState
  <1>3. F \in Stepper(A, DOMAIN text)
        /\ \A x \in A, i \in DOMAIN text : F[<<x, i>>] = ReplaceStep(x, text, i, old, new)
    <2>1. ASSUME NEW x \in A, NEW i \in DOMAIN text PROVE ReplaceStep(x, text, i, old, new) \in A
      <3>1. x.out \in Seq(Chars) /\ x.skip \in Nat /\ x \in ReplaceState
        BY DEF ReplaceState
      <3>2. x.skip > 0 => [x EXCEPT !.skip = x.skip - 1] \in A
        BY <3>1, SMTT(30) DEF ReplaceState
      <3>3. [out |-> x.out \o new, skip |-> Len(old) - 1] \in A
        <4>1. x.out \o new \in Seq(Chars)
          BY <3>1
        <4>2. Len(old) - 1 \in Nat
          BY EmptySeq
        <4>3. QED
          BY <4>1, <4>2 DEF ReplaceState
      <3>4. [x EXCEPT !.out = Append(x.out, text[i])] \in A
        <4>1. text[i] \in Chars
          BY <1>1
        <4>2. Append(x.out, text[i]) \in Seq(Chars)
          BY <3>1, <4>1
        <4>3. QED
          BY <3>1, <4>2 DEF ReplaceState
      <3> HIDE DEF A
      <3>5. QED
        BY <3>2, <3>3, <3>4 DEF ReplaceStep
    <2>2. QED
      BY <2>1 DEF Stepper
  <1>4. Replaced(text, old, new) = Z[DOMAIN s].out
    BY DEF Replaced, FoldLeftDomain, FoldLeft, MapThenFoldSet
  <1> HIDE DEF F, a
  <1>5. DomainFolds(s, text, F, a, A)
    BY <1>1, <1>2, <1>3, DomainFold
  <1>s. /\ DOMAIN s = DOMAIN text /\ \A i \in DOMAIN s : s[i] = i
        /\ \A S \in SUBSET DOMAIN s :
             S # {} => Max(S) \in DOMAIN s /\ S \ {Max(S)} \in SUBSET DOMAIN s
    BY <1>5 DEF DomainFolds
  <1> HIDE DEF s
  <1>6. ASSUME NEW X, NEW S \in SUBSET DOMAIN s, S # {}, X[S \ {Max(S)}] \in A
        PROVE  F[<<X[S \ {Max(S)}], s[Max(S)]>>] = Body(X, S)
    <2>1. F[<<X[S \ {Max(S)}], s[Max(S)]>>] = ReplaceStep(X[S \ {Max(S)}], text, s[Max(S)], old, new)
      BY <1>3, <1>s, <1>6
    <2>2. QED
      BY <1>6, <2>1 DEF ReplaceStep
  <1>7. Z = [S \in SUBSET DOMAIN s |-> Body(Z, S)]
    <2>1. PICK X \in [SUBSET DOMAIN s -> A] : Folded(X, F, a, s)
      BY <1>5 DEF DomainFolds
    <2>2. \A S \in SUBSET DOMAIN s : X[S] = IF S = {} THEN a ELSE F[<<X[S \ {Max(S)}], s[Max(S)]>>]
      BY <2>1 DEF Folded
    <2>3. \A S \in SUBSET DOMAIN s : S # {} => X[S \ {Max(S)}] \in A
      BY <1>s, <2>1
    <2>4. \A S \in SUBSET DOMAIN s : X[S] = Body(X, S)
      <3> SUFFICES ASSUME NEW S \in SUBSET DOMAIN s PROVE X[S] = Body(X, S)
        OBVIOUS
      <3>1. CASE S = {}
        BY <2>2, <3>1
      <3>2. CASE S # {}
        <4>1. F[<<X[S \ {Max(S)}], s[Max(S)]>>] = Body(X, S)
          BY <1>6, <2>3, <3>2
        <4> HIDE DEF Body
        <4>2. QED
          BY <2>2, <3>2, <4>1
      <3>3. QED
        BY <3>1, <3>2
    <2> HIDE DEF Body
    <2>5. X = [S \in SUBSET DOMAIN s |-> Body(X, S)]
      BY <2>1, <2>4
    <2>6. QED
      BY <2>5
  <1>8. Solves(Z, F, a, A, s)
    <2>1. {} \in SUBSET DOMAIN s /\ Body(Z, {}) = a
      OBVIOUS
    <2>2. Z[{}] = a
      <3> HIDE DEF Body
      <3>1. QED
        BY <1>7, <2>1
    <2>3. \A S \in SUBSET DOMAIN s : Z[S] = Body(Z, S)
      <3> HIDE DEF Body
      <3>1. QED
        BY <1>7
    <2> HIDE DEF Z, Body
    <2>4. QED
      BY <1>6, <2>2, <2>3 DEF Solves
  <1>9. PICK f \in [0 .. Len(text) -> A] :
          /\ f[0] = a
          /\ \A i \in 1 .. Len(text) : f[i] = F[<<f[i - 1], i>>]
          /\ Z[DOMAIN s] = f[Len(text)]
    <2> HIDE DEF Z
    <2>1. QED
      BY <1>5, <1>8 DEF DomainFolds
  <1>10. \A i \in 1 .. n : f[i] = ReplaceStep(f[i - 1], text, i, old, new)
    <2>1. \A i \in 1 .. n : i - 1 \in 0 .. n
      BY <1>1
    <2>2. QED
      BY <1>1, <1>3, <1>9, <2>1
  <1>11. QED
    <2> HIDE DEF Z
    <2>1. QED
      BY <1>4, <1>9, <1>10 DEF a

\* A set of occurrences as Occurrences wants it.
Greedy(text, old, chosen) ==
  LET all == {i \in DOMAIN text : StandsAt(text, i, old)}
  IN /\ chosen \in SUBSET all
     /\ \A i \in all : i \in chosen <=> \A j \in chosen : j < i => j + Len(old) <= i

\* There is only one such set: the least place where two differ would have the
\* same places in front of it in both.
LEMMA GreedyUnique ==
  ASSUME NEW text \in Seq(Chars), NEW old, NEW c, NEW d,
         Greedy(text, old, c), Greedy(text, old, d)
  PROVE  c = d
  <1> DEFINE all == {i \in DOMAIN text : StandsAt(text, i, old)}
             Bad == {i \in all : (i \in c) # (i \in d)}
  <1>1. all \subseteq Nat
    OBVIOUS
  <1>2. /\ c \subseteq all /\ d \subseteq all
        /\ \A i \in all : i \in c <=> \A j \in c : j < i => j + Len(old) <= i
        /\ \A i \in all : i \in d <=> \A j \in d : j < i => j + Len(old) <= i
    BY DEF Greedy
  <1> HIDE DEF all
  <1>3. ASSUME Bad # {} PROVE FALSE
    <2>1. Bad \subseteq Nat /\ Bad # {}
      BY <1>1, <1>3
    <2> HIDE DEF Bad
    <2>2. PICK i \in Bad : \A m \in Bad : i <= m
      BY <2>1, LeastNat
    <2>3. i \in all /\ (i \in c) # (i \in d)
      BY <2>2 DEF Bad
    <2>4. \A j \in all : j < i => (j \in c <=> j \in d)
      <3> SUFFICES ASSUME NEW j \in all, j < i PROVE j \in c <=> j \in d
        OBVIOUS
      <3>1. j \notin Bad
        BY <1>1, <2>2, <2>3
      <3>2. QED
        BY <3>1 DEF Bad
    <2>5. (\A j \in c : j < i => j + Len(old) <= i) <=> (\A j \in d : j < i => j + Len(old) <= i)
      BY <1>2, <2>4
    <2>6. QED
      BY <1>2, <2>3, <2>5
  <1>4. QED
    BY <1>2, <1>3

\* What is known of the set Occurrences, if there is one.
LEMMA OccurrencesAre ==
  ASSUME NEW text \in Seq(Chars), NEW old, NEW at, Greedy(text, old, at)
  PROVE  Occurrences(text, old) = at
  <1> DEFINE all == {i \in DOMAIN text : StandsAt(text, i, old)}
             P(chosen) == \A i \in all : i \in chosen <=> \A j \in chosen : j < i => j + Len(old) <= i
  <1>1. Occurrences(text, old) = CHOOSE chosen \in SUBSET all : P(chosen)
    BY DEF Occurrences
  <1>2. at \in SUBSET all /\ P(at)
    BY DEF Greedy
  <1> HIDE DEF P, all
  <1>3. Occurrences(text, old) \in SUBSET all /\ P(Occurrences(text, old))
    BY <1>1, <1>2
  <1>4. Greedy(text, old, Occurrences(text, old))
    BY <1>3 DEF Greedy, P, all
  <1>5. QED
    BY <1>4, GreedyUnique

\* The places that are replaced, and how many characters are still to be skipped.
LEMMA SkipIs ==
  ASSUME NEW text \in Seq(Chars), NEW old \in Seq(Chars), old # <<>>, NEW new \in Seq(Chars),
         NEW f \in [0 .. Len(text) -> ReplaceState],
         f[0] = [out |-> <<>>, skip |-> 0],
         \A i \in 1 .. Len(text) : f[i] = ReplaceStep(f[i - 1], text, i, old, new)
  PROVE  LET at == {i \in 1 .. Len(text) : StandsAt(text, i, old) /\ f[i - 1].skip = 0}
         IN \A i \in 0 .. Len(text) :
              /\ f[i].skip > 0 => \E j \in at : j <= i /\ f[i].skip = j + Len(old) - 1 - i
              /\ \A j \in at : j <= i => j + Len(old) - 1 - i <= f[i].skip
  <1> DEFINE n == Len(text)
             m == Len(old)
             at == {i \in 1 .. n : StandsAt(text, i, old) /\ f[i - 1].skip = 0}
             Right(i) == /\ f[i].skip > 0 => \E j \in at : j <= i /\ f[i].skip = j + m - 1 - i
                         /\ \A j \in at : j <= i => j + m - 1 - i <= f[i].skip
             L == {i \in Nat : i <= n => Right(i)}
  <1>1. n \in Nat /\ m \in Nat /\ m >= 1
    BY EmptySeq
  <1>2. \A i \in 0 .. n : f[i].skip \in Nat /\ f[i] \in ReplaceState
    BY DEF ReplaceState
  <1>3. 0 \in L
    <2>1. f[0].skip = 0
      OBVIOUS
    <2>2. \A j \in at : ~(j <= 0)
      BY <1>1
    <2> HIDE DEF at
    <2>3. QED
      BY <2>1, <2>2
  <1>4. ASSUME NEW k \in Nat, k \in L PROVE k + 1 \in L
    <2> SUFFICES ASSUME k + 1 <= n PROVE Right(k + 1)
      OBVIOUS
    <2> DEFINE i == k + 1
    <2>1. i \in 1 .. n /\ i - 1 = k /\ k \in 0 .. n /\ i \in 0 .. n /\ k <= n /\ i \in Nat
      BY <1>1
    <2>2. Right(k)
      BY <1>4, <2>1
    <2>3. f[i] = ReplaceStep(f[k], text, i, old, new)
      BY <2>1
    <2>4. \A j \in at : j \in Nat
      BY <1>1
    <2>5. i \in at <=> StandsAt(text, i, old) /\ f[k].skip = 0
      BY <2>1
    <2>6. \A j \in at : j <= i => j <= k \/ j = i
      BY <2>1, <2>4
    <2>7. f[k].skip \in Nat /\ f[i].skip \in Nat /\ f[k] \in ReplaceState
      BY <1>2, <2>1
    <2>8. CASE f[k].skip > 0
      <3>1. f[i] = [f[k] EXCEPT !.skip = f[k].skip - 1]
        BY <2>3, <2>8 DEF ReplaceStep
      <3>2. f[i].skip = f[k].skip - 1
        BY <2>7, <3>1 DEF ReplaceState
      <3> HIDE DEF at, n, m
      <3>3. PICK j \in at : j <= k /\ f[k].skip = j + m - 1 - k
        BY <2>2, <2>8
      <3>4. j <= i /\ f[i].skip = j + m - 1 - i
        BY <1>1, <2>1, <2>4, <3>2, <3>3
      <3>5. i \notin at
        BY <2>5, <2>8
      <3>6. ASSUME NEW h \in at, h <= i PROVE h + m - 1 - i <= f[i].skip
        <4>1. h <= k
          BY <2>6, <3>5, <3>6
        <4>2. h + m - 1 - k <= f[k].skip
          BY <2>2, <4>1
        <4>3. QED
          BY <1>1, <2>1, <2>4, <2>7, <3>2, <4>2
      <3>7. QED
        BY <3>4, <3>6
    <2>9. CASE f[k].skip = 0
      <3>0. ASSUME NEW h \in at, h <= k PROVE h + m - 1 - i <= 0
        <4>1. h + m - 1 - k <= 0
          BY <2>2, <2>9, <3>0
        <4> HIDE DEF at, n, m
        <4>2. QED
          BY <1>1, <2>1, <2>4, <4>1
      <3>1. CASE StandsAt(text, i, old)
        <4>1. f[i] = [out |-> f[k].out \o new, skip |-> m - 1]
          BY <2>3, <2>9, <3>1 DEF ReplaceStep
        <4>2. f[i].skip = m - 1
          BY <4>1
        <4>3. i \in at
          BY <2>5, <2>9, <3>1
        <4> HIDE DEF at, n, m
        <4>4. i <= i /\ f[i].skip = i + m - 1 - i
          BY <1>1, <2>1, <4>2
        <4>5. ASSUME NEW h \in at, h <= i PROVE h + m - 1 - i <= f[i].skip
          <5>1. CASE h = i
            BY <1>1, <2>1, <4>2, <5>1
          <5>2. CASE h <= k
            <6>1. h + m - 1 - i <= 0
              BY <3>0, <5>2
            <6>2. QED
              BY <1>1, <2>1, <2>4, <2>7, <6>1
          <5>3. QED
            BY <2>6, <4>5, <5>1, <5>2
        <4>6. QED
          BY <4>3, <4>4, <4>5
      <3>2. CASE ~StandsAt(text, i, old)
        <4>1. f[i] = [f[k] EXCEPT !.out = Append(f[k].out, text[i])]
          BY <2>3, <2>9, <3>2 DEF ReplaceStep
        <4>2. f[i].skip = 0
          BY <2>7, <2>9, <4>1 DEF ReplaceState
        <4>3. i \notin at
          BY <2>5, <3>2
        <4> HIDE DEF at, n, m
        <4>4. ASSUME NEW h \in at, h <= i PROVE h + m - 1 - i <= f[i].skip
          <5>1. h <= k
            BY <2>6, <4>3, <4>4
          <5>2. QED
            BY <3>0, <4>2, <5>1
        <4>5. QED
          BY <4>2, <4>4
      <3>3. QED
        BY <3>1, <3>2
    <2>10. QED
      BY <2>7, <2>8, <2>9
  <1>5. Nat \subseteq L
    <2> HIDE DEF L
    <2>1. QED
      BY <1>3, <1>4, Induction
  <1>6. \A i \in 0 .. n : Right(i)
    <2> HIDE DEF Right
    <2>1. QED
      BY <1>5, <1>1
  <1>7. QED
    BY <1>6

\* Replacing from the left is replacing the occurrences that nothing overlaps.
LEMMA ReplacedIs ==
  ASSUME NEW text \in Seq(Chars), NEW old \in Seq(Chars), old # <<>>, NEW new \in Seq(Chars)
  PROVE  /\ Replaced(text, old, new) = Rewritten(text, old, new)
         /\ Replaced(text, old, new) \in Seq(Chars)
  <1> DEFINE n == Len(text)
             m == Len(old)
  <1>0. n \in Nat /\ m \in Nat /\ m >= 1 /\ DOMAIN text = 1 .. n
    BY EmptySeq
  <1>1. PICK f \in [0 .. Len(text) -> ReplaceState] :
          /\ f[0] = [out |-> <<>>, skip |-> 0]
          /\ \A i \in 1 .. Len(text) : f[i] = ReplaceStep(f[i - 1], text, i, old, new)
          /\ Replaced(text, old, new) = f[Len(text)].out
    BY ReplacedComes
  <1> DEFINE at == {i \in 1 .. n : StandsAt(text, i, old) /\ f[i - 1].skip = 0}
             all == {i \in DOMAIN text : StandsAt(text, i, old)}
             Inside(i) == \E j \in at : j < i /\ i < j + Len(old)
             ss == [i \in DOMAIN text |-> IF i \in at THEN new ELSE IF Inside(i) THEN <<>> ELSE <<text[i]>>]
  <1>2. \A i \in 0 .. n :
          /\ f[i].skip > 0 => \E j \in at : j <= i /\ f[i].skip = j + m - 1 - i
          /\ \A j \in at : j <= i => j + m - 1 - i <= f[i].skip
    BY <1>1, SkipIs
  <1>3. \A i \in 0 .. n : f[i] \in ReplaceState /\ f[i].skip \in Nat /\ f[i].out \in Seq(Chars)
    BY DEF ReplaceState
  <1>4. at \subseteq 1 .. n /\ \A i \in 1 .. n : i \in at <=> StandsAt(text, i, old) /\ f[i - 1].skip = 0
    OBVIOUS
  <1>5. all = {i \in 1 .. n : StandsAt(text, i, old)} /\ at \subseteq all
    BY <1>0
  <1> HIDE DEF at
  <1>6. ASSUME NEW i \in 1 .. n
        PROVE  /\ f[i - 1].skip > 0 <=> Inside(i)
               /\ f[i - 1].skip = 0 <=> \A j \in at : j < i => j + Len(old) <= i
    <2>1. i - 1 \in 0 .. n /\ i \in Nat /\ f[i - 1].skip \in Nat
      BY <1>0, <1>3
    <2>2. \A j \in at : j \in Nat
      BY <1>4, <1>0
    <2>3. /\ f[i - 1].skip > 0 => \E j \in at : j <= i - 1 /\ f[i - 1].skip = j + m - 1 - (i - 1)
          /\ \A j \in at : j <= i - 1 => j + m - 1 - (i - 1) <= f[i - 1].skip
      BY <1>2, <2>1
    <2>4. ASSUME f[i - 1].skip > 0 PROVE Inside(i)
      <3>1. PICK j \in at : j <= i - 1 /\ f[i - 1].skip = j + m - 1 - (i - 1)
        BY <2>3, <2>4
      <3>2. j < i /\ i < j + Len(old)
        BY <1>0, <2>1, <2>2, <2>4, <3>1
      <3>3. QED
        BY <3>2
    <2>5. ASSUME Inside(i) PROVE f[i - 1].skip > 0
      <3>1. PICK j \in at : j < i /\ i < j + Len(old)
        BY <2>5
      <3>2. j <= i - 1
        BY <2>1, <2>2, <3>1
      <3>3. j + m - 1 - (i - 1) <= f[i - 1].skip
        BY <2>3, <3>2
      <3>4. QED
        BY <1>0, <2>1, <2>2, <3>1, <3>3
    <2>6. Inside(i) <=> ~\A j \in at : j < i => j + Len(old) <= i
      BY <1>0, <2>1, <2>2
    <2>7. QED
      BY <2>1, <2>4, <2>5, <2>6
  <1>7. Greedy(text, old, at)
    <2>1. \A i \in all : i \in at <=> \A j \in at : j < i => j + Len(old) <= i
      BY <1>4, <1>5, <1>6
    <2>2. QED
      BY <1>5, <2>1 DEF Greedy
  <1>8. Occurrences(text, old) = at
    BY <1>7, OccurrencesAre
  <1>9. Rewritten(text, old, new) = FlattenSeq(ss)
    BY <1>8 DEF Rewritten
  <1>10. ss \in Seq(Seq(Chars)) /\ Len(ss) = n /\ DOMAIN ss = 1 .. n
         /\ \A i \in 1 .. n : ss[i] = IF i \in at THEN new ELSE IF f[i - 1].skip > 0 THEN <<>> ELSE <<text[i]>>
    <2>1. \A i \in 1 .. n : text[i] \in Chars
      BY <1>0
    <2>2. \A i \in 1 .. n : <<text[i]>> \in Seq(Chars) /\ <<>> \in Seq(Chars)
      BY <2>1
    <2> HIDE DEF Inside
    <2>3. \A i \in 1 .. n : ss[i] = IF i \in at THEN new ELSE IF Inside(i) THEN <<>> ELSE <<text[i]>>
      BY <1>0
    <2>4. \A i \in 1 .. n : ss[i] \in Seq(Chars)
      BY <2>2, <2>3
    <2>5. DOMAIN ss = 1 .. n
      BY <1>0
    <2>6. ss = [i \in 1 .. n |-> ss[i]]
      BY <1>0
    <2> HIDE DEF ss
    <2>7. ss \in Seq(Seq(Chars)) /\ Len(ss) = n
      BY <1>0, <2>4, <2>6
    <2>8. QED
      BY <1>6, <2>3, <2>5, <2>7
  <1> HIDE DEF ss
  <1>11. PICK g \in [0 .. Len(ss) -> Seq(Chars)] :
           /\ g[0] = <<>>
           /\ \A i \in 1 .. Len(ss) : g[i] = g[i - 1] \o ss[i]
           /\ FlattenSeq(ss) = g[Len(ss)]
    BY <1>10, FlattenComes
  <1> DEFINE L == {i \in Nat : i <= n => g[i] = f[i].out}
  <1>12. 0 \in L
    BY <1>1, <1>11
  <1>13. ASSUME NEW k \in Nat, k \in L PROVE k + 1 \in L
    <2> SUFFICES ASSUME k + 1 <= n PROVE g[k + 1] = f[k + 1].out
      OBVIOUS
    <2> DEFINE i == k + 1
    <2>1. i \in 1 .. n /\ i - 1 = k /\ k \in 0 .. n /\ k <= n
      BY <1>0
    <2>2. g[i] = f[k].out \o ss[i]
      BY <1>10, <1>11, <1>13, <2>1
    <2>3. f[i] = ReplaceStep(f[k], text, i, old, new)
      BY <1>1, <2>1
    <2>4. f[k] \in ReplaceState /\ f[k].skip \in Nat /\ f[k].out \in Seq(Chars) /\ text[i] \in Chars
      BY <1>0, <1>3, <2>1
    <2>5. CASE f[k].skip > 0
      <3>1. ss[i] = <<>>
        BY <1>4, <1>10, <2>1, <2>5
      <3>2. f[i] = [f[k] EXCEPT !.skip = f[k].skip - 1]
        BY <2>3, <2>5 DEF ReplaceStep
      <3>3. f[i].out = f[k].out
        BY <2>4, <3>2 DEF ReplaceState
      <3>4. f[k].out \o <<>> = f[k].out
        BY <2>4, ConcatEmptySeq
      <3>5. QED
        BY <2>2, <3>1, <3>3, <3>4
    <2>6. CASE f[k].skip = 0 /\ StandsAt(text, i, old)
      <3>1. ss[i] = new
        BY <1>4, <1>10, <2>1, <2>6
      <3>2. f[i] = [out |-> f[k].out \o new, skip |-> Len(old) - 1]
        BY <2>3, <2>6 DEF ReplaceStep
      <3>3. QED
        BY <2>2, <3>1, <3>2
    <2>7. CASE f[k].skip = 0 /\ ~StandsAt(text, i, old)
      <3>1. ss[i] = <<text[i]>>
        BY <1>4, <1>10, <2>1, <2>7
      <3>2. f[i] = [f[k] EXCEPT !.out = Append(f[k].out, text[i])]
        BY <2>3, <2>7 DEF ReplaceStep
      <3>3. f[i].out = Append(f[k].out, text[i])
        BY <2>4, <3>2 DEF ReplaceState
      <3>4. f[k].out \o <<text[i]>> = Append(f[k].out, text[i])
        BY <2>4
      <3>5. QED
        BY <2>2, <3>1, <3>3, <3>4
    <2>8. QED
      BY <2>4, <2>5, <2>6, <2>7
  <1>14. Nat \subseteq L
    <2> HIDE DEF L
    <2>1. QED
      BY <1>12, <1>13, Induction
  <1>15. g[n] = f[n].out
    BY <1>0, <1>14
  <1>16. QED
    <2>1. n \in 0 .. n
      BY <1>0
    <2>2. f[n].out \in Seq(Chars)
      BY <1>3, <2>1
    <2>3. QED
      BY <1>1, <1>9, <1>10, <1>11, <1>15, <2>2

\* Taking the escapes out.
EscapeAt(text, i, meaning) == /\ text[i] = "\\" /\ i < Len(text) /\ text[i + 1] \in DOMAIN meaning

UnescapeStep(out, text, i, meaning) ==
  IF EscapeAt(text, i, meaning) THEN out
  ELSE IF i > 1 /\ EscapeAt(text, i - 1, meaning) THEN Append(out, meaning[text[i]])
  ELSE Append(out, text[i])

\* Unescaped, character by character.
LEMMA UnescapedComes ==
  ASSUME NEW text \in Seq(Chars), NEW meaning,
         \A x \in DOMAIN meaning : meaning[x] \in Chars
  PROVE  \E f \in [0 .. Len(text) -> Seq(Chars)] :
           /\ f[0] = <<>>
           /\ \A i \in 1 .. Len(text) : f[i] = UnescapeStep(f[i - 1], text, i, meaning)
           /\ Unescaped(text, meaning) = f[Len(text)]
  <1> DEFINE n == Len(text)
             a == <<>>
             A == Seq(Chars)
             F == [p \in A \X DOMAIN text |-> UnescapeStep(p[1], text, p[2], meaning)]
             s == [i \in DOMAIN text |-> i]
             Body(X, S) ==
               IF S = {} THEN a
               ELSE IF text[s[Max(S)]] = "\\" /\ s[Max(S)] < Len(text) /\ text[s[Max(S)] + 1] \in DOMAIN meaning THEN X[S \ {Max(S)}]
               ELSE IF s[Max(S)] > 1 /\ (text[s[Max(S)] - 1] = "\\" /\ s[Max(S)] - 1 < Len(text) /\ text[(s[Max(S)] - 1) + 1] \in DOMAIN meaning)
               THEN Append(X[S \ {Max(S)}], meaning[text[s[Max(S)]]])
               ELSE Append(X[S \ {Max(S)}], text[s[Max(S)]])
             Z == CHOOSE X : X = [S \in SUBSET DOMAIN s |-> Body(X, S)]
  <1>1. n \in Nat /\ DOMAIN text = 1 .. n
    OBVIOUS
  <1>2. a \in A
    OBVIOUS
  <1>3. F \in Stepper(A, DOMAIN text)
        /\ \A x \in A, i \in DOMAIN text : F[<<x, i>>] = UnescapeStep(x, text, i, meaning)
    <2>1. ASSUME NEW x \in A, NEW i \in DOMAIN text PROVE UnescapeStep(x, text, i, meaning) \in A
      <3>1. text[i] \in Chars /\ i \in Nat
        BY <1>1
      <3>2. EscapeAt(text, i - 1, meaning) => text[i] \in DOMAIN meaning
        <4>1. (i - 1) + 1 = i
          BY <3>1
        <4>2. QED
          BY <4>1 DEF EscapeAt
      <3>3. EscapeAt(text, i - 1, meaning) => Append(x, meaning[text[i]]) \in A
        BY <3>2
      <3>4. Append(x, text[i]) \in A
        BY <3>1
      <3> HIDE DEF A
      <3>5. QED
        BY <3>3, <3>4 DEF UnescapeStep
    <2>2. QED
      BY <2>1 DEF Stepper
  <1>4. Unescaped(text, meaning) = Z[DOMAIN s]
    BY DEF Unescaped, FoldLeftDomain, FoldLeft, MapThenFoldSet
  <1> HIDE DEF F, a
  <1>5. DomainFolds(s, text, F, a, A)
    BY <1>1, <1>2, <1>3, DomainFold
  <1>s. /\ DOMAIN s = DOMAIN text /\ \A i \in DOMAIN s : s[i] = i
        /\ \A S \in SUBSET DOMAIN s :
             S # {} => Max(S) \in DOMAIN s /\ S \ {Max(S)} \in SUBSET DOMAIN s
    BY <1>5 DEF DomainFolds
  <1> HIDE DEF s
  <1>6. ASSUME NEW X, NEW S \in SUBSET DOMAIN s, S # {}, X[S \ {Max(S)}] \in A
        PROVE  F[<<X[S \ {Max(S)}], s[Max(S)]>>] = Body(X, S)
    <2>1. F[<<X[S \ {Max(S)}], s[Max(S)]>>] = UnescapeStep(X[S \ {Max(S)}], text, s[Max(S)], meaning)
      BY <1>3, <1>s, <1>6
    <2>2. QED
      BY <1>6, <2>1 DEF UnescapeStep, EscapeAt
  <1>7. Z = [S \in SUBSET DOMAIN s |-> Body(Z, S)]
    <2>1. PICK X \in [SUBSET DOMAIN s -> A] : Folded(X, F, a, s)
      BY <1>5 DEF DomainFolds
    <2>2. \A S \in SUBSET DOMAIN s : X[S] = IF S = {} THEN a ELSE F[<<X[S \ {Max(S)}], s[Max(S)]>>]
      BY <2>1 DEF Folded
    <2>3. \A S \in SUBSET DOMAIN s : S # {} => X[S \ {Max(S)}] \in A
      BY <1>s, <2>1
    <2>4. \A S \in SUBSET DOMAIN s : X[S] = Body(X, S)
      <3> SUFFICES ASSUME NEW S \in SUBSET DOMAIN s PROVE X[S] = Body(X, S)
        OBVIOUS
      <3>1. CASE S = {}
        BY <2>2, <3>1
      <3>2. CASE S # {}
        <4>1. F[<<X[S \ {Max(S)}], s[Max(S)]>>] = Body(X, S)
          BY <1>6, <2>3, <3>2
        <4> HIDE DEF Body
        <4>2. QED
          BY <2>2, <3>2, <4>1
      <3>3. QED
        BY <3>1, <3>2
    <2> HIDE DEF Body
    <2>5. X = [S \in SUBSET DOMAIN s |-> Body(X, S)]
      BY <2>1, <2>4
    <2>6. QED
      BY <2>5
  <1>8. Solves(Z, F, a, A, s)
    <2>1. {} \in SUBSET DOMAIN s /\ Body(Z, {}) = a
      OBVIOUS
    <2>2. Z[{}] = a
      <3> HIDE DEF Body
      <3>1. QED
        BY <1>7, <2>1
    <2>3. \A S \in SUBSET DOMAIN s : Z[S] = Body(Z, S)
      <3> HIDE DEF Body
      <3>1. QED
        BY <1>7
    <2> HIDE DEF Z, Body
    <2>4. QED
      BY <1>6, <2>2, <2>3 DEF Solves
  <1>9. PICK f \in [0 .. Len(text) -> A] :
          /\ f[0] = a
          /\ \A i \in 1 .. Len(text) : f[i] = F[<<f[i - 1], i>>]
          /\ Z[DOMAIN s] = f[Len(text)]
    <2> HIDE DEF Z
    <2>1. QED
      BY <1>5, <1>8 DEF DomainFolds
  <1>10. \A i \in 1 .. n : f[i] = UnescapeStep(f[i - 1], text, i, meaning)
    <2>1. \A i \in 1 .. n : i - 1 \in 0 .. n
      BY <1>1
    <2>2. QED
      BY <1>1, <1>3, <1>9, <2>1
  <1>11. QED
    <2> HIDE DEF Z
    <2>1. QED
      BY <1>4, <1>9, <1>10 DEF a

\* An escape that means a character leaves a text of characters.
LEMMA UnescapedTyped ==
  ASSUME NEW text \in Seq(Chars), NEW meaning,
         \A x \in DOMAIN meaning : meaning[x] \in Chars
  PROVE  Unescaped(text, meaning) \in Seq(Chars)
  <1>1. PICK f \in [0 .. Len(text) -> Seq(Chars)] : Unescaped(text, meaning) = f[Len(text)]
    BY UnescapedComes
  <1>2. Len(text) \in 0 .. Len(text)
    OBVIOUS
  <1>3. QED
    BY <1>1, <1>2

\* So do the escapes of patterns and replacements.
LEMMA EscapesTyped ==
  ASSUME NEW text \in Seq(Chars), NEW delimiter \in Chars
  PROVE  /\ unescape_pattern(text, delimiter) \in Seq(Chars)
         /\ unescape_replacement(text, delimiter) \in Seq(Chars)
  <1> DEFINE one == [c \in {delimiter} |-> c]
             controls == [n |-> "newline", t |-> "tab", r |-> "return"]
             all == [c \in {delimiter} \union DOMAIN controls |-> IF c = delimiter THEN c ELSE controls[c]]
  <1>1. \A x \in DOMAIN one : one[x] \in Chars
    OBVIOUS
  <1>2. \A x \in DOMAIN all : all[x] \in Chars
    <2>0. DOMAIN controls = {"n", "t", "r"}
      OBVIOUS
    <2>1. \A x \in DOMAIN controls : controls[x] \in Chars
      <3>1. controls["n"] = "newline" /\ controls["t"] = "tab" /\ controls["r"] = "return"
        OBVIOUS
      <3>2. controls["n"] \in Chars /\ controls["t"] \in Chars /\ controls["r"] \in Chars
        BY <3>1, CharsHold
      <3> HIDE DEF controls
      <3>3. QED
        BY <2>0, <3>2
    <2> HIDE DEF controls
    <2>2. QED
      BY <2>1
  <1> HIDE DEF one, all, controls
  <1>3. Unescaped(text, one) \in Seq(Chars) /\ Unescaped(text, all) \in Seq(Chars)
    BY <1>1, <1>2, UnescapedTyped
  <1>4. QED
    BY <1>3 DEF unescape_pattern, unescape_replacement, one, all, controls

\* The part of a text from one place to another.
LEMMA PartIs ==
  ASSUME NEW T, NEW s \in Seq(T), NEW a \in Nat \ {0}, NEW b \in Int, b <= Len(s)
  PROVE  /\ SubSeq(s, a, b) \in Seq(T)
         /\ Len(SubSeq(s, a, b)) = IF a <= b THEN b - a + 1 ELSE 0
         /\ \A i \in 1 .. b - a + 1 : SubSeq(s, a, b)[i] = s[a + i - 1]
  <1>1. Len(s) \in Nat /\ \A i \in 1 .. Len(s) : s[i] \in T
    OBVIOUS
  <1>2. CASE a <= b
    <2>1. \A i \in a .. b : s[i] \in T
      BY <1>1
    <2>2. QED
      BY <1>1, <1>2, <2>1, SubSeqProperties
  <1>3. CASE ~(a <= b)
    <2>1. 1 .. b - a + 1 = {}
      BY <1>3
    <2>2. SubSeq(s, a, b) = <<>>
      BY <1>3, SubSeqEmpty
    <2>3. QED
      BY <1>3, <2>1, <2>2
  <1>4. QED
    BY <1>2, <1>3

\* A part of a part is a part.
LEMMA PartOfPart ==
  ASSUME NEW T, NEW s \in Seq(T), NEW a \in Nat \ {0}, NEW c \in Nat \ {0}, NEW d \in Int,
         a <= Len(s) + 1, d <= Len(s) - a + 1
  PROVE  SubSeq(SubSeq(s, a, Len(s)), c, d) = SubSeq(s, a + c - 1, a + d - 1)
  <1> DEFINE r == SubSeq(s, a, Len(s))
             p == SubSeq(r, c, d)
             q == SubSeq(s, a + c - 1, a + d - 1)
  <1>0. Len(s) \in Nat
    OBVIOUS
  <1>1. r \in Seq(T) /\ Len(r) = Len(s) - a + 1 /\ \A i \in 1 .. Len(s) - a + 1 : r[i] = s[a + i - 1]
    BY <1>0, PartIs
  <1> HIDE DEF r
  <1>2. p \in Seq(T) /\ Len(p) = (IF c <= d THEN d - c + 1 ELSE 0) /\ \A i \in 1 .. d - c + 1 : p[i] = r[c + i - 1]
    BY <1>1, PartIs
  <1>3. q \in Seq(T) /\ Len(q) = (IF c <= d THEN d - c + 1 ELSE 0)
        /\ \A i \in 1 .. d - c + 1 : q[i] = s[(a + c - 1) + i - 1]
    <2>1. a + c - 1 \in Nat \ {0} /\ a + d - 1 \in Int /\ a + d - 1 <= Len(s)
      BY <1>0
    <2>2. (a + d - 1) - (a + c - 1) + 1 = d - c + 1
      OBVIOUS
    <2>3. (a + c - 1 <= a + d - 1) <=> c <= d
      OBVIOUS
    <2>4. QED
      BY <2>1, <2>2, <2>3, PartIs
  <1> HIDE DEF p, q
  <1>4. \A i \in 1 .. d - c + 1 : p[i] = q[i]
    <2> SUFFICES ASSUME NEW i \in 1 .. d - c + 1 PROVE p[i] = q[i]
      OBVIOUS
    <2>1. c + i - 1 \in 1 .. Len(s) - a + 1
      BY <1>0
    <2>2. r[c + i - 1] = s[a + (c + i - 1) - 1]
      BY <1>1, <2>1
    <2>3. a + (c + i - 1) - 1 = (a + c - 1) + i - 1
      OBVIOUS
    <2>4. QED
      BY <1>2, <1>3, <2>2, <2>3
  <1>5. p = q
    <2>1. \A i \in 1 .. Len(p) : p[i] = q[i]
      BY <1>2, <1>4
    <2>2. QED
      BY <1>2, <1>3, <2>1, SeqEqual
  <1>6. QED
    BY <1>5 DEF p, q, r

\* A text without the blanks at its ends is a part of it.
LEMMA TrimTyped ==
  ASSUME NEW text \in Seq(Chars)
  PROVE  trim(text) \in Seq(Chars)
  <1> DEFINE solid == {i \in DOMAIN text : text[i] # Blank}
  <1>1. Len(text) \in Nat /\ solid \subseteq 1 .. Len(text)
    OBVIOUS
  <1>2. trim(text) = IF solid = {} THEN <<>> ELSE SubSeq(text, Min(solid), Max(solid))
    BY DEF trim
  <1> HIDE DEF solid
  <1>3. CASE solid = {}
    <2>1. <<>> \in Seq(Chars)
      OBVIOUS
    <2>2. QED
      BY <1>2, <1>3, <2>1
  <1>4. CASE solid # {}
    <2>1. Min(solid) \in solid /\ Max(solid) \in solid
      <3>1. solid \subseteq Nat /\ solid \subseteq 0 .. Len(text)
        BY <1>1
      <3>2. Min(solid) \in solid
        BY <1>4, <3>1, MinIs
      <3>3. Len(text) \in Nat
        BY <1>1
      <3>4. Max(solid) \in solid
        BY <1>4, <3>1, <3>3, MaxIs
      <3>5. QED
        BY <3>2, <3>4
    <2>2. Min(solid) \in Nat \ {0} /\ Max(solid) \in Int /\ Max(solid) <= Len(text)
      <3>1. Len(text) \in Nat /\ \A i \in solid : i \in 1 .. Len(text)
        BY <1>1
      <3>2. Min(solid) \in 1 .. Len(text) /\ Max(solid) \in 1 .. Len(text)
        BY <2>1, <3>1
      <3>3. QED
        BY <3>1, <3>2
    <2>3. SubSeq(text, Min(solid), Max(solid)) \in Seq(Chars)
      BY <2>2, PartIs
    <2>4. QED
      BY <1>2, <1>4, <2>3
  <1>5. QED
    BY <1>3, <1>4

\* The characters that stand bare are places of the text.
LEMMA FirstBare ==
  ASSUME NEW text \in Seq(Chars), NEW c, Bare(text, c) # {}
  PROVE  /\ Min(Bare(text, c)) \in Bare(text, c)
         /\ Min(Bare(text, c)) \in 1 .. Len(text)
         /\ \A i \in Bare(text, c) : Min(Bare(text, c)) <= i
  <1>1. Bare(text, c) \subseteq DOMAIN text /\ DOMAIN text = 1 .. Len(text) /\ Len(text) \in Nat
    BY BareIs
  <1>2. Bare(text, c) \subseteq Nat
    BY <1>1
  <1>3. QED
    BY <1>1, <1>2, MinIs

\* What process_line makes of a line is what the line says.
LEMMA ProcessLineIs ==
  ASSUME NEW text \in Seq(Chars)
  PROVE  process_line(text) = Said(text) /\ process_line(text) \in Seq(Chars)
  <1> DEFINE hashes == Bare(text, "#")
             hash == Scan(text, "#")
             content == IF hash = 0 THEN text ELSE SubSeq(text, 1, hash - 1)
             kept == IF hashes = {} THEN text ELSE SubSeq(text, 1, Min(hashes) - 1)
             old == <<"\\", "#">>
             new == <<"#">>
  <1>1. hash = IF hashes = {} THEN 0 ELSE Min(hashes)
    BY ScanIs
  <1>2. hashes # {} => Min(hashes) \in 1 .. Len(text)
    BY FirstBare
  <1>3. content = kept
    BY <1>1, <1>2
  <1>4. content \in Seq(Chars)
    <2>1. Len(text) \in Nat
      OBVIOUS
    <2>2. CASE hashes = {}
      BY <1>3, <2>2
    <2>3. CASE hashes # {}
      <3>1. Min(hashes) - 1 \in Int /\ Min(hashes) - 1 <= Len(text)
        BY <1>2, <2>1, <2>3
      <3> HIDE DEF hashes
      <3>2. SubSeq(text, 1, Min(hashes) - 1) \in Seq(Chars)
        BY <3>1, PartIs
      <3>3. QED
        BY <1>3, <2>3, <3>2
    <2>4. QED
      BY <2>2, <2>3
  <1>5. old \in Seq(Chars) /\ new \in Seq(Chars) /\ old # <<>>
    BY CharsHold
  <1>6. process_line(text) = trim(Replaced(content, old, new))
    BY DEF process_line
  <1>7. Said(text) = trim(Rewritten(kept, old, new))
    BY DEF Said
  <1> HIDE DEF content, kept, old, new
  <1>8. Replaced(content, old, new) = Rewritten(content, old, new) /\ Replaced(content, old, new) \in Seq(Chars)
    BY <1>4, <1>5, ReplacedIs
  <1>9. QED
    BY <1>3, <1>6, <1>7, <1>8, TrimTyped

\* Behind a character that is not escaped, the backslashes count anew.
LEMMA BareBehind ==
  ASSUME NEW text \in Seq(Chars), NEW c, c # "\\", NEW end \in Bare(text, c)
  PROVE  LET after == SubSeq(text, end + 1, Len(text))
         IN /\ after \in Seq(Chars) /\ Len(after) = Len(text) - end
            /\ \A k \in 1 .. Len(text) - end : k \in Bare(after, c) <=> end + k \in Bare(text, c)
  <1> DEFINE n == Len(text)
             after == SubSeq(text, end + 1, Len(text))
  <1>1. n \in Nat /\ end \in 1 .. n /\ text[end] = c
    <2>1. Bare(text, c) \subseteq DOMAIN text /\ DOMAIN text = 1 .. n /\ n \in Nat
      BY BareIs
    <2>2. end \in 1 .. n
      BY <2>1
    <2>3. QED
      BY <2>1, <2>2, BareIs
  <1>2. after \in Seq(Chars) /\ Len(after) = n - end /\ \A k \in 1 .. n - end : after[k] = text[end + k]
    <2>1. end + 1 \in Nat \ {0} /\ n \in Int /\ n <= Len(text) /\ n - (end + 1) + 1 = n - end
      BY <1>1
    <2>2. after \in Seq(Chars) /\ Len(after) = (IF end + 1 <= n THEN n - (end + 1) + 1 ELSE 0)
          /\ \A i \in 1 .. n - (end + 1) + 1 : after[i] = text[(end + 1) + i - 1]
      BY <2>1, PartIs
    <2>3. \A k \in 1 .. n - end : (end + 1) + k - 1 = end + k
      BY <1>1
    <2>4. (IF end + 1 <= n THEN n - (end + 1) + 1 ELSE 0) = n - end
      BY <1>1
    <2> HIDE DEF after
    <2>5. \A k \in 1 .. n - end : after[k] = text[(end + 1) + k - 1]
      BY <2>1, <2>2
    <2>6. QED
      BY <2>2, <2>3, <2>4, <2>5
  <1> HIDE DEF after
  <1> DEFINE L == {k \in Nat : k <= n - end => Other(after, k) = Other(text, end + k) - end
                                               /\ Other(text, end + k) \in Nat}
  <1>3. 0 \in L
    <2>1. Other(after, 0) = 0
      BY <1>2, OtherComes
    <2>2. Other(text, end) = end
      BY <1>1, OtherComes
    <2>3. end + 0 = end
      BY <1>1
    <2>4. QED
      BY <1>1, <2>1, <2>2, <2>3
  <1>4. ASSUME NEW k \in Nat, k \in L PROVE k + 1 \in L
    <2> SUFFICES ASSUME k + 1 <= n - end
                 PROVE  /\ Other(after, k + 1) = Other(text, end + (k + 1)) - end
                        /\ Other(text, end + (k + 1)) \in Nat
      OBVIOUS
    <2>1. /\ k + 1 \in 1 .. Len(after) /\ (k + 1) - 1 = k /\ k <= n - end
          /\ end + (k + 1) \in 1 .. n /\ (end + (k + 1)) - 1 = end + k
      BY <1>1, <1>2
    <2>2. Other(after, k + 1) = IF after[k + 1] = "\\" THEN Other(after, k) ELSE k + 1
      BY <1>2, <2>1, OtherComes
    <2>3. Other(text, end + (k + 1)) = IF text[end + (k + 1)] = "\\" THEN Other(text, end + k) ELSE end + (k + 1)
      BY <2>1, OtherComes
    <2>4. after[k + 1] = text[end + (k + 1)]
      BY <1>2, <2>1
    <2>5. Other(after, k) = Other(text, end + k) - end /\ Other(text, end + k) \in Nat
      BY <1>4, <2>1
    <2>6. QED
      BY <1>1, <2>2, <2>3, <2>4, <2>5
  <1>5. Nat \subseteq L
    <2> HIDE DEF L
    <2>1. QED
      BY <1>3, <1>4, Induction
  <1>6. ASSUME NEW k \in 1 .. n - end PROVE k \in Bare(after, c) <=> end + k \in Bare(text, c)
    <2>1. k \in 1 .. Len(after) /\ end + k \in 1 .. n /\ k - 1 \in Nat /\ (end + k) - 1 = end + (k - 1)
      BY <1>1, <1>2
    <2>2. k \in Bare(after, c) <=> after[k] = c /\ (k - 1 - Other(after, k - 1)) % 2 = 0
      BY <1>2, <2>1, BareIs
    <2>3. end + k \in Bare(text, c)
            <=> text[end + k] = c /\ ((end + k) - 1 - Other(text, (end + k) - 1)) % 2 = 0
      BY <2>1, BareIs
    <2>4. Other(after, k - 1) = Other(text, end + (k - 1)) - end /\ Other(text, end + (k - 1)) \in Nat
      BY <1>1, <1>5, <2>1
    <2>5. k - 1 - Other(after, k - 1) = (end + k) - 1 - Other(text, (end + k) - 1)
      BY <1>1, <2>1, <2>4
    <2>6. after[k] = text[end + k]
      BY <1>2
    <2>7. QED
      BY <2>2, <2>3, <2>5, <2>6
  <1>7. QED
    BY <1>2, <1>6 DEF after

\* The next one behind it is the first of the rest.
LEMMA ScanBehind ==
  ASSUME NEW text \in Seq(Chars), NEW c, c # "\\", Bare(text, c) # {}
  PROVE  LET first == Min(Bare(text, c))
             more == Bare(text, c) \ {first}
             last == Scan(SubSeq(text, first + 1, Len(text)), c)
         IN /\ more = {} => last = 0
            /\ more # {} => /\ last = Min(more) - first
                            /\ Min(more) \in first + 1 .. Len(text)
  <1> DEFINE first == Min(Bare(text, c))
             more == Bare(text, c) \ {first}
             after == SubSeq(text, first + 1, Len(text))
             rest == Bare(after, c)
  <1>1. /\ first \in Bare(text, c) /\ first \in 1 .. Len(text) /\ Len(text) \in Nat
        /\ Bare(text, c) \subseteq 1 .. Len(text)
        /\ \A i \in Bare(text, c) : first <= i
    <2>1. Bare(text, c) \subseteq DOMAIN text /\ DOMAIN text = 1 .. Len(text) /\ Len(text) \in Nat
      BY BareIs
    <2>2. QED
      BY <2>1, FirstBare
  <1> HIDE DEF first
  <1>2. /\ after \in Seq(Chars) /\ Len(after) = Len(text) - first
        /\ \A k \in 1 .. Len(text) - first : k \in rest <=> first + k \in Bare(text, c)
    BY <1>1, BareBehind
  <1>3. rest \subseteq 1 .. Len(text) - first
    <2>1. DOMAIN after = 1 .. Len(text) - first
      BY <1>2
    <2>2. QED
      BY <1>2, <2>1, BareIs
  <1>4. Scan(after, c) = IF rest = {} THEN 0 ELSE Min(rest)
    BY <1>2, ScanIs
  <1> HIDE DEF after, rest
  <1>5. \A i \in more : i \in first + 1 .. Len(text) /\ i - first \in rest
    <2> SUFFICES ASSUME NEW i \in more PROVE i \in first + 1 .. Len(text) /\ i - first \in rest
      OBVIOUS
    <2>1. i \in first + 1 .. Len(text)
      BY <1>1
    <2>2. i - first \in 1 .. Len(text) - first /\ first + (i - first) = i
      BY <1>1, <2>1
    <2>3. i \in Bare(text, c)
      OBVIOUS
    <2>4. QED
      BY <1>2, <2>1, <2>2, <2>3
  <1>6. \A k \in rest : first + k \in more /\ k \in Nat
    <2> SUFFICES ASSUME NEW k \in rest PROVE first + k \in more /\ k \in Nat
      OBVIOUS
    <2>1. k \in 1 .. Len(text) - first
      BY <1>3
    <2>2. first + k \in Bare(text, c) /\ first + k # first /\ k \in Nat
      BY <1>1, <1>2, <2>1
    <2>3. QED
      BY <2>2
  <1> HIDE DEF more
  <1>7. ASSUME more = {} PROVE Scan(after, c) = 0
    <2>1. rest = {}
      BY <1>6, <1>7
    <2>2. QED
      BY <1>4, <2>1
  <1>8. ASSUME more # {} PROVE Scan(after, c) = Min(more) - first /\ Min(more) \in first + 1 .. Len(text)
    <2>1. more \subseteq Nat /\ rest \subseteq Nat
      <3>1. \A i \in more : i \in Nat
        BY <1>1, <1>5
      <3>2. QED
        BY <1>6, <3>1
    <2>2. Min(more) \in more /\ \A i \in more : Min(more) <= i
      BY <1>8, <2>1, MinIs
    <2>3. Min(more) - first \in rest /\ Min(more) \in first + 1 .. Len(text)
      BY <1>5, <2>2
    <2>4. rest # {}
      BY <2>3
    <2>5. Min(rest) \in rest /\ \A k \in rest : Min(rest) <= k
      BY <2>1, <2>4, MinIs
    <2>6. Min(rest) <= Min(more) - first
      BY <2>3, <2>5
    <2>7. Min(more) <= first + Min(rest)
      BY <1>6, <2>2, <2>5
    <2>8. Min(rest) \in Nat /\ Min(more) \in Nat
      BY <2>1, <2>2, <2>5
    <2>9. Min(rest) = Min(more) - first
      BY <1>1, <2>6, <2>7, <2>8
    <2>10. QED
      BY <1>4, <2>3, <2>4, <2>9
  <1>9. QED
    BY <1>7, <1>8 DEF more, after, first

JobType == [text : Seq(Chars) \ {<<>>}, replacement : Seq(Chars), dynamic : BOOLEAN, trivial : BOOLEAN]

\* A line is the job it is written as, or none.
LEMMA JobIs ==
  ASSUME NEW line \in Seq(Chars)
  PROVE  /\ parse_filter_job(line) = JobsOf(line)
         /\ JobsOf(line) = <<>> \/ \E job \in JobType : JobsOf(line) = <<job>>
  <1> DEFINE d == line[2]
             rest == SubSeq(line, 3, Len(line))
             ends == Bare(rest, d)
             first == Min(ends)
             more == ends \ {first}
             text == unescape_pattern(SubSeq(rest, 1, first - 1), d)
             after == SubSeq(rest, first + 1, Len(rest))
             last == Scan(after, d)
             written == IF last = 0 THEN after ELSE SubSeq(after, 1, last - 1)
             flags == IF last = 0 THEN <<>> ELSE SubSeq(after, last + 1, Len(after))
             behind == SubSeq(rest, first + 1, IF more = {} THEN Len(rest) ELSE Min(more) - 1)
             signs == IF more = {} THEN <<>> ELSE SubSeq(rest, Min(more) + 1, Len(rest))
             job == Job(Literal[text], unescape_replacement(behind, d), signs)
             IsJob == Len(line) > 1 /\ line[1] \in {"s", "S"} /\ d # "\\" /\ ends # {}
  <1>1. JobsOf(line) = IF IsJob /\ text \in DOMAIN Literal THEN <<job>> ELSE <<>>
    BY DEF JobsOf
  <1>2. CASE Len(line) < 2 \/ line[1] \notin {"s", "S"}
    <2>1. parse_filter_job(line) = <<>>
      BY <1>2 DEF parse_filter_job
    <2>2. ~IsJob
      <3>1. Len(line) \in Nat
        OBVIOUS
      <3>2. QED
        BY <1>2, <3>1
    <2> HIDE DEF IsJob, job
    <2>3. QED
      BY <1>1, <2>1, <2>2
  <1>3. CASE ~(Len(line) < 2 \/ line[1] \notin {"s", "S"})
    <2>0. Len(line) \in Nat /\ Len(line) >= 2
      BY <1>3
    <2>1. d \in Chars /\ rest \in Seq(Chars)
      <3>1. line[2] \in Chars
        BY <2>0
      <3>2. 3 \in Nat \ {0} /\ Len(line) \in Int /\ Len(line) <= Len(line)
        BY <2>0
      <3>3. SubSeq(line, 3, Len(line)) \in Seq(Chars)
        BY <3>2, PartIs
      <3>4. QED
        BY <3>1, <3>3
    <2>2. Scan(rest, d) = IF d = "\\" \/ ends = {} THEN 0 ELSE first
      BY <2>1, ScanIs
    <2>3. IsJob <=> ~(d = "\\" \/ ends = {})
      BY <1>3, <2>0
    <2>4. parse_filter_job(line)
            = LET end == Scan(rest, d)
                  pattern == unescape_pattern(SubSeq(rest, 1, end - 1), d)
                  aft == SubSeq(rest, end + 1, Len(rest))
                  las == Scan(aft, d)
                  replacement == IF las = 0 THEN aft ELSE SubSeq(aft, 1, las - 1)
                  fl == IF las = 0 THEN <<>> ELSE SubSeq(aft, las + 1, Len(aft))
              IN IF end = 0 \/ pattern \notin DOMAIN Literal THEN <<>>
                 ELSE <<Job(Literal[pattern], unescape_replacement(replacement, d), fl)>>
      BY <1>3 DEF parse_filter_job
    <2>5. CASE ~IsJob
      <3>1. Scan(rest, d) = 0
        BY <2>2, <2>3, <2>5
      <3> HIDE DEF IsJob, job, d, rest
      <3>2. parse_filter_job(line) = <<>>
        BY <2>4, <3>1
      <3>3. JobsOf(line) = <<>>
        BY <1>1, <2>5
      <3>4. QED
        BY <3>2, <3>3
    <2>6. CASE IsJob
      <3>0. d # "\\" /\ ends # {}
        BY <2>3, <2>6
      <3> HIDE DEF IsJob, d, rest, ends
      <3>1. /\ first \in ends /\ first \in 1 .. Len(rest) /\ Len(rest) \in Nat
        BY <2>1, <3>0, FirstBare DEF ends
      <3>2. Scan(rest, d) = first /\ first # 0
        BY <2>2, <3>0, <3>1
      <3>3. parse_filter_job(line)
              = IF text \notin DOMAIN Literal THEN <<>>
                ELSE <<Job(Literal[text], unescape_replacement(written, d), flags)>>
        BY <2>4, <3>2
      <3>4. /\ more = {} => last = 0
            /\ more # {} => last = Min(more) - first /\ Min(more) \in first + 1 .. Len(rest)
        BY <2>1, <3>0, ScanBehind DEF ends
      <3> HIDE DEF first, last
      <3>5. written = behind /\ flags = signs
        <4>1. CASE more = {}
          BY <3>4, <4>1
        <4>2. CASE more # {}
          <5> DEFINE m == Min(more)
          <5>1. last = m - first /\ m \in first + 1 .. Len(rest)
            BY <3>4, <4>2
          <5> HIDE DEF m, more
          <5>2. last # 0 /\ m \in Nat /\ last - 1 \in Int /\ last + 1 \in Nat \ {0}
            BY <3>1, <5>1
          <5>3. Len(after) = Len(rest) - first
            <6>1. first + 1 \in Nat \ {0} /\ Len(rest) \in Int /\ Len(rest) <= Len(rest)
              BY <3>1
            <6>2. Len(after) = IF first + 1 <= Len(rest) THEN Len(rest) - (first + 1) + 1 ELSE 0
              BY <2>1, <6>1, PartIs
            <6>3. QED
              BY <3>1, <6>2
          <5>4. first + 1 \in Nat \ {0} /\ first + 1 <= Len(rest) + 1
            BY <3>1
          <5>5. SubSeq(after, 1, last - 1) = SubSeq(rest, (first + 1) + 1 - 1, (first + 1) + (last - 1) - 1)
            <6>1. 1 \in Nat \ {0} /\ last - 1 \in Int /\ last - 1 <= Len(rest) - (first + 1) + 1
              BY <3>1, <5>1, <5>2
            <6>2. QED
              BY <2>1, <5>4, <6>1, PartOfPart
          <5>6. SubSeq(after, last + 1, Len(after)) = SubSeq(rest, (first + 1) + (last + 1) - 1, (first + 1) + Len(after) - 1)
            <6>1. Len(after) \in Int /\ Len(after) <= Len(rest) - (first + 1) + 1
              BY <3>1, <5>3
            <6>2. QED
              BY <2>1, <5>2, <5>4, <6>1, PartOfPart
          <5>7. (first + 1) + 1 - 1 = first + 1 /\ (first + 1) + (last - 1) - 1 = m - 1
            BY <3>1, <5>1
          <5> HIDE DEF after
          <5>8. (first + 1) + (last + 1) - 1 = m + 1 /\ (first + 1) + Len(after) - 1 = Len(rest)
            BY <3>1, <5>1, <5>3
          <5>9. written = SubSeq(rest, first + 1, m - 1) /\ flags = SubSeq(rest, m + 1, Len(rest))
            BY <5>2, <5>5, <5>6, <5>7, <5>8
          <5>10. QED
            BY <4>2, <5>9 DEF m
        <4>3. QED
          BY <4>1, <4>2
      <3>6. parse_filter_job(line) = JobsOf(line)
        <4> HIDE DEF written, flags, behind, signs, text
        <4>1. QED
          BY <1>1, <2>6, <3>3, <3>5
      <3>7. behind \in Seq(Chars)
        <4> DEFINE e == IF more = {} THEN Len(rest) ELSE Min(more) - 1
        <4>1. first + 1 \in Nat \ {0} /\ e \in Int /\ e <= Len(rest)
          BY <3>1, <3>4
        <4> HIDE DEF e
        <4>2. SubSeq(rest, first + 1, e) \in Seq(Chars)
          BY <2>1, <4>1, PartIs
        <4>3. QED
          BY <4>2 DEF e
      <3>8. text \in DOMAIN Literal => job \in JobType
        <4>1. text \in DOMAIN Literal => Literal[text] \in Seq(Chars) \ {<<>>}
          <5> HIDE DEF text
          <5>1. QED
            BY FiltersAssumption, CharsHold
        <4>2. unescape_replacement(behind, d) \in Seq(Chars)
          BY <2>1, <3>7, EscapesTyped
        <4>3. \A fs : Contains(fs, "D") \in BOOLEAN /\ Contains(fs, "T") \in BOOLEAN
          BY DEF Contains
        <4> HIDE DEF text, behind, signs
        <4>4. QED
          BY <4>1, <4>2, <4>3 DEF Job, JobType
      <3> HIDE DEF job
      <3>9. QED
        BY <1>1, <2>6, <3>6, <3>8
    <2>7. QED
      BY <2>5, <2>6
  <1>4. QED
    BY <1>2, <1>3

-----------------------------------------------------------------------------
\* The filters that lines announce, as FiltersOf puts them together.
FilterType == [type : {Types[x] : x \in DOMAIN Types}, name : Seq(Chars), jobs : Seq(JobType),
               dynamic : BOOLEAN]

NextOf(lines, i) == {j \in i + 1 .. Len(lines) : IsHeader(lines[j])}
LastOf(lines, i) == IF NextOf(lines, i) = {} THEN Len(lines) ELSE Min(NextOf(lines, i)) - 1
JobsIn(lines, i, m) == FlattenSeq([k \in 1 .. m - i |-> JobsOf(lines[i + k])])
With(filter, jobs) == [filter EXCEPT !.jobs = jobs, !.dynamic = \E j \in ToSet(jobs) : j.dynamic]

Piece(lines, i) == IF IsHeader(lines[i]) THEN <<FilterAt(lines, i)>> ELSE <<>>
Pieces(lines) == [i \in DOMAIN lines |-> Piece(lines, i)]
Grouped(lines) == FlattenSeq(Pieces(lines))

\* FilterAt, with names for its parts.
LEMMA FilterAtIs ==
  ASSUME NEW lines, NEW i
  PROVE  FilterAt(lines, i) = With(parse_filter_header(lines[i]), JobsIn(lines, i, LastOf(lines, i)))
  BY DEF FilterAt, With, JobsIn, LastOf, NextOf

\* A header gives a filter without jobs.
LEMMA HeaderTyped ==
  ASSUME NEW line \in Seq(Chars), IsHeader(line)
  PROVE  /\ \E name \in Seq(Chars) : parse_filter_header(line) = Filter(Types[line[1]], name)
         /\ Types[line[1]] \in {Types[x] : x \in DOMAIN Types}
  <1> DEFINE rest == trim(Tail(line))
             blanks == {i \in DOMAIN rest : rest[i] = Blank}
             name == IF blanks = {} THEN rest ELSE SubSeq(rest, 1, Min(blanks) - 1)
  <1>1. line # <<>> /\ line[1] \in DOMAIN Types
    BY DEF IsHeader
  <1>2. rest \in Seq(Chars)
    <2>1. Tail(line) \in Seq(Chars)
      BY <1>1, HeadTailProperties
    <2>2. QED
      BY <2>1, TrimTyped
  <1> HIDE DEF rest
  <1>3. name \in Seq(Chars)
    <2>1. CASE blanks = {}
      BY <1>2, <2>1
    <2>2. CASE blanks # {}
      <3>1. blanks \subseteq Nat /\ Len(rest) \in Nat /\ \A i \in blanks : i \in 1 .. Len(rest)
        BY <1>2
      <3> HIDE DEF blanks
      <3>2. Min(blanks) \in blanks
        BY <2>2, <3>1, MinIs
      <3>3. Min(blanks) \in 1 .. Len(rest)
        BY <3>1, <3>2
      <3>4. 1 \in Nat \ {0} /\ Min(blanks) - 1 \in Int /\ Min(blanks) - 1 <= Len(rest)
        BY <3>1, <3>3
      <3>5. SubSeq(rest, 1, Min(blanks) - 1) \in Seq(Chars)
        BY <1>2, <3>4, PartIs
      <3>6. QED
        BY <2>2, <3>5
    <2>3. QED
      BY <2>1, <2>2
  <1>4. parse_filter_header(line) = Filter(Types[line[1]], name)
    BY DEF parse_filter_header, rest
  <1> HIDE DEF name
  <1>5. QED
    BY <1>1, <1>3, <1>4

\* A filter with other jobs.
LEMMA WithIs ==
  ASSUME NEW type, NEW name, NEW jobs
  PROVE  With(Filter(type, name), jobs)
           = [type |-> type, name |-> name, jobs |-> jobs, dynamic |-> \E j \in ToSet(jobs) : j.dynamic]
  <1>1. ASSUME NEW d
        PROVE  [[type |-> type, name |-> name, jobs |-> <<>>, dynamic |-> FALSE] EXCEPT !.jobs = jobs, !.dynamic = d]
                 = [type |-> type, name |-> name, jobs |-> jobs, dynamic |-> d]
    <2> DEFINE only == [type : {type}, name : {name}, jobs : {jobs}, dynamic : {d}]
    <2>1. [[type |-> type, name |-> name, jobs |-> <<>>, dynamic |-> FALSE] EXCEPT !.jobs = jobs, !.dynamic = d] \in only
      OBVIOUS
    <2>2. \A r \in only : r = [type |-> type, name |-> name, jobs |-> jobs, dynamic |-> d]
      OBVIOUS
    <2> HIDE DEF only
    <2>3. QED
      BY <2>1, <2>2
  <1> DEFINE d == \E j \in ToSet(jobs) : j.dynamic
  <1>2. With(Filter(type, name), jobs)
          = [[type |-> type, name |-> name, jobs |-> <<>>, dynamic |-> FALSE] EXCEPT !.jobs = jobs, !.dynamic = d]
    BY DEF With, Filter
  <1> HIDE DEF d
  <1>3. With(Filter(type, name), jobs) = [type |-> type, name |-> name, jobs |-> jobs, dynamic |-> d]
    BY <1>1, <1>2
  <1>4. QED
    BY <1>3 DEF d

\* The jobs of a line are jobs.
LEMMA JobsTyped ==
  ASSUME NEW line \in Seq(Chars)
  PROVE  JobsOf(line) \in Seq(JobType)
  <1>1. CASE JobsOf(line) = <<>>
    BY <1>1
  <1>2. CASE JobsOf(line) # <<>>
    <2>1. PICK job \in JobType : JobsOf(line) = <<job>>
      BY <1>2, JobIs
    <2>2. QED
      BY <2>1
  <1>3. QED
    BY <1>1, <1>2

\* So are those of the lines behind a header.
LEMMA JobsInTyped ==
  ASSUME NEW lines \in Seq(Seq(Chars)), NEW i \in 1 .. Len(lines), NEW m \in i .. Len(lines)
  PROVE  JobsIn(lines, i, m) \in Seq(JobType)
  <1> DEFINE ss == [k \in 1 .. m - i |-> JobsOf(lines[i + k])]
  <1>1. \A k \in 1 .. m - i : lines[i + k] \in Seq(Chars)
    <2>1. Len(lines) \in Nat /\ \A j \in 1 .. Len(lines) : lines[j] \in Seq(Chars)
      OBVIOUS
    <2>2. \A k \in 1 .. m - i : i + k \in 1 .. Len(lines)
      BY <2>1
    <2>3. QED
      BY <2>1, <2>2
  <1>2. \A k \in 1 .. m - i : JobsOf(lines[i + k]) \in Seq(JobType)
    BY <1>1, JobsTyped
  <1>3. ss \in Seq(Seq(JobType))
    <2>1. m - i \in Nat
      OBVIOUS
    <2>2. QED
      BY <1>2, <2>1
  <1> HIDE DEF ss
  <1>4. FlattenSeq(ss) \in Seq(JobType)
    BY <1>3, FlattenAppend
  <1>5. QED
    BY <1>4 DEF JobsIn, ss

\* There are none between a header and itself.
LEMMA NoJobs ==
  ASSUME NEW lines, NEW i \in Nat
  PROVE  JobsIn(lines, i, i) = <<>>
  <1>1. 1 .. i - i = {}
    OBVIOUS
  <1>2. [k \in 1 .. i - i |-> JobsOf(lines[i + k])] = <<>>
    BY <1>1
  <1>3. QED
    BY <1>2, FlattenEmpty DEF JobsIn

\* One line more.
LEMMA JobsInAppend ==
  ASSUME NEW lines \in Seq(Seq(Chars)), NEW x \in Seq(Chars), NEW i \in 1 .. Len(lines)
  PROVE  /\ \A m \in i .. Len(lines) : JobsIn(Append(lines, x), i, m) = JobsIn(lines, i, m)
         /\ JobsIn(Append(lines, x), i, Len(lines) + 1) = JobsIn(lines, i, Len(lines)) \o JobsOf(x)
  <1> DEFINE n == Len(lines)
             more == Append(lines, x)
  <1>1. /\ n \in Nat /\ Len(more) = n + 1 /\ more[n + 1] = x /\ \A j \in 1 .. n : more[j] = lines[j] /\ lines[j] \in Seq(Chars)
        /\ i \in Nat
    OBVIOUS
  <1> HIDE DEF more, n
  <1>2. ASSUME NEW m \in i .. n PROVE JobsIn(more, i, m) = JobsIn(lines, i, m)
    <2>1. \A k \in 1 .. m - i : more[i + k] = lines[i + k]
      <3>1. \A k \in 1 .. m - i : i + k \in 1 .. n
        BY <1>1
      <3>2. QED
        BY <1>1, <3>1
    <2>2. QED
      BY <2>1 DEF JobsIn
  <1>3. JobsIn(more, i, n + 1) = JobsIn(lines, i, n) \o JobsOf(x)
    <2> DEFINE ss == [k \in 1 .. n - i |-> JobsOf(lines[i + k])]
               tt == [k \in 1 .. (n + 1) - i |-> JobsOf(more[i + k])]
    <2>0. i <= n
      BY DEF n
    <2>1. /\ n - i \in Nat /\ (n + 1) - i = (n - i) + 1 /\ i + ((n - i) + 1) = n + 1
          /\ \A k \in 1 .. n - i : i + k \in 1 .. n
      BY <1>1, <2>0
    <2>2. \A k \in 1 .. n - i : JobsOf(lines[i + k]) \in Seq(JobType)
      BY <1>1, <2>1, JobsTyped
    <2>3. ss \in Seq(Seq(JobType)) /\ Len(ss) = n - i /\ \A k \in 1 .. n - i : ss[k] = JobsOf(lines[i + k])
      <3>1. \A k \in 1 .. n - i : ss[k] = JobsOf(lines[i + k])
        OBVIOUS
      <3>2. ss = [k \in 1 .. n - i |-> ss[k]]
        OBVIOUS
      <3> HIDE DEF ss
      <3>3. \A k \in 1 .. n - i : ss[k] \in Seq(JobType)
        BY <2>2, <3>1
      <3>4. QED
        BY <2>1, <3>1, <3>2, <3>3, Listed
    <2>4. JobsOf(x) \in Seq(JobType)
      BY JobsTyped
    <2>5. tt = Append(ss, JobsOf(x))
      <3>1. \A k \in 1 .. (n + 1) - i : tt[k] = JobsOf(more[i + k])
        OBVIOUS
      <3>2. tt = [k \in 1 .. (n + 1) - i |-> tt[k]]
        OBVIOUS
      <3> HIDE DEF ss, tt
      <3>3. \A k \in 1 .. n - i : tt[k] = ss[k]
        <4>1. \A k \in 1 .. n - i : more[i + k] = lines[i + k] /\ k \in 1 .. (n + 1) - i
          BY <1>1, <2>1
        <4>2. QED
          BY <2>3, <3>1, <4>1
      <3>4. tt[(n - i) + 1] = JobsOf(x)
        <4>1. (n - i) + 1 \in 1 .. (n + 1) - i
          BY <2>1
        <4>2. QED
          BY <1>1, <2>1, <3>1, <4>1
      <3>5. \A k \in 1 .. (n + 1) - i : tt[k] \in Seq(JobType)
        <4>1. \A k \in 1 .. (n + 1) - i : k \in 1 .. n - i \/ k = (n - i) + 1
          BY <2>1
        <4>2. \A k \in 1 .. n - i : ss[k] \in Seq(JobType)
          BY <2>2, <2>3
        <4>3. QED
          BY <2>4, <3>3, <3>4, <4>1, <4>2
      <3>6. tt \in Seq(Seq(JobType)) /\ Len(tt) = (n + 1) - i
        <4>1. (n + 1) - i \in Nat
          BY <2>1
        <4>2. QED
          BY <3>2, <3>5, <4>1, Listed
      <3>7. QED
        BY <2>1, <2>3, <2>4, <3>3, <3>4, <3>6, AppendIs
    <2> HIDE DEF ss, tt
    <2>6. FlattenSeq(Append(ss, JobsOf(x))) = FlattenSeq(ss) \o JobsOf(x)
      BY <2>3, <2>4, FlattenAppend
    <2>7. QED
      BY <2>5, <2>6 DEF JobsIn, ss, tt
  <1>4. QED
    BY <1>2, <1>3 DEF more, n

\* A filter ends behind its header, at the latest with the file.
LEMMA LastTyped ==
  ASSUME NEW lines, Len(lines) \in Nat, NEW i \in 1 .. Len(lines)
  PROVE  LastOf(lines, i) \in i .. Len(lines)
  <1> DEFINE S == NextOf(lines, i)
  <1>1. S \subseteq Nat /\ \A j \in S : j \in i + 1 .. Len(lines)
    BY DEF NextOf
  <1>2. CASE S = {}
    BY <1>2 DEF LastOf
  <1>3. CASE S # {}
    <2> HIDE DEF S
    <2>1. Min(S) \in S
      BY <1>1, <1>3, MinIs
    <2>2. Min(S) \in i + 1 .. Len(lines)
      BY <1>1, <2>1
    <2>3. Min(S) - 1 \in i .. Len(lines)
      BY <2>2
    <2>4. QED
      BY <1>3, <2>3 DEF LastOf, S
  <1>4. QED
    BY <1>2, <1>3

\* The filter of a header is one.
LEMMA FilterAtTyped ==
  ASSUME NEW lines \in Seq(Seq(Chars)), NEW i \in 1 .. Len(lines), IsHeader(lines[i])
  PROVE  FilterAt(lines, i) \in FilterType
  <1> DEFINE jobs == JobsIn(lines, i, LastOf(lines, i))
             type == Types[lines[i][1]]
  <1>1. jobs \in Seq(JobType)
    <2>1. Len(lines) \in Nat
      OBVIOUS
    <2>2. QED
      BY <2>1, LastTyped, JobsInTyped
  <1>2. lines[i] \in Seq(Chars)
    OBVIOUS
  <1>3. PICK name \in Seq(Chars) : parse_filter_header(lines[i]) = Filter(type, name)
    BY <1>2, HeaderTyped
  <1>4. type \in {Types[x] : x \in DOMAIN Types}
    BY <1>2, HeaderTyped
  <1> HIDE DEF jobs, type
  <1>5. FilterAt(lines, i) = [type |-> type, name |-> name, jobs |-> jobs, dynamic |-> \E j \in ToSet(jobs) : j.dynamic]
    BY <1>3, FilterAtIs, WithIs DEF jobs
  <1>6. (\E j \in ToSet(jobs) : j.dynamic) \in BOOLEAN
    OBVIOUS
  <1>7. QED
    BY <1>1, <1>4, <1>5, <1>6 DEF FilterType

\* Each line gives filters.
LEMMA PiecesTyped ==
  ASSUME NEW lines \in Seq(Seq(Chars))
  PROVE  /\ Pieces(lines) \in Seq(Seq(FilterType)) /\ Len(Pieces(lines)) = Len(lines)
         /\ \A i \in 1 .. Len(lines) : Pieces(lines)[i] = Piece(lines, i)
         /\ Grouped(lines) \in Seq(FilterType)
  <1>1. Len(lines) \in Nat /\ DOMAIN lines = 1 .. Len(lines)
    OBVIOUS
  <1>2. ASSUME NEW i \in 1 .. Len(lines) PROVE Piece(lines, i) \in Seq(FilterType)
    <2>1. IsHeader(lines[i]) => FilterAt(lines, i) \in FilterType
      BY FilterAtTyped
    <2>2. QED
      BY <2>1 DEF Piece
  <1>3. Pieces(lines) = [i \in 1 .. Len(lines) |-> Piece(lines, i)]
    BY <1>1 DEF Pieces
  <1>4. /\ Pieces(lines) \in Seq(Seq(FilterType)) /\ Len(Pieces(lines)) = Len(lines)
        /\ \A i \in 1 .. Len(lines) : Pieces(lines)[i] = Piece(lines, i)
    BY <1>1, <1>2, <1>3
  <1>5. FlattenSeq(Pieces(lines)) \in Seq(FilterType)
    BY <1>4, FlattenAppend
  <1>6. QED
    BY <1>4, <1>5 DEF Grouped

\* A line more behind the last one.
LEMMA FilterAtAppend ==
  ASSUME NEW lines \in Seq(Seq(Chars)), NEW x \in Seq(Chars), NEW i \in 1 .. Len(lines)
  PROVE  /\ NextOf(lines, i) # {} \/ IsHeader(x) => FilterAt(Append(lines, x), i) = FilterAt(lines, i)
         /\ NextOf(lines, i) = {} /\ ~IsHeader(x)
            => /\ FilterAt(lines, i) = With(parse_filter_header(lines[i]), JobsIn(lines, i, Len(lines)))
               /\ FilterAt(Append(lines, x), i)
                    = With(parse_filter_header(lines[i]), JobsIn(lines, i, Len(lines)) \o JobsOf(x))
  <1> DEFINE n == Len(lines)
             more == Append(lines, x)
             S == NextOf(lines, i)
             S2 == NextOf(more, i)
  <1>1. /\ n \in Nat /\ Len(more) = n + 1 /\ more[n + 1] = x /\ more[i] = lines[i]
        /\ \A j \in 1 .. n : more[j] = lines[j]
        /\ i \in Nat /\ i <= n
    OBVIOUS
  <1>2. JobsIn(more, i, n + 1) = JobsIn(lines, i, n) \o JobsOf(x)
        /\ \A m \in i .. n : JobsIn(more, i, m) = JobsIn(lines, i, m)
    BY JobsInAppend
  <1>3. /\ S = {j \in i + 1 .. n : IsHeader(lines[j])}
        /\ S2 = {j \in i + 1 .. n + 1 : IsHeader(more[j])}
    BY <1>1 DEF NextOf
  <1> HIDE DEF more, n
  <1>4. S2 = S \union (IF IsHeader(x) THEN {n + 1} ELSE {})
    <2>1. \A j \in i + 1 .. n + 1 : j \in i + 1 .. n \/ j = n + 1
      BY <1>1
    <2>2. \A j \in i + 1 .. n : j \in i + 1 .. n + 1 /\ more[j] = lines[j]
      BY <1>1
    <2>3. n + 1 \in i + 1 .. n + 1
      BY <1>1
    <2>4. QED
      BY <1>1, <1>3, <2>1, <2>2, <2>3
  <1>5. S \subseteq Nat /\ \A j \in S : j <= n
    BY <1>1, <1>3
  <1> HIDE DEF S, S2
  <1>6. LastOf(lines, i) = (IF S = {} THEN n ELSE Min(S) - 1)
        /\ LastOf(more, i) = (IF S2 = {} THEN n + 1 ELSE Min(S2) - 1)
    BY <1>1 DEF LastOf, S, S2, n
  <1>7. LastOf(lines, i) \in i .. n
    BY <1>1, LastTyped DEF n
  <1>8. ASSUME S # {} \/ IsHeader(x) PROVE LastOf(more, i) = LastOf(lines, i)
    <2>1. S2 \subseteq Nat /\ S2 # {}
      BY <1>1, <1>4, <1>5, <1>8
    <2>2. Min(S2) \in S2 /\ \A j \in S2 : Min(S2) <= j
      BY <2>1, MinIs
    <2>3. CASE S = {}
      <3>1. S2 = {n + 1}
        BY <1>4, <1>8, <2>3
      <3>2. Min(S2) = n + 1
        BY <2>2, <3>1
      <3>3. Min(S2) - 1 = n
        BY <1>1, <3>2
      <3>4. QED
        BY <1>6, <2>1, <2>3, <3>3
    <2>4. CASE S # {}
      <3>1. Min(S) \in S /\ \A j \in S : Min(S) <= j
        BY <1>5, <2>4, MinIs
      <3>2. Min(S) \in Nat /\ Min(S2) \in Nat /\ Min(S2) <= Min(S) /\ Min(S) <= n
        BY <1>4, <1>5, <2>1, <2>2, <3>1
      <3>3. Min(S2) \in S
        <4>1. Min(S2) # n + 1
          BY <1>1, <3>2
        <4>2. QED
          BY <1>4, <2>2, <4>1
      <3>4. Min(S2) = Min(S)
        BY <3>1, <3>2, <3>3
      <3>5. QED
        BY <1>6, <2>1, <2>4, <3>4
    <2>5. QED
      BY <2>3, <2>4
  <1>9. ASSUME S # {} \/ IsHeader(x) PROVE FilterAt(more, i) = FilterAt(lines, i)
    <2>1. JobsIn(more, i, LastOf(more, i)) = JobsIn(lines, i, LastOf(lines, i))
      BY <1>2, <1>7, <1>8, <1>9
    <2>2. QED
      BY <1>1, <2>1, FilterAtIs
  <1>10. ASSUME S = {}, ~IsHeader(x)
         PROVE  /\ FilterAt(lines, i) = With(parse_filter_header(lines[i]), JobsIn(lines, i, n))
                /\ FilterAt(more, i) = With(parse_filter_header(lines[i]), JobsIn(lines, i, n) \o JobsOf(x))
    <2>1. S2 = {}
      BY <1>4, <1>10
    <2>2. LastOf(lines, i) = n /\ LastOf(more, i) = n + 1
      BY <1>6, <1>10, <2>1
    <2>3. QED
      BY <1>1, <1>2, <2>2, FilterAtIs
  <1>11. QED
    BY <1>9, <1>10 DEF S, more, n

\* The last header, if there is one.
LEMMA LastHeader ==
  ASSUME NEW lines, Len(lines) \in Nat, NEW k \in 1 .. Len(lines), IsHeader(lines[k])
  PROVE  \E h \in 1 .. Len(lines) : IsHeader(lines[h]) /\ NextOf(lines, h) = {}
  <1> DEFINE H == {i \in 1 .. Len(lines) : IsHeader(lines[i])}
  <1>1. H \subseteq 0 .. Len(lines) /\ H # {} /\ \A i \in H : i \in 1 .. Len(lines) /\ IsHeader(lines[i])
    OBVIOUS
  <1>2. \A j \in 1 .. Len(lines) : IsHeader(lines[j]) => j \in H
    OBVIOUS
  <1> HIDE DEF H
  <1>3. Max(H) \in H /\ \A i \in H : i <= Max(H)
    BY <1>1, MaxIs
  <1> DEFINE h == Max(H)
  <1>4. h \in 1 .. Len(lines) /\ IsHeader(lines[h])
    BY <1>1, <1>3
  <1>5. NextOf(lines, h) = {}
    <2>1. ASSUME NEW j \in h + 1 .. Len(lines), IsHeader(lines[j]) PROVE FALSE
      <3>1. j \in 1 .. Len(lines) /\ j > h
        BY <1>4
      <3>2. j <= h
        BY <1>2, <1>3, <2>1, <3>1
      <3>3. QED
        BY <1>4, <3>1, <3>2
    <2> HIDE DEF h
    <2>2. QED
      BY <2>1 DEF NextOf
  <1>6. QED
    BY <1>4, <1>5

\* A line more leaves the pieces in front of the last header as they were.
LEMMA PiecesAppend ==
  ASSUME NEW lines \in Seq(Seq(Chars)), NEW x \in Seq(Chars)
  PROVE  /\ Append(lines, x) \in Seq(Seq(Chars)) /\ Len(Append(lines, x)) = Len(lines) + 1
         /\ Append(lines, x)[Len(lines) + 1] = x
         /\ \A i \in 1 .. Len(lines) : Append(lines, x)[i] = lines[i]
  OBVIOUS

\* A header begins a filter.
LEMMA GroupedHeader ==
  ASSUME NEW lines \in Seq(Seq(Chars)), NEW x \in Seq(Chars), IsHeader(x)
  PROVE  Grouped(Append(lines, x)) = Append(Grouped(lines), parse_filter_header(x))
  <1> DEFINE n == Len(lines)
             more == Append(lines, x)
             header == parse_filter_header(x)
  <1>1. /\ n \in Nat /\ more \in Seq(Seq(Chars)) /\ Len(more) = n + 1 /\ more[n + 1] = x
        /\ \A i \in 1 .. n : more[i] = lines[i]
    BY PiecesAppend
  <1>2. \A i \in 1 .. n : Piece(more, i) = Piece(lines, i)
    <2>1. \A i \in 1 .. n : FilterAt(more, i) = FilterAt(lines, i)
      BY FilterAtAppend
    <2> HIDE DEF more
    <2>2. QED
      BY <1>1, <2>1 DEF Piece
  <1> HIDE DEF more, n
  <1>3. FilterAt(more, n + 1) = header
    <2>1. LastOf(more, n + 1) = n + 1
      <3>1. n + 1 \in 1 .. Len(more)
        BY <1>1
      <3>2. LastOf(more, n + 1) \in n + 1 .. n + 1
        BY <1>1, <3>1, LastTyped
      <3>3. QED
        BY <1>1, <3>2
    <2>2. JobsIn(more, n + 1, n + 1) = <<>>
      BY <1>1, NoJobs
    <2>3. PICK name \in Seq(Chars) : header = Filter(Types[x[1]], name)
      BY HeaderTyped
    <2>4. With(header, <<>>) = [type |-> Types[x[1]], name |-> name, jobs |-> <<>>, dynamic |-> \E j \in ToSet(<<>>) : j.dynamic]
      BY <2>3, WithIs
    <2>5. (\E j \in ToSet(<<>>) : j.dynamic) = FALSE
      BY DEF ToSet
    <2>6. With(header, <<>>) = header
      BY <2>3, <2>4, <2>5 DEF Filter
    <2> HIDE DEF header
    <2>7. QED
      BY <1>1, <2>1, <2>2, <2>6, FilterAtIs DEF header
  <1>4. header \in FilterType
    <2>1. n + 1 \in 1 .. Len(more)
      BY <1>1
    <2>2. QED
      BY <1>1, <1>3, <2>1, FilterAtTyped
  <1> HIDE DEF header
  <1>5. Pieces(lines) \in Seq(Seq(FilterType)) /\ Len(Pieces(lines)) = n
        /\ \A i \in 1 .. n : Pieces(lines)[i] = Piece(lines, i)
    BY PiecesTyped DEF n
  <1>6. Pieces(more) \in Seq(Seq(FilterType)) /\ Len(Pieces(more)) = n + 1
        /\ \A i \in 1 .. n + 1 : Pieces(more)[i] = Piece(more, i)
    BY <1>1, PiecesTyped
  <1>7. <<header>> \in Seq(FilterType)
    BY <1>4
  <1>8. Pieces(more)[n + 1] = <<header>>
    <2>1. n + 1 \in 1 .. n + 1
      BY <1>1
    <2>2. Piece(more, n + 1) = <<header>>
      BY <1>1, <1>3 DEF Piece
    <2>3. QED
      BY <1>6, <2>1, <2>2
  <1>9. \A i \in 1 .. n : Pieces(more)[i] = Pieces(lines)[i]
    <2>1. \A i \in 1 .. n : i \in 1 .. n + 1
      BY <1>1
    <2>2. QED
      BY <1>2, <1>5, <1>6, <2>1
  <1>10. Pieces(more) = Append(Pieces(lines), <<header>>)
    BY <1>5, <1>6, <1>7, <1>8, <1>9, AppendIs
  <1>11. FlattenSeq(Append(Pieces(lines), <<header>>)) = FlattenSeq(Pieces(lines)) \o <<header>>
         /\ FlattenSeq(Pieces(lines)) \in Seq(FilterType)
    BY <1>5, <1>7, FlattenAppend
  <1>12. Grouped(lines) \o <<header>> = Append(Grouped(lines), header)
    BY <1>4, <1>11 DEF Grouped
  <1>13. QED
    BY <1>10, <1>11, <1>12 DEF Grouped, more, header

\* Where there is no header, there is no filter.
LEMMA HeaderLess ==
  /\ ~IsHeader(<<>>)
  /\ JobsOf(<<>>) = <<>>
  <1>1. Len(<<>>) = 0
    OBVIOUS
  <1>2. QED
    BY <1>1 DEF IsHeader, JobsOf

\* Two fields of one element.
LEMMA TwoFields ==
  ASSUME NEW fs, NEW n \in DOMAIN fs, NEW a, NEW b
  PROVE  LET gs == [fs EXCEPT ![n].jobs = a, ![n].dynamic = b]
         IN /\ gs[n] = [[fs[n] EXCEPT !.jobs = a] EXCEPT !.dynamic = b]
            /\ DOMAIN gs = DOMAIN fs
            /\ \A k \in DOMAIN fs : k # n => gs[k] = fs[k]
  <1> DEFINE gs == [fs EXCEPT ![n].jobs = a, ![n].dynamic = b]
  <1>1. gs[n] = [[fs[n] EXCEPT !.jobs = a] EXCEPT !.dynamic = b]
    OBVIOUS
  <1>2. DOMAIN gs = DOMAIN fs
    OBVIOUS
  <1>3. \A k \in DOMAIN fs : k # n => gs[k] = fs[k]
    OBVIOUS
  <1> HIDE DEF gs
  <1>4. QED
    BY <1>1, <1>2, <1>3 DEF gs

\* What add_jobs makes of the last filter.
Adds(p, type, name, jobs, job) ==
  add_jobs(p \o <<With(Filter(type, name), jobs)>>, <<job>>)
    = p \o <<With(Filter(type, name), jobs \o <<job>>)>>

\* A job more, at the end of the last filter.
LEMMA AddJobs ==
  ASSUME NEW p \in Seq(FilterType), NEW type, NEW name, NEW jobs \in Seq(JobType), NEW job \in JobType,
         With(Filter(type, name), jobs) \in FilterType
  PROVE  Adds(p, type, name, jobs, job)
  <1> DEFINE F == With(Filter(type, name), jobs)
             G == With(Filter(type, name), jobs \o <<job>>)
             d == \E j \in ToSet(jobs) : j.dynamic
             e == \E j \in ToSet(jobs \o <<job>>) : j.dynamic
             fs == Append(p, F)
             n == Len(p) + 1
  <1>1. F = [type |-> type, name |-> name, jobs |-> jobs, dynamic |-> d]
    BY WithIs
  <1>2. G = [type |-> type, name |-> name, jobs |-> jobs \o <<job>>, dynamic |-> e]
    BY WithIs
  <1>3. (d \/ job.dynamic) = e
    <2>1. ToSet(jobs \o <<job>>) = ToSet(jobs) \union {job}
      BY ToSetAppend
    <2>2. QED
      BY <2>1
  <1> HIDE DEF F, G, d, e
  <1>4. F.jobs = jobs /\ F.dynamic = d
    BY <1>1
  <1>5. fs \in Seq(FilterType) /\ Len(fs) = n /\ fs[n] = F /\ n \in Nat /\ n >= 1 /\ DOMAIN fs = 1 .. n
        /\ (\A k \in 1 .. n - 1 : fs[k] = p[k]) /\ fs # <<>> /\ fs = p \o <<F>>
    BY DEF F
  <1> DEFINE R == add_jobs(fs, <<job>>)
  <1>6. R = [fs EXCEPT ![n].jobs = @ \o <<job>>, ![n].dynamic = @ \/ job.dynamic]
    <2>1. <<job>> # <<>> /\ <<job>>[1] = job
      OBVIOUS
    <2> HIDE DEF fs, n
    <2>2. R = [fs EXCEPT ![Len(fs)].jobs = @ \o <<job>>, ![Len(fs)].dynamic = @ \/ <<job>>[1].dynamic]
      BY <1>5, <2>1 DEF add_jobs
    <2>3. QED
      BY <1>5, <2>1, <2>2
  <1> DEFINE a == fs[n].jobs \o <<job>>
             b == fs[n].dynamic \/ job.dynamic
  <1>7. R = [fs EXCEPT ![n].jobs = a, ![n].dynamic = b]
    BY <1>6
  <1>q. a = jobs \o <<job>> /\ b = e
    BY <1>3, <1>4, <1>5
  <1> HIDE DEF fs, n, R, a, b
  <1>r. /\ R[n] = [[fs[n] EXCEPT !.jobs = a] EXCEPT !.dynamic = b] /\ DOMAIN R = 1 .. n
        /\ \A k \in 1 .. n : k # n => R[k] = fs[k]
    <2>1. n \in DOMAIN fs /\ DOMAIN fs = 1 .. n
      BY <1>5
    <2>2. QED
      BY <1>7, <2>1, TwoFields
  <1>8. R[n] = G
    <2> DEFINE some == [type : {type}, name : {name}, jobs : {a}, dynamic : {d}]
               only == [type : {type}, name : {name}, jobs : {a}, dynamic : {b}]
    <2>1. [F EXCEPT !.jobs = a] \in some
      BY <1>1
    <2>2. \A r \in some : [r EXCEPT !.dynamic = b] \in only
      OBVIOUS
    <2>3. \A r \in only : r = [type |-> type, name |-> name, jobs |-> a, dynamic |-> b]
      OBVIOUS
    <2> HIDE DEF some, only
    <2>4. R[n] = [type |-> type, name |-> name, jobs |-> a, dynamic |-> b]
      BY <1>5, <1>r, <2>1, <2>2, <2>3
    <2>5. QED
      BY <1>2, <1>q, <2>4
  <1>g. G \in FilterType
    <2>1. jobs \o <<job>> \in Seq(JobType)
      OBVIOUS
    <2>2. F \in FilterType
      BY DEF F
    <2>3. type \in {Types[x] : x \in DOMAIN Types} /\ name \in Seq(Chars)
      BY <1>1, <2>2 DEF FilterType
    <2>4. e \in BOOLEAN
      BY DEF e
    <2>5. QED
      BY <1>2, <2>1, <2>3, <2>4 DEF FilterType
  <1>9. \A k \in 1 .. n - 1 : R[k] = p[k]
    <2>1. \A k \in 1 .. n - 1 : k \in 1 .. n /\ k # n
      BY <1>5
    <2>2. QED
      BY <1>5, <1>r, <2>1
  <1>10. R \in Seq(FilterType) /\ Len(R) = n
    <2>1. R = [k \in 1 .. n |-> R[k]]
      BY <1>5, <1>7, <1>r
    <2>2. \A k \in 1 .. n : R[k] \in FilterType
      <3>1. \A k \in 1 .. n : fs[k] \in FilterType
        BY <1>5
      <3>2. QED
        BY <1>8, <1>g, <1>r, <3>1
    <2>3. QED
      BY <1>5, <2>1, <2>2, Listed
  <1>11. R = Append(p, G)
    <2>1. n = Len(p) + 1 /\ n - 1 = Len(p)
      BY <1>5 DEF n
    <2>2. QED
      BY <1>8, <1>9, <1>10, <1>g, <2>1, AppendIs
  <1>12. Append(p, G) = p \o <<G>>
    BY <1>g
  <1>13. QED
    BY <1>5, <1>11, <1>12 DEF R, F, G, Adds

\* A line that is no header adds its job to the last filter.
LEMMA GroupedLine ==
  ASSUME NEW lines \in Seq(Seq(Chars)), NEW x \in Seq(Chars), ~IsHeader(x)
  PROVE  Grouped(Append(lines, x)) = add_jobs(Grouped(lines), JobsOf(x))
  <1> DEFINE n == Len(lines)
             more == Append(lines, x)
             js == JobsOf(x)
             ss == Append(Pieces(lines), <<>>)
             tt == Pieces(more)
  <1>1. /\ n \in Nat /\ more \in Seq(Seq(Chars)) /\ Len(more) = n + 1 /\ more[n + 1] = x
        /\ \A i \in 1 .. n : more[i] = lines[i]
    BY PiecesAppend
  <1>2. Pieces(lines) \in Seq(Seq(FilterType)) /\ Len(Pieces(lines)) = n
        /\ \A i \in 1 .. n : Pieces(lines)[i] = Piece(lines, i)
    BY PiecesTyped
  <1>3. tt \in Seq(Seq(FilterType)) /\ Len(tt) = n + 1 /\ \A i \in 1 .. n + 1 : tt[i] = Piece(more, i)
    BY <1>1, PiecesTyped
  <1>e. /\ \A i \in 1 .. n : NextOf(lines, i) # {} => FilterAt(more, i) = FilterAt(lines, i)
        /\ \A i \in 1 .. n : NextOf(lines, i) = {}
             => /\ FilterAt(lines, i) = With(parse_filter_header(lines[i]), JobsIn(lines, i, n))
                /\ FilterAt(more, i) = With(parse_filter_header(lines[i]), JobsIn(lines, i, n) \o js)
    BY FilterAtAppend
  <1> HIDE DEF more, n
  <1>4. /\ ss \in Seq(Seq(FilterType)) /\ Len(ss) = n + 1 /\ ss[n + 1] = <<>>
        /\ \A i \in 1 .. n : ss[i] = Piece(lines, i)
        /\ FlattenSeq(ss) = Grouped(lines)
    <2>1. <<>> \in Seq(FilterType)
      OBVIOUS
    <2>2. FlattenSeq(ss) = FlattenSeq(Pieces(lines)) \o <<>> /\ FlattenSeq(Pieces(lines)) \in Seq(FilterType)
      BY <1>2, <2>1, FlattenAppend
    <2>3. FlattenSeq(ss) = Grouped(lines)
      BY <2>2, ConcatEmptySeq DEF Grouped
    <2>4. ss \in Seq(Seq(FilterType)) /\ Len(ss) = n + 1 /\ ss[n + 1] = <<>>
          /\ \A i \in 1 .. n : ss[i] = Pieces(lines)[i]
      BY <1>2, <2>1, AppendHas
    <2> HIDE DEF ss
    <2>5. QED
      BY <1>2, <2>3, <2>4
  <1>5. Grouped(more) = FlattenSeq(tt)
    BY DEF Grouped
  <1>6. tt[n + 1] = <<>>
    <2>1. n + 1 \in 1 .. n + 1
      BY <1>1
    <2>2. QED
      BY <1>1, <1>3, <2>1 DEF Piece
  <1> HIDE DEF ss, tt
  <1>s. \A i \in 1 .. n + 1 : i \in 1 .. n \/ i = n + 1
    BY <1>1
  <1>7. CASE \A i \in 1 .. n : ~IsHeader(lines[i])
    <2>1. \A i \in 1 .. n : ss[i] = <<>> /\ tt[i] = <<>>
      <3>1. \A i \in 1 .. n : i \in 1 .. n + 1
        BY <1>1
      <3>2. QED
        BY <1>1, <1>3, <1>4, <1>7, <3>1 DEF Piece
    <2>2. \A i \in 1 .. n + 1 : ss[i] = <<>> /\ tt[i] = <<>>
      BY <1>4, <1>6, <1>s, <2>1
    <2>3. FlattenSeq(ss) = <<>> /\ FlattenSeq(tt) = <<>>
      BY <1>3, <1>4, <2>2, FlattenNothing
    <2>4. QED
      BY <1>4, <1>5, <2>3 DEF add_jobs, more
  <1>8. CASE \E i \in 1 .. n : IsHeader(lines[i])
    <2>1. PICK h \in 1 .. n : IsHeader(lines[h]) /\ NextOf(lines, h) = {}
      BY <1>1, <1>8, LastHeader DEF n
    <2> DEFINE header == parse_filter_header(lines[h])
               jobs == JobsIn(lines, h, n)
               F == With(header, jobs)
               G == With(header, jobs \o js)
    <2>2. F = FilterAt(lines, h) /\ G = FilterAt(more, h)
      BY <1>e, <2>1
    <2>3. ss[h] = <<F>> /\ tt[h] = <<G>>
      <3>1. h \in 1 .. n + 1
        BY <1>1
      <3>2. Piece(lines, h) = <<FilterAt(lines, h)>> /\ Piece(more, h) = <<FilterAt(more, h)>>
        BY <1>1, <2>1 DEF Piece
      <3> HIDE DEF F, G
      <3>3. QED
        BY <1>3, <1>4, <2>2, <3>1, <3>2
    <2>4. \A i \in 1 .. h - 1 : ss[i] = tt[i]
      <3> SUFFICES ASSUME NEW i \in 1 .. h - 1 PROVE ss[i] = tt[i]
        OBVIOUS
      <3>1. i \in 1 .. n /\ i \in 1 .. n + 1 /\ h \in i + 1 .. n
        BY <1>1
      <3>2. NextOf(lines, i) # {}
        BY <2>1, <3>1 DEF NextOf, n
      <3>3. Piece(more, i) = Piece(lines, i)
        BY <1>1, <1>e, <3>1, <3>2 DEF Piece
      <3>4. QED
        BY <1>3, <1>4, <3>1, <3>3
    <2>5. \A i \in h + 1 .. n + 1 : ss[i] = <<>> /\ tt[i] = <<>>
      <3> SUFFICES ASSUME NEW i \in h + 1 .. n + 1 PROVE ss[i] = <<>> /\ tt[i] = <<>>
        OBVIOUS
      <3>1. CASE i = n + 1
        BY <1>4, <1>6, <3>1
      <3>2. CASE i # n + 1
        <4>1. i \in h + 1 .. n /\ i \in 1 .. n /\ i \in 1 .. n + 1
          BY <1>1, <3>2
        <4>2. ~IsHeader(lines[i])
          BY <2>1, <4>1 DEF NextOf, n
        <4>3. Piece(lines, i) = <<>> /\ Piece(more, i) = <<>>
          BY <1>1, <4>1, <4>2 DEF Piece
        <4>4. QED
          BY <1>3, <1>4, <4>1, <4>3
      <3>3. QED
        BY <3>1, <3>2
    <2>6. PICK p \in Seq(FilterType) : FlattenSeq(ss) = p \o ss[h] /\ FlattenSeq(tt) = p \o tt[h]
      <3>1. h \in 1 .. Len(ss) /\ Len(ss) = Len(tt)
        BY <1>1, <1>3, <1>4
      <3>2. \A i \in h + 1 .. Len(ss) : ss[i] = <<>> /\ tt[i] = <<>>
        BY <1>4, <2>5
      <3>3. ss \in Seq(Seq(FilterType)) /\ tt \in Seq(Seq(FilterType))
        BY <1>3, <1>4
      <3>4. QED
        BY <2>4, <3>1, <3>2, <3>3, FlattenTail, ZenonT(40)
    <2>7. lines[h] \in Seq(Chars) /\ h \in 1 .. Len(lines) /\ n \in h .. Len(lines)
      BY <1>1 DEF n
    <2>8. PICK name \in Seq(Chars) : header = Filter(Types[lines[h][1]], name)
      BY <2>1, <2>7, HeaderTyped
    <2>9. jobs \in Seq(JobType)
      BY <2>7, JobsInTyped
    <2>10. F \in FilterType
      BY <2>1, <2>2, <2>7, FilterAtTyped
    <2> HIDE DEF F, G, header, jobs
    <2>11. Grouped(lines) = p \o <<F>> /\ Grouped(more) = p \o <<G>>
      BY <1>4, <1>5, <2>3, <2>6
    <2>12. CASE js = <<>>
      <3>1. jobs \o js = jobs
        BY <2>9, <2>12, ConcatEmptySeq
      <3>2. G = F
        BY <3>1 DEF F, G
      <3>3. add_jobs(Grouped(lines), js) = Grouped(lines)
        BY <2>12 DEF add_jobs
      <3>4. QED
        BY <2>11, <3>2, <3>3 DEF more
    <2>13. CASE js # <<>>
      <3>1. PICK job \in JobType : js = <<job>>
        BY <2>13, JobIs
      <3> DEFINE type == Types[lines[h][1]]
      <3>2. add_jobs(p \o <<F>>, js) = p \o <<G>>
        <4>1. F = With(Filter(type, name), jobs) /\ G = With(Filter(type, name), jobs \o <<job>>)
          BY <2>8, <3>1 DEF F, G
        <4>a. With(Filter(type, name), jobs) \in FilterType
          BY <2>10, <4>1
        <4>b. job \in JobType /\ p \in Seq(FilterType)
          BY <2>6, <3>1
        <4> HIDE DEF type
        <4>2. Adds(p, type, name, jobs, job)
          BY <2>9, <4>a, <4>b, AddJobs
        <4>3. QED
          BY <3>1, <4>1, <4>2 DEF Adds
      <3>3. QED
        BY <2>11, <3>2 DEF more
    <2>14. QED
      BY <2>12, <2>13
  <1>9. QED
    BY <1>7, <1>8

\* The filters of a file line by line.
LEMMA GroupedIs ==
  ASSUME NEW lines \in Seq(Seq(Chars)), NEW x \in Seq(Chars)
  PROVE  Grouped(Append(lines, x))
           = IF x = <<>> THEN Grouped(lines) ELSE parse_filter_line(Grouped(lines), x)
  <1>1. CASE IsHeader(x)
    BY <1>1, GroupedHeader, HeaderLess DEF parse_filter_line
  <1>2. CASE ~IsHeader(x) /\ x # <<>>
    BY <1>2, GroupedLine, JobIs DEF parse_filter_line
  <1>3. CASE x = <<>>
    <2>1. Grouped(Append(lines, x)) = add_jobs(Grouped(lines), <<>>)
      BY <1>3, GroupedLine, HeaderLess
    <2>2. QED
      BY <1>3, <2>1 DEF add_jobs
  <1>4. QED
    BY <1>1, <1>2, <1>3

-----------------------------------------------------------------------------
\* Lines and those they continue on.
Kept(line) == IF Continues(line) THEN Cut(line) ELSE line
From(file, i) == Max({0} \union {j \in 1 .. i - 1 : ~Continues(file[j])}) + 1
Waiting(file) ==
  IF file = <<>> \/ ~Continues(file[Len(file)]) THEN <<>> ELSE LineAt(file, Len(file))

\* LineAt, with names for its parts.
LEMMA LineAtIs ==
  ASSUME NEW file, NEW i
  PROVE  LineAt(file, i) = FlattenSeq([k \in 1 .. i - From(file, i) + 1 |-> Kept(file[From(file, i) + k - 1])])
  BY DEF LineAt, From, Kept

\* What is kept of a line is a text.
LEMMA KeptTyped ==
  ASSUME NEW line \in Seq(Chars)
  PROVE  Kept(line) \in Seq(Chars) /\ (Continues(line) => Kept(line) = Cut(line))
  <1> DEFINE B == Backslashes(line)
  <1>1. CASE ~Continues(line)
    BY <1>1 DEF Kept
  <1>2. CASE Continues(line)
    <2>1. B # {} /\ B \subseteq 0 .. Len(line) /\ Len(line) \in Nat
      BY <1>2 DEF Continues, Backslashes
    <2>2. \A i \in B : i \in 1 .. Len(line)
      BY DEF Backslashes
    <2> HIDE DEF B
    <2>3. Max(B) \in B
      BY <2>1, MaxIs
    <2>4. 1 \in Nat \ {0} /\ Max(B) - 1 \in Int /\ Max(B) - 1 <= Len(line)
      <3>1. Max(B) \in 1 .. Len(line)
        BY <2>2, <2>3
      <3>2. \A m \in 1 .. Len(line) : m - 1 \in Int /\ m - 1 <= Len(line)
        BY <2>1
      <3>3. QED
        BY <3>1, <3>2
    <2>5. SubSeq(line, 1, Max(B) - 1) \in Seq(Chars)
      BY <2>4, PartIs
    <2>6. QED
      BY <1>2, <2>5 DEF Kept, Cut, B
  <1>3. QED
    BY <1>1, <1>2

\* Where a line begins: with itself, or where the one in front of it began.
LEMMA FromIs ==
  ASSUME NEW file, NEW i \in Nat \ {0}
  PROVE  /\ From(file, i) \in 1 .. i
         /\ From(file, i + 1) = IF Continues(file[i]) THEN From(file, i) ELSE i + 1
  <1> DEFINE S(m) == {0} \union {j \in 1 .. m - 1 : ~Continues(file[j])}
  <1>1. ASSUME NEW m \in Nat \ {0}
        PROVE  Max(S(m)) \in S(m) /\ (\A j \in S(m) : j <= Max(S(m))) /\ Max(S(m)) \in 0 .. m - 1
    <2>1. S(m) \subseteq 0 .. m - 1 /\ S(m) # {} /\ m - 1 \in Nat
      OBVIOUS
    <2> HIDE DEF S
    <2>2. Max(S(m)) \in S(m) /\ \A j \in S(m) : j <= Max(S(m))
      BY <2>1, MaxIs
    <2>3. QED
      BY <2>1, <2>2
  <1>2. From(file, i) \in 1 .. i
    <2>1. Max(S(i)) \in 0 .. i - 1
      BY <1>1
    <2> HIDE DEF S
    <2>2. From(file, i) = Max(S(i)) + 1
      BY DEF From, S
    <2>3. QED
      BY <2>1, <2>2
  <1>3. CASE Continues(file[i])
    <2>1. {j \in 1 .. (i + 1) - 1 : ~Continues(file[j])} = {j \in 1 .. i - 1 : ~Continues(file[j])}
      <3>1. \A j \in 1 .. (i + 1) - 1 : j \in 1 .. i - 1 \/ j = i
        OBVIOUS
      <3>2. \A j \in 1 .. i - 1 : j \in 1 .. (i + 1) - 1
        OBVIOUS
      <3>3. QED
        BY <1>3, <3>1, <3>2
    <2>2. QED
      BY <1>2, <1>3, <2>1 DEF From
  <1>4. CASE ~Continues(file[i])
    <2>1. i \in S(i + 1)
      BY <1>4
    <2>2. i + 1 \in Nat \ {0} /\ (i + 1) - 1 = i
      OBVIOUS
    <2>3. From(file, i + 1) = Max(S(i + 1)) + 1
      BY DEF From
    <2>4. i <= Max(S(i + 1)) /\ Max(S(i + 1)) \in 0 .. i
      BY <1>1, <2>1, <2>2
    <2> HIDE DEF S
    <2>5. \A m \in 0 .. i : i <= m => m + 1 = i + 1
      OBVIOUS
    <2>6. From(file, i + 1) = i + 1
      BY <2>3, <2>4, <2>5
    <2>7. QED
      BY <1>2, <1>4, <2>6
  <1>5. From(file, i + 1) = IF Continues(file[i]) THEN From(file, i) ELSE i + 1
    BY <1>3, <1>4
  <1>6. QED
    BY <1>2, <1>5

\* This depends on the lines in front of it only.
LEMMA FromSame ==
  ASSUME NEW file, NEW more, NEW i \in Nat \ {0}, \A j \in 1 .. i - 1 : file[j] = more[j]
  PROVE  From(file, i) = From(more, i)
  <1>1. {j \in 1 .. i - 1 : ~Continues(file[j])} = {j \in 1 .. i - 1 : ~Continues(more[j])}
    OBVIOUS
  <1>2. QED
    BY <1>1 DEF From

\* A line and those it continues are a text.
LEMMA LineAtTyped ==
  ASSUME NEW file \in Seq(Seq(Chars)), NEW i \in 1 .. Len(file)
  PROVE  LET ss == [k \in 1 .. i - From(file, i) + 1 |-> Kept(file[From(file, i) + k - 1])]
         IN /\ ss \in Seq(Seq(Chars)) /\ Len(ss) = i - From(file, i) + 1
            /\ LineAt(file, i) = FlattenSeq(ss) /\ LineAt(file, i) \in Seq(Chars)
  <1> DEFINE a == From(file, i)
             n == i - a + 1
             ss == [k \in 1 .. n |-> Kept(file[a + k - 1])]
  <1>1. a \in 1 .. i /\ i \in Nat /\ i \in 1 .. Len(file) /\ Len(file) \in Nat
    <2>1. i \in Nat \ {0}
      OBVIOUS
    <2>2. QED
      BY <2>1, FromIs
  <1>2. LineAt(file, i) = FlattenSeq(ss)
    BY LineAtIs
  <1> HIDE DEF a
  <1>3. n \in Nat /\ \A k \in 1 .. n : a + k - 1 \in 1 .. Len(file)
    BY <1>1
  <1>4. \A k \in 1 .. n : file[a + k - 1] \in Seq(Chars)
    <2>1. \A j \in 1 .. Len(file) : file[j] \in Seq(Chars)
      OBVIOUS
    <2> HIDE DEF n
    <2>2. QED
      BY <1>3, <2>1
  <1>5. \A k \in 1 .. n : ss[k] \in Seq(Chars)
    BY <1>4, KeptTyped
  <1>6. ss = [k \in 1 .. n |-> ss[k]]
    OBVIOUS
  <1> HIDE DEF ss, n
  <1>7. ss \in Seq(Seq(Chars)) /\ Len(ss) = n
    BY <1>3, <1>5, <1>6, Listed
  <1>8. FlattenSeq(ss) \in Seq(Chars)
    BY <1>7, FlattenAppend
  <1>9. QED
    BY <1>2, <1>7, <1>8 DEF ss, n, a

\* A line more changes nothing in front of it.
LEMMA LineAtSame ==
  ASSUME NEW file \in Seq(Seq(Chars)), NEW line \in Seq(Chars), NEW i \in 1 .. Len(file)
  PROVE  LineAt(Append(file, line), i) = LineAt(file, i)
  <1> DEFINE more == Append(file, line)
  <1>1. \A j \in 1 .. Len(file) : more[j] = file[j]
    BY AppendHas
  <1>2. i \in Nat \ {0} /\ Len(file) \in Nat
    OBVIOUS
  <1> HIDE DEF more
  <1>3. \A j \in 1 .. i - 1 : file[j] = more[j]
    <2>1. \A j \in 1 .. i - 1 : j \in 1 .. Len(file)
      BY <1>2
    <2>2. QED
      BY <1>1, <2>1
  <1>4. From(more, i) = From(file, i) /\ From(file, i) \in 1 .. i
    BY <1>2, <1>3, FromSame, FromIs
  <1> DEFINE a == From(file, i)
  <1>5. \A k \in 1 .. i - a + 1 : Kept(more[a + k - 1]) = Kept(file[a + k - 1])
    <2> HIDE DEF a
    <2>1. \A k \in 1 .. i - a + 1 : a + k - 1 \in 1 .. Len(file)
      BY <1>2, <1>4 DEF a
    <2>2. QED
      BY <1>1, <2>1
  <1>6. QED
    BY <1>4, <1>5, LineAtIs DEF more

\* A line more, with what waits for it.
LEMMA LineAtNext ==
  ASSUME NEW file \in Seq(Seq(Chars)), NEW line \in Seq(Chars)
  PROVE  LineAt(Append(file, line), Len(file) + 1) = Waiting(file) \o Kept(line)
  <1> DEFINE more == Append(file, line)
             n == Len(file)
             a == From(more, n + 1)
             tt == [k \in 1 .. (n + 1) - a + 1 |-> Kept(more[a + k - 1])]
  <1>1. /\ n \in Nat /\ more \in Seq(Seq(Chars)) /\ Len(more) = n + 1 /\ more[n + 1] = line
        /\ \A j \in 1 .. n : more[j] = file[j]
    BY AppendHas
  <1> HIDE DEF more, n
  <1>2. n + 1 \in 1 .. Len(more) /\ n + 1 \in Nat \ {0}
    BY <1>1
  <1>3. tt \in Seq(Seq(Chars)) /\ Len(tt) = (n + 1) - a + 1 /\ LineAt(more, n + 1) = FlattenSeq(tt)
    BY <1>1, <1>2, LineAtTyped
  <1>4. Kept(line) \in Seq(Chars)
    BY KeptTyped
  <1>5. CASE n = 0 \/ ~Continues(file[n])
    <2>1. a = n + 1
      <3>1. CASE n = 0
        <4>1. a \in 1 .. 1
          BY <1>2, <3>1, FromIs
        <4>2. QED
          BY <3>1, <4>1
      <3>2. CASE n # 0
        <4>1. n \in Nat \ {0} /\ n \in 1 .. n
          BY <1>1, <3>2
        <4>2. ~Continues(more[n])
          BY <1>1, <1>5, <3>2, <4>1
        <4>3. QED
          BY <4>1, <4>2, FromIs
      <3>3. QED
        BY <3>1, <3>2
    <2>2. tt = <<Kept(line)>>
      <3>1. (n + 1) - a + 1 = 1 /\ a + 1 - 1 = n + 1
        BY <1>1, <2>1
      <3>2. Len(tt) = 1 /\ tt[1] = Kept(line)
        BY <1>1, <1>3, <3>1
      <3> HIDE DEF tt
      <3>3. tt \in Seq(Seq(Chars)) /\ <<Kept(line)>> \in Seq(Seq(Chars))
        BY <1>3, <1>4
      <3>4. Len(<<Kept(line)>>) = 1 /\ <<Kept(line)>>[1] = Kept(line)
        OBVIOUS
      <3> DEFINE one == <<Kept(line)>>
      <3> HIDE DEF one
      <3>5. \A j \in 1 .. 1 : j = 1
        OBVIOUS
      <3>6. tt = one
        BY <3>2, <3>3, <3>4, <3>5, SeqEqual DEF one
      <3>7. QED
        BY <3>6 DEF one
    <2>3. FlattenSeq(tt) = Kept(line)
      <3>1. <<>> \in Seq(Seq(Chars)) /\ tt = Append(<<>>, Kept(line))
        BY <2>2
      <3>2. FlattenSeq(Append(<<>>, Kept(line))) = FlattenSeq(<<>>) \o Kept(line)
        BY <1>4, <3>1, FlattenAppend
      <3>3. <<>> \o Kept(line) = Kept(line)
        BY <1>4, ConcatEmptySeq
      <3> HIDE DEF tt
      <3>4. QED
        BY <3>1, <3>2, <3>3, FlattenEmpty
    <2>4. Waiting(file) = <<>>
      <3>1. n = 0 => file = <<>>
        BY EmptySeq DEF n
      <3>2. QED
        BY <1>5, <3>1 DEF Waiting, n
    <2>5. <<>> \o Kept(line) = Kept(line)
      BY <1>4, ConcatEmptySeq
    <2> HIDE DEF tt
    <2>6. QED
      BY <1>3, <2>3, <2>4, <2>5 DEF more, n
  <1>6. CASE n # 0 /\ Continues(file[n])
    <2> DEFINE ss == [k \in 1 .. n - From(file, n) + 1 |-> Kept(file[From(file, n) + k - 1])]
    <2>1. n \in Nat \ {0} /\ n \in 1 .. n /\ more[n] = file[n] /\ n \in 1 .. Len(file)
      BY <1>1, <1>6 DEF n
    <2>2. a = From(file, n) /\ a \in 1 .. n
      <3>1. a = From(more, n)
        BY <1>6, <2>1, FromIs
      <3>2. \A j \in 1 .. n - 1 : file[j] = more[j]
        BY <1>1
      <3>3. QED
        BY <2>1, <3>1, <3>2, FromSame, FromIs
    <2>3. ss \in Seq(Seq(Chars)) /\ Len(ss) = n - a + 1 /\ LineAt(file, n) = FlattenSeq(ss)
      BY <2>1, <2>2, LineAtTyped
    <2>4. \A k \in 1 .. n - a + 1 : ss[k] = Kept(file[a + k - 1]) /\ a + k - 1 \in 1 .. n
      BY <1>1, <2>2
    <2>5. \A k \in 1 .. (n + 1) - a + 1 : tt[k] = Kept(more[a + k - 1])
      OBVIOUS
    <2> HIDE DEF tt, ss, a
    <2>6. Len(ss) + 1 = (n + 1) - a + 1 /\ a + (Len(ss) + 1) - 1 = n + 1 /\ Len(ss) + 1 \in 1 .. (n + 1) - a + 1
      <3>1. Len(ss) = n - a + 1
        BY <2>3
      <3>2. a \in 1 .. n /\ n \in Nat
        BY <1>1, <2>2
      <3>3. (n - a + 1) + 1 = (n + 1) - a + 1 /\ a + ((n - a + 1) + 1) - 1 = n + 1
        BY <3>2
      <3>4. (n - a + 1) + 1 \in 1 .. (n + 1) - a + 1
        BY <3>2
      <3>5. QED
        BY <3>1, <3>3, <3>4
    <2>7. tt[Len(ss) + 1] = Kept(line)
      BY <1>1, <2>5, <2>6
    <2>8. \A k \in 1 .. Len(ss) : tt[k] = ss[k]
      <3> SUFFICES ASSUME NEW k \in 1 .. Len(ss) PROVE tt[k] = ss[k]
        OBVIOUS
      <3>1. k \in 1 .. n - a + 1 /\ k \in 1 .. (n + 1) - a + 1
        BY <1>1, <2>2, <2>3
      <3>2. tt[k] = Kept(more[a + k - 1]) /\ ss[k] = Kept(file[a + k - 1]) /\ more[a + k - 1] = file[a + k - 1]
        BY <1>1, <2>4, <2>5, <3>1
      <3>3. QED
        BY <3>2
    <2>9. tt = Append(ss, Kept(line))
      BY <1>3, <1>4, <2>3, <2>6, <2>7, <2>8, AppendIs
    <2>10. FlattenSeq(Append(ss, Kept(line))) = FlattenSeq(ss) \o Kept(line)
      BY <1>4, <2>3, FlattenAppend
    <2>11. Waiting(file) = LineAt(file, n)
      <3>1. file # <<>>
        BY <1>6 DEF n
      <3>2. QED
        BY <1>6, <3>1 DEF Waiting, n
    <2>12. QED
      BY <1>3, <2>3, <2>9, <2>10, <2>11 DEF more, n
  <1>7. QED
    BY <1>1, <1>5, <1>6

-----------------------------------------------------------------------------
\* What the lines of a file say.
Closes(file, i) == IF Continues(file[i]) THEN <<>> ELSE <<Said(LineAt(file, i))>>
Closed(file) == FlattenSeq([i \in DOMAIN file |-> Closes(file, i)])

\* A line that is empty says nothing.
LEMMA EmptyLine == process_line(<<>>) = <<>> /\ Said(<<>>) = <<>>
  <1>1. Bare(<<>>, "#") = {}
    BY DEF Bare
  <1>2. Rewritten(<<>>, <<"\\", "#">>, <<"#">>) = <<>>
    <2> DEFINE at == Occurrences(<<>>, <<"\\", "#">>)
               ss == [i \in DOMAIN <<>> |->
                        IF i \in at THEN <<"#">>
                        ELSE IF \E j \in at : j < i /\ i < j + Len(<<"\\", "#">>) THEN <<>>
                        ELSE << <<>>[i] >>]
    <2>1. ss = <<>>
      OBVIOUS
    <2>2. Rewritten(<<>>, <<"\\", "#">>, <<"#">>) = FlattenSeq(ss)
      BY DEF Rewritten
    <2> HIDE DEF ss
    <2>3. QED
      BY <2>1, <2>2, FlattenEmpty
  <1>3. trim(<<>>) = <<>>
    <2>1. {i \in DOMAIN <<>> : <<>>[i] # Blank} = {}
      OBVIOUS
    <2>2. QED
      BY <2>1 DEF trim
  <1>4. Said(<<>>) = <<>>
    BY <1>1, <1>2, <1>3 DEF Said
  <1>5. <<>> \in Seq(Chars)
    OBVIOUS
  <1>6. QED
    BY <1>4, <1>5, ProcessLineIs

\* What the lines of a file say are texts.
LEMMA ClosesTyped ==
  ASSUME NEW file \in Seq(Seq(Chars))
  PROVE  LET ss == [i \in DOMAIN file |-> Closes(file, i)]
         IN /\ ss \in Seq(Seq(Seq(Chars))) /\ Len(ss) = Len(file)
            /\ \A i \in 1 .. Len(file) : /\ ss[i] = Closes(file, i) /\ Closes(file, i) \in Seq(Seq(Chars))
                                         /\ Said(LineAt(file, i)) \in Seq(Chars)
            /\ Closed(file) = FlattenSeq(ss) /\ Closed(file) \in Seq(Seq(Chars))
  <1> DEFINE ss == [i \in DOMAIN file |-> Closes(file, i)]
  <1>1. Len(file) \in Nat /\ DOMAIN file = 1 .. Len(file)
    OBVIOUS
  <1>2. ASSUME NEW i \in 1 .. Len(file)
        PROVE  Said(LineAt(file, i)) \in Seq(Chars) /\ Closes(file, i) \in Seq(Seq(Chars))
    <2>1. LineAt(file, i) \in Seq(Chars)
      BY LineAtTyped
    <2>2. Said(LineAt(file, i)) \in Seq(Chars)
      BY <2>1, ProcessLineIs
    <2>3. \A t \in Seq(Chars) : <<t>> \in Seq(Seq(Chars)) /\ <<>> \in Seq(Seq(Chars))
      OBVIOUS
    <2>4. QED
      BY <2>2, <2>3 DEF Closes
  <1>3. ss = [i \in 1 .. Len(file) |-> ss[i]] /\ \A i \in 1 .. Len(file) : ss[i] = Closes(file, i)
    BY <1>1
  <1>4. Closed(file) = FlattenSeq(ss)
    BY DEF Closed
  <1> HIDE DEF ss
  <1>5. ss \in Seq(Seq(Seq(Chars))) /\ Len(ss) = Len(file)
    <2>1. \A i \in 1 .. Len(file) : ss[i] \in Seq(Seq(Chars))
      BY <1>2, <1>3
    <2>2. QED
      BY <1>1, <1>3, <2>1, Listed
  <1>6. FlattenSeq(ss) \in Seq(Seq(Chars))
    BY <1>5, FlattenAppend
  <1>7. QED
    BY <1>2, <1>3, <1>4, <1>5, <1>6 DEF ss

\* The lines in front of the last say the same without it.
ClosesThen(tt, file, line, x) ==
  /\ tt = [i \in 1 .. Len(file) + 1 |-> tt[i]]
  /\ \A i \in 1 .. Len(file) : tt[i] = Closes(Append(file, line), i)
  /\ tt[Len(file) + 1] = x

\* The end of what a longer file says.
LEMMA ClosedTail ==
  ASSUME NEW file \in Seq(Seq(Chars)), NEW line \in Seq(Chars), NEW x \in Seq(Seq(Chars)), NEW tt,
         ClosesThen(tt, file, line, x)
  PROVE  FlattenSeq(tt) = Closed(file) \o x
  <1> DEFINE ss == [i \in DOMAIN file |-> Closes(file, i)]
             more == Append(file, line)
  <1>1. /\ ss \in Seq(Seq(Seq(Chars))) /\ Len(ss) = Len(file) /\ Closed(file) = FlattenSeq(ss)
        /\ \A i \in 1 .. Len(file) : ss[i] = Closes(file, i)
    BY ClosesTyped
  <1> HIDE DEF ss
  <1>2. \A i \in 1 .. Len(file) : Closes(more, i) = Closes(file, i)
    <2>1. \A i \in 1 .. Len(file) : more[i] = file[i]
      BY AppendHas
    <2>2. \A i \in 1 .. Len(file) : LineAt(more, i) = LineAt(file, i)
      BY LineAtSame
    <2> HIDE DEF more
    <2>3. QED
      BY <2>1, <2>2 DEF Closes
  <1>a. /\ tt = [i \in 1 .. Len(file) + 1 |-> tt[i]]
        /\ \A i \in 1 .. Len(file) : tt[i] = Closes(more, i)
        /\ tt[Len(file) + 1] = x
    BY DEF ClosesThen, more
  <1>3. \A k \in 1 .. Len(ss) : tt[k] = ss[k]
    BY <1>1, <1>2, <1>a
  <1>4. Len(file) + 1 \in Nat /\ \A i \in 1 .. Len(file) + 1 : i \in 1 .. Len(file) \/ i = Len(file) + 1
    OBVIOUS
  <1>5. \A i \in 1 .. Len(file) : ss[i] \in Seq(Seq(Chars))
    BY <1>1, ClosesTyped
  <1>6. \A i \in 1 .. Len(file) + 1 : tt[i] \in Seq(Seq(Chars))
    BY <1>1, <1>3, <1>4, <1>5, <1>a
  <1>7. tt \in Seq(Seq(Seq(Chars))) /\ Len(tt) = Len(ss) + 1 /\ tt[Len(ss) + 1] = x
    BY <1>1, <1>4, <1>6, <1>a, Listed
  <1>8. tt = Append(ss, x)
    BY <1>1, <1>3, <1>7, AppendIs
  <1>9. QED
    BY <1>1, <1>8, FlattenAppend

\* A line more: what waits for the next.
LEMMA WaitingAppend ==
  ASSUME NEW file \in Seq(Seq(Chars)), NEW line \in Seq(Chars)
  PROVE  /\ Waiting(file) \in Seq(Chars)
         /\ Waiting(Append(file, line))
              = IF Continues(line) THEN Waiting(file) \o Cut(line) ELSE <<>>
  <1>1. Waiting(file) \in Seq(Chars)
    <2>1. CASE file = <<>> \/ ~Continues(file[Len(file)])
      BY <2>1 DEF Waiting
    <2>2. CASE file # <<>> /\ Continues(file[Len(file)])
      <3>1. Len(file) \in 1 .. Len(file)
        BY <2>2, EmptySeq
      <3>2. LineAt(file, Len(file)) \in Seq(Chars)
        BY <3>1, LineAtTyped
      <3>3. QED
        BY <2>2, <3>2 DEF Waiting
    <2>3. QED
      BY <2>1, <2>2
  <1> DEFINE more == Append(file, line)
  <1>2. more # <<>> /\ Len(more) = Len(file) + 1 /\ more[Len(file) + 1] = line
    <2>1. more \in Seq(Seq(Chars)) /\ Len(more) = Len(file) + 1 /\ Len(file) \in Nat /\ more[Len(file) + 1] = line
      BY AppendHas
    <2>2. Len(<<>>) = 0
      OBVIOUS
    <2> HIDE DEF more
    <2>3. QED
      BY <2>1, <2>2
  <1>3. LineAt(more, Len(file) + 1) = Waiting(file) \o Kept(line)
    BY LineAtNext
  <1>4. Continues(line) => Kept(line) = Cut(line)
    BY DEF Kept
  <1> HIDE DEF more
  <1>5. Waiting(more) = IF Continues(line) THEN Waiting(file) \o Cut(line) ELSE <<>>
    BY <1>2, <1>3, <1>4 DEF Waiting
  <1>6. QED
    BY <1>1, <1>5 DEF more

\* A line more: what it says, with what waited for it.
LEMMA ClosedAppend ==
  ASSUME NEW file \in Seq(Seq(Chars)), NEW line \in Seq(Chars)
  PROVE  Closed(Append(file, line))
           = IF Continues(line) THEN Closed(file)
             ELSE Append(Closed(file), Said(Waiting(file) \o line))
  <1> DEFINE more == Append(file, line)
             n == Len(file)
             tt == [i \in DOMAIN more |-> Closes(more, i)]
             x == Closes(more, n + 1)
  <1>1. n \in Nat /\ more \in Seq(Seq(Chars)) /\ Len(more) = n + 1 /\ DOMAIN more = 1 .. n + 1 /\ more[n + 1] = line
    BY AppendHas
  <1>2. \A i \in 1 .. n + 1 : tt[i] = Closes(more, i)
    BY <1>1
  <1>3. tt = [i \in 1 .. n + 1 |-> tt[i]]
    BY <1>1
  <1>4. Closed(more) = FlattenSeq(tt)
    BY DEF Closed
  <1>5. LineAt(more, n + 1) = Waiting(file) \o Kept(line)
    BY LineAtNext
  <1>6. x = IF Continues(line) THEN <<>> ELSE <<Said(Waiting(file) \o line)>>
    <2>1. ~Continues(line) => Kept(line) = line
      BY DEF Kept
    <2> HIDE DEF more, n
    <2>2. QED
      BY <1>1, <1>5, <2>1 DEF Closes
  <1>7. x \in Seq(Seq(Chars))
    <2>1. n + 1 \in 1 .. Len(more)
      BY <1>1
    <2> HIDE DEF more
    <2>2. QED
      BY <1>1, <2>1, ClosesTyped
  <1>8. \A i \in 1 .. n : tt[i] = Closes(more, i)
    BY <1>1, <1>2
  <1>9. tt[n + 1] = x
    BY <1>1, <1>2
  <1> HIDE DEF tt, x
  <1>10. FlattenSeq(tt) = Closed(file) \o x
    <2>1. ClosesThen(tt, file, line, x)
      BY <1>3, <1>8, <1>9 DEF ClosesThen, more, n
    <2>2. QED
      BY <1>7, <2>1, ClosedTail
  <1>11. Closed(file) \in Seq(Seq(Chars))
    BY ClosesTyped
  <1>12. CASE Continues(line)
    BY <1>4, <1>6, <1>10, <1>11, <1>12, ConcatEmptySeq
  <1>13. CASE ~Continues(line)
    <2> DEFINE t == Said(Waiting(file) \o line)
    <2>1. x = <<t>>
      BY <1>6, <1>13
    <2>2. t \in Seq(Chars)
      <3>1. Waiting(file) \o line \in Seq(Chars)
        BY WaitingAppend
      <3>2. QED
        BY <3>1, ProcessLineIs
    <2> HIDE DEF t
    <2>3. Closed(file) \o <<t>> = Append(Closed(file), t)
      BY <1>11, <2>2
    <2>4. QED
      BY <1>4, <1>10, <1>13, <2>1, <2>3 DEF t
  <1>14. QED
    BY <1>12, <1>13

\* At the end of a file, what waits is a line as well.
LEMMA ContentsIs ==
  ASSUME NEW file \in Seq(Seq(Chars))
  PROVE  /\ Contents(<<>>) = <<>> /\ Closed(<<>>) = <<>> /\ Waiting(<<>>) = <<>>
         /\ Contents(file) = IF file # <<>> /\ Continues(file[Len(file)])
                             THEN Append(Closed(file), Said(Waiting(file))) ELSE Closed(file)
  <1>1. Contents(<<>>) = <<>> /\ Closed(<<>>) = <<>> /\ Waiting(<<>>) = <<>>
    <2>1. /\ [i \in DOMAIN <<>> |-> Closes(<<>>, i)] = <<>>
          /\ [i \in DOMAIN <<>> |-> IF i < Len(<<>>) /\ Continues(<<>>[i]) THEN <<>>
                                    ELSE <<Said(LineAt(<<>>, i))>>] = <<>>
      OBVIOUS
    <2>2. QED
      BY <2>1, FlattenEmpty DEF Contents, Closed, Waiting
  <1>2. CASE file = <<>>
    BY <1>1, <1>2
  <1>3. CASE file # <<>>
    <2> DEFINE n == Len(file) - 1
               front == SubSeq(file, 1, n)
               line == file[Len(file)]
               tt == [i \in DOMAIN file |-> IF i < Len(file) /\ Continues(file[i]) THEN <<>>
                                            ELSE <<Said(LineAt(file, i))>>]
               x == <<Said(LineAt(file, Len(file)))>>
    <2>1. n \in Nat /\ Len(file) = n + 1 /\ Len(file) \in 1 .. Len(file) /\ DOMAIN file = 1 .. n + 1
      BY <1>3, EmptySeq
    <2>2. front \in Seq(Seq(Chars)) /\ Len(front) = n /\ line \in Seq(Chars) /\ file = Append(front, line)
      <3>1. Len(file) > 0 => front \in Seq(Seq(Chars)) /\ line \in Seq(Chars) /\ file = Append(front, line)
        BY <1>3, <2>1
      <3>2. Len(front) = n
        BY <2>1
      <3>3. QED
        BY <2>1, <3>1, <3>2
    <2>3. tt = [i \in 1 .. n + 1 |-> tt[i]] /\ Contents(file) = FlattenSeq(tt)
      BY <2>1 DEF Contents
    <2>4. \A i \in 1 .. n : tt[i] = Closes(file, i)
      <3>1. \A i \in 1 .. n : i \in DOMAIN file /\ i < Len(file)
        BY <2>1
      <3> HIDE DEF n
      <3>2. QED
        BY <3>1 DEF Closes
    <2>5. tt[n + 1] = x
      BY <2>1
    <2>6. Said(LineAt(file, Len(file))) \in Seq(Chars) /\ x \in Seq(Seq(Chars))
      <3>1. Said(LineAt(file, Len(file))) \in Seq(Chars)
        BY <2>1, ClosesTyped
      <3> DEFINE t == Said(LineAt(file, Len(file)))
      <3> HIDE DEF t
      <3>2. t \in Seq(Chars) => <<t>> \in Seq(Seq(Chars))
        OBVIOUS
      <3>3. QED
        BY <3>1, <3>2 DEF t
    <2> HIDE DEF tt, x, front, line, n
    <2>7. FlattenSeq(tt) = Closed(front) \o x
      <3>1. \A i \in 1 .. Len(front) : tt[i] = Closes(Append(front, line), i)
        BY <2>2, <2>4
      <3>2. tt = [i \in 1 .. Len(front) + 1 |-> tt[i]] /\ tt[Len(front) + 1] = x
        BY <2>2, <2>3, <2>5
      <3>3. ClosesThen(tt, front, line, x)
        BY <3>1, <3>2 DEF ClosesThen
      <3>4. QED
        BY <2>2, <2>6, <3>3, ClosedTail
    <2>8. Closed(front) \in Seq(Seq(Chars))
      BY <2>2, ClosesTyped
    <2>9. Closed(front) \o x = Append(Closed(front), Said(LineAt(file, Len(file))))
      <3> DEFINE t == Said(LineAt(file, Len(file)))
      <3>1. t \in Seq(Chars) /\ x = <<t>>
        BY <2>6 DEF x
      <3> HIDE DEF t
      <3>2. Closed(front) \o <<t>> = Append(Closed(front), t)
        BY <2>8, <3>1
      <3>3. QED
        BY <3>1, <3>2 DEF t
    <2>10. CASE Continues(line)
      <3>1. Closed(file) = Closed(front)
        BY <2>2, <2>10, ClosedAppend
      <3>2. Waiting(file) = LineAt(file, Len(file))
        BY <1>3, <2>10 DEF Waiting, line
      <3>3. QED
        BY <1>1, <1>3, <2>3, <2>7, <2>9, <2>10, <3>1, <3>2 DEF line
    <2>11. CASE ~Continues(line)
      <3>1. Closed(file) = Append(Closed(front), Said(Waiting(front) \o line))
        BY <2>2, <2>11, ClosedAppend
      <3>2. LineAt(file, Len(file)) = Waiting(front) \o Kept(line)
        BY <2>1, <2>2, LineAtNext
      <3>3. Kept(line) = line
        BY <2>11 DEF Kept
      <3>4. QED
        BY <1>1, <1>3, <2>3, <2>7, <2>9, <2>11, <3>1, <3>2, <3>3 DEF line
    <2>12. QED
      BY <2>10, <2>11
  <1>4. QED
    BY <1>2, <1>3

-----------------------------------------------------------------------------
\* The state while the files are read and after it.
Reading(file, j, c) == j = Waiting(file) /\ c = Grouped(Closed(file))

FilesRead ==
  /\ files \in Seq(Seq(Lines)) /\ Len(files) \in {1, 2}
  /\ stage \in {"files", "request", "response", "done"}
  /\ stage = "files" =>
       /\ Reading(files[Len(files)], joined, current)
       /\ filters = IF Len(files) = 1 THEN <<>> ELSE FiltersOf(files[1])
  /\ stage # "files" => Len(files) = 2 /\ filters = FiltersOf(files[1]) \o FiltersOf(files[2])

\* The lines of the files are texts.
LEMMA LinesTyped ==
  /\ \A line \in Lines : line \in Seq(Chars)
  /\ \A file \in Seq(Lines) : file \in Seq(Seq(Chars))
  <1>1. \A line \in Lines : line \in Seq(Chars)
    BY FiltersAssumption, CharsHold
  <1>2. \A file \in Seq(Lines) : file \in Seq(Seq(Chars))
    BY <1>1
  <1>3. QED
    BY <1>1, <1>2

\* FiltersOf, with names for its parts.
LEMMA FiltersOfIs ==
  ASSUME NEW file \in Seq(Seq(Chars))
  PROVE  /\ FiltersOf(file) = Grouped(Contents(file)) /\ FiltersOf(file) \in Seq(FilterType)
         /\ Closed(file) \in Seq(Seq(Chars)) /\ Waiting(file) \in Seq(Chars)
         /\ Contents(file) \in Seq(Seq(Chars))
  <1>1. FiltersOf(file) = Grouped(Contents(file))
    BY DEF FiltersOf, Grouped, Pieces, Piece
  <1>2. Closed(file) \in Seq(Seq(Chars))
    BY ClosesTyped
  <1>3. Waiting(file) \in Seq(Chars)
    <2>1. <<>> \in Seq(Chars)
      OBVIOUS
    <2>2. QED
      BY <2>1, WaitingAppend
  <1>4. Said(Waiting(file)) \in Seq(Chars)
    BY <1>3, ProcessLineIs
  <1>5. Contents(file) \in Seq(Seq(Chars))
    <2> DEFINE t == Said(Waiting(file))
               c == Closed(file)
    <2> HIDE DEF t, c
    <2>1. t \in Seq(Chars) /\ c \in Seq(Seq(Chars)) => Append(c, t) \in Seq(Seq(Chars))
      OBVIOUS
    <2>2. QED
      BY <1>2, <1>4, <2>1, ContentsIs DEF t, c
  <1>6. QED
    BY <1>1, <1>2, <1>3, <1>5, PiecesTyped

\* ReadLine does for a line what it adds to the file.
LEMMA ReadLineKeeps ==
  ASSUME NEW file \in Seq(Seq(Chars)), NEW line \in Seq(Chars), Reading(file, joined, current),
         IF Continues(line)
         THEN joined' = joined \o Cut(line) /\ current' = current
         ELSE joined' = <<>> /\ current' = Parsed(process_line(joined \o line))
  PROVE  Reading(Append(file, line), joined', current')
  <1>1. joined = Waiting(file) /\ current = Grouped(Closed(file))
    BY DEF Reading
  <1>2. CASE Continues(line)
    BY <1>1, <1>2, WaitingAppend, ClosedAppend DEF Reading
  <1>3. CASE ~Continues(line)
    <2> DEFINE text == Waiting(file) \o line
    <2>1. text \in Seq(Chars) /\ Closed(file) \in Seq(Seq(Chars))
      BY FiltersOfIs
    <2> HIDE DEF text
    <2>2. process_line(text) = Said(text) /\ Said(text) \in Seq(Chars)
      BY <2>1, ProcessLineIs
    <2>3. Grouped(Append(Closed(file), Said(text))) = Parsed(Said(text))
      BY <1>1, <2>1, <2>2, GroupedIs DEF Parsed
    <2>4. Closed(Append(file, line)) = Append(Closed(file), Said(text))
      BY <1>3, ClosedAppend DEF text
    <2>5. joined' = Waiting(Append(file, line))
      BY <1>3, WaitingAppend
    <2>6. current' = Grouped(Closed(Append(file, line)))
      BY <1>1, <1>3, <2>2, <2>3, <2>4 DEF text
    <2>7. QED
      BY <2>5, <2>6 DEF Reading
  <1>4. QED
    BY <1>2, <1>3

\* EndOfFile does what the end of the file means.
LEMMA EndOfFileIs ==
  ASSUME NEW file \in Seq(Seq(Chars)), Reading(file, joined, current)
  PROVE  Parsed(process_line(joined)) = FiltersOf(file)
  <1>1. joined = Waiting(file) /\ current = Grouped(Closed(file)) /\ FiltersOf(file) = Grouped(Contents(file))
    BY FiltersOfIs DEF Reading
  <1>2. CASE file # <<>> /\ Continues(file[Len(file)])
    <2> DEFINE text == Waiting(file)
    <2>1. text \in Seq(Chars) /\ Closed(file) \in Seq(Seq(Chars))
      BY FiltersOfIs
    <2>2. Contents(file) = Append(Closed(file), Said(text))
      BY <1>2, ContentsIs
    <2> HIDE DEF text
    <2>3. process_line(text) = Said(text) /\ Said(text) \in Seq(Chars)
      BY <2>1, ProcessLineIs
    <2>4. Grouped(Append(Closed(file), Said(text))) = Parsed(Said(text))
      BY <1>1, <2>1, <2>3, GroupedIs DEF Parsed
    <2>5. QED
      BY <1>1, <2>2, <2>3, <2>4 DEF text
  <1>3. CASE file = <<>> \/ ~Continues(file[Len(file)])
    <2>1. joined = <<>>
      BY <1>1, <1>3 DEF Waiting
    <2>2. Contents(file) = Closed(file)
      BY <1>3, ContentsIs
    <2>3. Parsed(process_line(joined)) = current
      BY <2>1, EmptyLine DEF Parsed
    <2>4. QED
      BY <1>1, <2>2, <2>3
  <1>4. QED
    BY <1>2, <1>3

\* Before the first line is read.
LEMMA FilesReadStart == Init => FilesRead
  <1> SUFFICES ASSUME Init PROVE FilesRead
    OBVIOUS
  <1>1. /\ files = << <<>> >> /\ joined = <<>> /\ current = <<>> /\ filters = <<>> /\ stage = "files"
    BY DEF Init
  <1>2. files \in Seq(Seq(Lines)) /\ Len(files) = 1 /\ files[1] = <<>>
    <2>1. <<>> \in Seq(Lines)
      OBVIOUS
    <2>2. QED
      BY <1>1, <2>1
  <1>3. Closed(<<>>) = <<>> /\ Waiting(<<>>) = <<>>
    <2>1. <<>> \in Seq(Seq(Chars))
      OBVIOUS
    <2>2. QED
      BY <2>1, ContentsIs
  <1>4. Grouped(<<>>) = <<>>
    <2>1. Pieces(<<>>) = <<>>
      BY DEF Pieces
    <2>2. QED
      BY <2>1, FlattenEmpty DEF Grouped
  <1>5. QED
    BY <1>1, <1>2, <1>3, <1>4 DEF FilesRead, Reading

\* A step of the reader, or of an exchange after it.
LEMMA FilesReadStep == FilesRead /\ [Next]_vars => FilesRead'
  <1> SUFFICES ASSUME FilesRead, [Next]_vars PROVE FilesRead'
    OBVIOUS
  <1>1. /\ files \in Seq(Seq(Lines)) /\ Len(files) \in {1, 2}
        /\ Len(files) \in 1 .. Len(files) /\ DOMAIN files = 1 .. Len(files)
    <2>1. files \in Seq(Seq(Lines)) /\ Len(files) \in {1, 2}
      BY DEF FilesRead
    <2>2. \A n \in {1, 2} : n \in 1 .. n
      OBVIOUS
    <2>3. QED
      BY <2>1, <2>2
  <1> DEFINE file == files[Len(files)]
  <1>2. file \in Seq(Lines) /\ file \in Seq(Seq(Chars))
    <2>1. file \in Seq(Lines)
      BY <1>1
    <2> HIDE DEF file
    <2>2. QED
      BY <2>1, LinesTyped
  <1>3. ASSUME NEW line \in Lines, ReadLine(line)
        PROVE  FilesRead'
    <2> DEFINE more == Append(file, line)
    <2>1. stage = "files" /\ Reading(file, joined, current) /\ stage' = stage /\ filters' = filters
      BY <1>3 DEF ReadLine, FilesRead
    <2>2. files' = [files EXCEPT ![Len(files)] = more]
      BY <1>3 DEF ReadLine
    <2>3. more \in Seq(Lines) /\ line \in Seq(Chars)
      BY <1>2, LinesTyped
    <2>4. Reading(more, joined', current')
      <3>1. IF Continues(line)
            THEN joined' = joined \o Cut(line) /\ current' = current
            ELSE joined' = <<>> /\ current' = Parsed(process_line(joined \o line))
        BY <1>3 DEF ReadLine
      <3> HIDE DEF file
      <3>2. QED
        BY <1>2, <2>1, <2>3, <3>1, ReadLineKeeps
    <2>a. filters = IF Len(files) = 1 THEN <<>> ELSE FiltersOf(files[1])
      BY <2>1 DEF FilesRead
    <2> HIDE DEF more, file
    <2>5. /\ files' \in Seq(Seq(Lines)) /\ Len(files') = Len(files) /\ files'[Len(files)] = more
          /\ Len(files) = 2 => files'[1] = files[1]
      <3>1. files[1] \in Seq(Lines)
        <4>1. 1 \in 1 .. Len(files)
          BY <1>1
        <4>2. QED
          BY <1>1, <4>1
      <3>2. files' \in Seq(Seq(Lines)) /\ Len(files') = Len(files)
        BY <1>1, <2>2, <2>3
      <3>3. files'[Len(files)] = more
        BY <1>1, <2>2
      <3>4. Len(files) = 2 => files'[1] = files[1]
        <4>1. Len(files) = 2 => 1 \in DOMAIN files /\ 1 # Len(files)
          BY <1>1
        <4>2. QED
          BY <2>2, <4>1
      <3>5. QED
        BY <3>2, <3>3, <3>4
    <2>6. Reading(files'[Len(files')], joined', current')
      BY <2>4, <2>5
    <2>7. filters' = IF Len(files') = 1 THEN <<>> ELSE FiltersOf(files'[1])
      BY <1>1, <2>1, <2>5, <2>a
    <2>8. QED
      BY <1>1, <2>1, <2>5, <2>6, <2>7 DEF FilesRead
  <1>4. ASSUME EndOfFile
        PROVE  FilesRead'
    <2>1. stage = "files" /\ Reading(file, joined, current) /\ filters = IF Len(files) = 1 THEN <<>> ELSE FiltersOf(files[1])
      BY <1>4 DEF EndOfFile, FilesRead
    <2>2. filters' = filters \o FiltersOf(file) /\ current' = <<>> /\ joined' = <<>>
      BY <1>2, <1>4, <2>1, EndOfFileIs DEF EndOfFile
    <2>3. CASE Len(files) = 1
      <3>1. files' = Append(files, <<>>) /\ stage' = "files"
        BY <1>4, <2>1, <2>3 DEF EndOfFile
      <3>2. files' \in Seq(Seq(Lines)) /\ Len(files') = 2 /\ files'[2] = <<>> /\ files'[1] = files[1]
        <4>1. <<>> \in Seq(Lines)
          OBVIOUS
        <4>2. 1 \in 1 .. Len(files) /\ Len(files) + 1 = 2
          BY <2>3
        <4>3. QED
          BY <1>1, <3>1, <4>1, <4>2, AppendHas
      <3>3. filters' = FiltersOf(files[1])
        <4>1. FiltersOf(file) \in Seq(FilterType)
          BY <1>2, FiltersOfIs
        <4>2. <<>> \o FiltersOf(file) = FiltersOf(file)
          BY <4>1, ConcatEmptySeq
        <4>3. QED
          BY <2>1, <2>2, <2>3, <4>2
      <3>4. Closed(<<>>) = <<>> /\ Waiting(<<>>) = <<>>
        <4>1. <<>> \in Seq(Seq(Chars))
          OBVIOUS
        <4>2. QED
          BY <4>1, ContentsIs
      <3>5. Grouped(<<>>) = <<>>
        <4>1. Pieces(<<>>) = <<>>
          BY DEF Pieces
        <4>2. QED
          BY <4>1, FlattenEmpty DEF Grouped
      <3>6. Reading(files'[Len(files')], joined', current')
        BY <2>2, <3>2, <3>4, <3>5 DEF Reading
      <3>7. QED
        BY <3>1, <3>2, <3>3, <3>6 DEF FilesRead
    <2>4. CASE Len(files) = 2
      <3>1. files' = files /\ stage' = "request"
        BY <1>4, <2>4 DEF EndOfFile
      <3>2. filters' = FiltersOf(files[1]) \o FiltersOf(files[2])
        BY <2>1, <2>2, <2>4
      <3>3. QED
        BY <1>1, <2>4, <3>1, <3>2 DEF FilesRead
    <2>5. QED
      BY <1>1, <2>3, <2>4
  <1>5. ASSUME NEW u \in Urls, NEW r \in Rules, NEW h \in Requests, Ask(u, r, h)
        PROVE  FilesRead'
    BY <1>5 DEF Ask, FilesRead, Reading
  <1>6. ASSUME NEW a \in Answers, Answer(a)
        PROVE  FilesRead'
    BY <1>6 DEF Answer, FilesRead, Reading
  <1>7. ASSUME UNCHANGED vars
        PROVE  FilesRead'
    BY <1>7 DEF vars, FilesRead, Reading
  <1>8. QED
    BY <1>3, <1>4, <1>5, <1>6, <1>7 DEF Next

\* The filters of the Config are those that the two files announce, each with the
\* jobs up to the next header (parse_filter_file of src/src/filter.rs), whatever
\* the files hold and however their lines continue.
THEOREM FiltersHold == Spec => []FiltersAsWritten
  <1>1. FilesRead => FiltersAsWritten
    BY DEF FilesRead, FiltersAsWritten
  <1>2. QED
    BY <1>1, FilesReadStart, FilesReadStep, PTL DEF Spec

-----------------------------------------------------------------------------
\* Taking one character for a text.
Instead(c, new) == [x \in Chars |-> IF x = c THEN new ELSE <<x>>]

\* It gives texts.
LEMMA InsteadTyped ==
  ASSUME NEW c, NEW new \in Seq(Chars)
  PROVE  Instead(c, new) \in Lister(Chars, Chars)
  <1>1. \A x \in Chars : <<x>> \in Seq(Chars)
    OBVIOUS
  <1>2. QED
    BY <1>1 DEF Instead, Lister

\* One character stands where it is.
LEMMA OneStands ==
  ASSUME NEW text \in Seq(Chars), NEW c, NEW i \in 1 .. Len(text)
  PROVE  StandsAt(text, i, <<c>>) <=> text[i] = c
  <1>1. Len(<<c>>) = 1 /\ i + 1 - 1 = i /\ i \in Int /\ i <= Len(text)
    OBVIOUS
  <1>2. Len(SubSeq(text, i, i)) = 1 /\ SubSeq(text, i, i)[1] = text[i] /\ SubSeq(text, i, i) \in Seq(Chars)
    OBVIOUS
  <1>3. SubSeq(text, i, i) = <<text[i]>>
    <2> DEFINE s == SubSeq(text, i, i)
               t == <<text[i]>>
    <2>1. t \in Seq(Chars) /\ Len(t) = 1 /\ t[1] = text[i]
      OBVIOUS
    <2>2. s \in Seq(Chars) /\ Len(s) = 1 /\ s[1] = text[i]
      BY <1>2
    <2>3. \A j \in 1 .. 1 : j = 1
      OBVIOUS
    <2> HIDE DEF s, t
    <2>4. s = t
      BY <2>1, <2>2, <2>3, SeqEqual
    <2>5. QED
      BY <2>4 DEF s, t
  <1>4. <<text[i]>> = <<c>> <=> text[i] = c
    OBVIOUS
  <1>5. QED
    BY <1>1, <1>3, <1>4 DEF StandsAt

\* Rewritten is this, for one character.
LEMMA RewrittenOne ==
  ASSUME NEW text \in Seq(Chars), NEW c, NEW new \in Seq(Chars)
  PROVE  Rewritten(text, <<c>>, new) = Collect(Instead(c, new), text)
  <1> DEFINE at == {i \in DOMAIN text : StandsAt(text, i, <<c>>)}
             Inside(i) == \E j \in at : j < i /\ i < j + Len(<<c>>)
             ss == [i \in DOMAIN text |-> IF i \in at THEN new ELSE IF Inside(i) THEN <<>> ELSE <<text[i]>>]
             tt == [i \in DOMAIN text |-> Instead(c, new)[text[i]]]
  <1>1. Len(<<c>>) = 1 /\ DOMAIN text = 1 .. Len(text) /\ Len(text) \in Nat
    OBVIOUS
  <1>2. at \subseteq 1 .. Len(text)
    BY <1>1
  <1>3. \A i, j \in 1 .. Len(text) : j < i => j + 1 <= i
    OBVIOUS
  <1>4. Greedy(text, <<c>>, at)
    BY <1>1, <1>2, <1>3 DEF Greedy
  <1>5. Occurrences(text, <<c>>) = at
    <2> HIDE DEF at
    <2>1. QED
      BY <1>4, OccurrencesAre
  <1>6. Rewritten(text, <<c>>, new) = FlattenSeq(ss)
    <2> HIDE DEF at
    <2>1. QED
      BY <1>5 DEF Rewritten
  <1>7. \A i \in 1 .. Len(text) : ~Inside(i)
    BY <1>1, <1>2
  <1>8. \A i \in 1 .. Len(text) : i \in at <=> text[i] = c
    BY <1>1, OneStands
  <1>9. \A i \in 1 .. Len(text) : text[i] \in Chars
    OBVIOUS
  <1>10. \A i \in 1 .. Len(text) : ss[i] = tt[i]
    <2> SUFFICES ASSUME NEW i \in 1 .. Len(text) PROVE ss[i] = tt[i]
      OBVIOUS
    <2>1. ss[i] = IF i \in at THEN new ELSE IF Inside(i) THEN <<>> ELSE <<text[i]>>
      BY <1>1
    <2>2. tt[i] = IF text[i] = c THEN new ELSE <<text[i]>>
      BY <1>1, <1>9 DEF Instead
    <2> HIDE DEF ss, tt, at, Inside
    <2>3. QED
      BY <1>7, <1>8, <2>1, <2>2
  <1>11. ss = tt
    BY <1>1, <1>10
  <1>12. Collect(Instead(c, new), text) = FlattenSeq(tt)
    BY DEF Collect
  <1> HIDE DEF ss, tt
  <1>13. QED
    BY <1>6, <1>11, <1>12

\* And so is Replaced.
LEMMA ReplacedOne ==
  ASSUME NEW text \in Seq(Chars), NEW c \in Chars, NEW new \in Seq(Chars)
  PROVE  Replaced(text, <<c>>, new) = Collect(Instead(c, new), text)
  <1>1. <<c>> \in Seq(Chars) /\ <<c>> # <<>>
    OBVIOUS
  <1>2. QED
    BY <1>1, ReplacedIs, RewrittenOne

\* Elements of which g makes themselves are left alone.
LEMMA CollectSame ==
  ASSUME NEW T, NEW U, NEW g \in Lister(U, T), NEW V, V \subseteq U, V \subseteq T,
         \A x \in V : g[x] = <<x>>, NEW s \in Seq(V)
  PROVE  Collect(g, s) = s
  <1> DEFINE S == {u \in Seq(V) : Collect(g, u) = u}
  <1>1. <<>> \in S
    BY CollectEmpty
  <1>2. \A u \in Seq(V), e \in V : u \in S => Append(u, e) \in S
    <2> SUFFICES ASSUME NEW u \in Seq(V), NEW e \in V, Collect(g, u) = u PROVE Append(u, e) \in S
      OBVIOUS
    <2>1. u \in Seq(U) /\ e \in U /\ Append(u, e) \in Seq(V)
      OBVIOUS
    <2>2. Collect(g, Append(u, e)) = u \o <<e>>
      <3>1. Collect(g, Append(u, e)) = Collect(g, u) \o g[e]
        BY <2>1, CollectAppend, SMTT(30)
      <3>2. g[e] = <<e>>
        OBVIOUS
      <3>3. QED
        BY <3>1, <3>2
    <2>3. u \o <<e>> = Append(u, e)
      OBVIOUS
    <2>4. QED
      BY <2>1, <2>2, <2>3
  <1>3. Seq(V) \subseteq S
    <2> HIDE DEF S
    <2>1. QED
      BY <1>1, <1>2, SeqInduction
  <1>4. QED
    BY <1>3

-----------------------------------------------------------------------------
\* Taking the groups out.
InGroup(text, i) == \E j \in 1 .. i : text[j] \in ToSet(Names) /\ \A k \in j + 1 .. i : text[k] \in Word

ExpandedStep(out, text, i) == IF InGroup(text, i) THEN out ELSE Append(out, text[i])

\* Expanded, character by character.
LEMMA ExpandedComes ==
  ASSUME NEW text \in Seq(Chars)
  PROVE  \E f \in [0 .. Len(text) -> Seq(Chars)] :
           /\ f[0] = <<>>
           /\ \A i \in 1 .. Len(text) : f[i] = ExpandedStep(f[i - 1], text, i)
           /\ Expanded(text) = f[Len(text)]
  <1> DEFINE n == Len(text)
             a == <<>>
             A == Seq(Chars)
             F == [p \in A \X DOMAIN text |-> ExpandedStep(p[1], text, p[2])]
             s == [i \in DOMAIN text |-> i]
             Body(X, S) ==
               IF S = {} THEN a
               ELSE IF \E j \in 1 .. s[Max(S)] : text[j] \in ToSet(Names) /\ \A k \in j + 1 .. s[Max(S)] : text[k] \in Word
               THEN X[S \ {Max(S)}] ELSE Append(X[S \ {Max(S)}], text[s[Max(S)]])
             Z == CHOOSE X : X = [S \in SUBSET DOMAIN s |-> Body(X, S)]
  <1>1. n \in Nat /\ DOMAIN text = 1 .. n
    OBVIOUS
  <1>2. a \in A
    OBVIOUS
  <1>3. F \in Stepper(A, DOMAIN text)
        /\ \A x \in A, i \in DOMAIN text : F[<<x, i>>] = ExpandedStep(x, text, i)
    <2>1. ASSUME NEW x \in A, NEW i \in DOMAIN text PROVE ExpandedStep(x, text, i) \in A
      <3>1. text[i] \in Chars
        BY <1>1
      <3>2. Append(x, text[i]) \in A
        BY <3>1
      <3> HIDE DEF A
      <3>3. QED
        BY <3>2 DEF ExpandedStep
    <2>2. QED
      BY <2>1 DEF Stepper
  <1>4. Expanded(text) = Z[DOMAIN s]
    BY DEF Expanded, FoldLeftDomain, FoldLeft, MapThenFoldSet
  <1> HIDE DEF F, a
  <1>5. DomainFolds(s, text, F, a, A)
    BY <1>1, <1>2, <1>3, DomainFold
  <1>s. /\ DOMAIN s = DOMAIN text /\ \A i \in DOMAIN s : s[i] = i
        /\ \A S \in SUBSET DOMAIN s :
             S # {} => Max(S) \in DOMAIN s /\ S \ {Max(S)} \in SUBSET DOMAIN s
    BY <1>5 DEF DomainFolds
  <1> HIDE DEF s
  <1>6. ASSUME NEW X, NEW S \in SUBSET DOMAIN s, S # {}, X[S \ {Max(S)}] \in A
        PROVE  F[<<X[S \ {Max(S)}], s[Max(S)]>>] = Body(X, S)
    <2>1. F[<<X[S \ {Max(S)}], s[Max(S)]>>] = ExpandedStep(X[S \ {Max(S)}], text, s[Max(S)])
      BY <1>3, <1>s, <1>6
    <2>2. QED
      BY <1>6, <2>1 DEF ExpandedStep, InGroup
  <1>7. Z = [S \in SUBSET DOMAIN s |-> Body(Z, S)]
    <2>1. PICK X \in [SUBSET DOMAIN s -> A] : Folded(X, F, a, s)
      BY <1>5 DEF DomainFolds
    <2>2. \A S \in SUBSET DOMAIN s : X[S] = IF S = {} THEN a ELSE F[<<X[S \ {Max(S)}], s[Max(S)]>>]
      BY <2>1 DEF Folded
    <2>3. \A S \in SUBSET DOMAIN s : S # {} => X[S \ {Max(S)}] \in A
      BY <1>s, <2>1
    <2>4. \A S \in SUBSET DOMAIN s : X[S] = Body(X, S)
      <3> SUFFICES ASSUME NEW S \in SUBSET DOMAIN s PROVE X[S] = Body(X, S)
        OBVIOUS
      <3>1. CASE S = {}
        BY <2>2, <3>1
      <3>2. CASE S # {}
        <4>1. F[<<X[S \ {Max(S)}], s[Max(S)]>>] = Body(X, S)
          BY <1>6, <2>3, <3>2
        <4> HIDE DEF Body
        <4>2. QED
          BY <2>2, <3>2, <4>1
      <3>3. QED
        BY <3>1, <3>2
    <2> HIDE DEF Body
    <2>5. X = [S \in SUBSET DOMAIN s |-> Body(X, S)]
      BY <2>1, <2>4
    <2>6. QED
      BY <2>5
  <1>8. Solves(Z, F, a, A, s)
    <2>1. {} \in SUBSET DOMAIN s /\ Body(Z, {}) = a
      OBVIOUS
    <2>2. Z[{}] = a
      <3> HIDE DEF Body
      <3>1. QED
        BY <1>7, <2>1
    <2>3. \A S \in SUBSET DOMAIN s : Z[S] = Body(Z, S)
      <3> HIDE DEF Body
      <3>1. QED
        BY <1>7
    <2> HIDE DEF Z, Body
    <2>4. QED
      BY <1>6, <2>2, <2>3 DEF Solves
  <1>9. PICK f \in [0 .. Len(text) -> A] :
          /\ f[0] = a
          /\ \A i \in 1 .. Len(text) : f[i] = F[<<f[i - 1], i>>]
          /\ Z[DOMAIN s] = f[Len(text)]
    <2> HIDE DEF Z
    <2>1. QED
      BY <1>5, <1>8 DEF DomainFolds
  <1>10. \A i \in 1 .. n : f[i] = ExpandedStep(f[i - 1], text, i)
    <2>1. \A i \in 1 .. n : i - 1 \in 0 .. n
      BY <1>1
    <2>2. QED
      BY <1>1, <1>3, <1>9, <2>1
  <1>11. QED
    <2> HIDE DEF Z
    <2>1. QED
      BY <1>4, <1>9, <1>10 DEF a

OutOf(text, i) == IF InGroup(text, i) THEN <<>> ELSE <<text[i]>>

\* Expanded leaves out the names and what belongs to them.
LEMMA ExpandedIs ==
  ASSUME NEW text \in Seq(Chars)
  PROVE  /\ Expanded(text) = FlattenSeq([i \in DOMAIN text |-> OutOf(text, i)])
         /\ Expanded(text) \in Seq(Chars)
  <1> DEFINE n == Len(text)
             ss == [i \in DOMAIN text |-> OutOf(text, i)]
  <1>1. n \in Nat /\ DOMAIN text = 1 .. n /\ n = Len(text)
    OBVIOUS
  <1>2. PICK f \in [0 .. Len(text) -> Seq(Chars)] :
          /\ f[0] = <<>>
          /\ \A i \in 1 .. Len(text) : f[i] = ExpandedStep(f[i - 1], text, i)
          /\ Expanded(text) = f[Len(text)]
    BY ExpandedComes
  <1>3. \A i \in 1 .. n : text[i] \in Chars
    BY <1>1
  <1>4. \A i \in 1 .. n : OutOf(text, i) \in Seq(Chars)
    BY <1>3 DEF OutOf
  <1>5. ss = [i \in 1 .. n |-> ss[i]] /\ \A i \in 1 .. n : ss[i] = OutOf(text, i)
    BY <1>1
  <1> HIDE DEF ss, n
  <1>6. ss \in Seq(Seq(Chars)) /\ Len(ss) = n
    BY <1>1, <1>4, <1>5, Listed
  <1>7. PICK g \in [0 .. Len(ss) -> Seq(Chars)] :
          /\ g[0] = <<>>
          /\ \A i \in 1 .. Len(ss) : g[i] = g[i - 1] \o ss[i]
          /\ FlattenSeq(ss) = g[Len(ss)]
    BY <1>6, FlattenComes
  <1> DEFINE L == {i \in Nat : i <= n => f[i] = g[i]}
  <1>8. 0 \in L
    BY <1>2, <1>7
  <1>9. ASSUME NEW i \in Nat, i \in L PROVE i + 1 \in L
    <2> SUFFICES ASSUME i + 1 <= n PROVE f[i + 1] = g[i + 1]
      OBVIOUS
    <2>1. i + 1 \in 1 .. n /\ (i + 1) - 1 = i /\ i \in 0 .. n /\ i <= n
      BY <1>1
    <2>2. f[i] = g[i] /\ g[i] \in Seq(Chars)
      BY <1>6, <1>7, <1>9, <2>1
    <2>3. f[i + 1] = ExpandedStep(g[i], text, i + 1) /\ g[i + 1] = g[i] \o OutOf(text, i + 1)
      BY <1>1, <1>2, <1>5, <1>6, <1>7, <2>1, <2>2
    <2>4. text[i + 1] \in Chars
      BY <1>3, <2>1
    <2>5. g[i] \o <<text[i + 1]>> = Append(g[i], text[i + 1]) /\ g[i] \o <<>> = g[i]
      BY <2>2, <2>4
    <2>6. QED
      BY <2>3, <2>5 DEF ExpandedStep, OutOf
  <1>10. Nat \subseteq L
    <2> HIDE DEF L
    <2>1. QED
      BY <1>8, <1>9, Induction
  <1>11. f[n] = g[n]
    BY <1>1, <1>10
  <1>12. QED
    BY <1>1, <1>2, <1>6, <1>7, <1>11 DEF ss

\* A text without names is left alone.
LEMMA ExpandedPlain ==
  ASSUME NEW text \in Seq(Chars \ ToSet(Names))
  PROVE  Expanded(text) = text
  <1> DEFINE n == Len(text)
             h == [x \in Chars |-> <<x>>]
             V == Chars \ ToSet(Names)
  <1>1. n \in Nat /\ DOMAIN text = 1 .. n /\ text \in Seq(Chars) /\ \A i \in 1 .. n : text[i] \in V /\ text[i] \in Chars
    OBVIOUS
  <1>2. \A i \in 1 .. n : ~InGroup(text, i)
    <2> SUFFICES ASSUME NEW i \in 1 .. n, NEW j \in 1 .. i PROVE text[j] \notin ToSet(Names)
      BY DEF InGroup
    <2>1. j \in 1 .. n
      BY <1>1
    <2>2. QED
      BY <1>1, <2>1
  <1>3. h \in Lister(Chars, Chars)
    BY DEF Lister
  <1>4. Collect(h, text) = text
    <2>1. \A x \in V : h[x] = <<x>>
      OBVIOUS
    <2>2. V \subseteq Chars /\ text \in Seq(V)
      OBVIOUS
    <2> HIDE DEF h, V
    <2>3. QED
      BY <1>3, <2>1, <2>2, CollectSame
  <1>5. [i \in DOMAIN text |-> OutOf(text, i)] = [i \in DOMAIN text |-> h[text[i]]]
    <2>1. \A i \in DOMAIN text : OutOf(text, i) = h[text[i]]
      BY <1>1, <1>2 DEF OutOf
    <2>2. QED
      BY <2>1
  <1>6. QED
    BY <1>1, <1>4, <1>5, ExpandedIs DEF Collect

-----------------------------------------------------------------------------
\* The variables of a request.
Plain == Chars \ ToSet(Names)
UrlType == [host : Seq(Chars), path : Seq(Chars)]
NoNames(u) == ToSet(u.host \o u.path) \cap ToSet(Names) = {}
Valuation(v) == \A c \in ToSet(Names) : v[c] \in Seq(Plain)

\* There are four names.
LEMMA NamesAre ==
  /\ Names[1] = "$host" /\ Names[2] = "$url" /\ Names[3] = "$path" /\ Names[4] = "$origin"
  /\ ToSet(Names) = {"$host", "$url", "$path", "$origin"}
  /\ ToSet(Names) \subseteq Chars
  <1>1. DOMAIN Names = 1 .. 4
    BY DEF Names
  <1>2. 1 .. 4 = {1, 2, 3, 4}
    OBVIOUS
  <1>3. Names[1] = "$host" /\ Names[2] = "$url" /\ Names[3] = "$path" /\ Names[4] = "$origin"
    BY DEF Names
  <1>4. ToSet(Names) = {Names[i] : i \in {1, 2, 3, 4}}
    BY <1>1, <1>2 DEF ToSet
  <1>5. QED
    BY <1>3, <1>4, CharsHold

\* The values of a URL without names have no names.
LEMMA VariablesTyped ==
  ASSUME NEW u \in UrlType, NoNames(u)
  PROVE  Valuation(FilterVariables(u))
  <1>1. u.host \in Seq(Chars) /\ u.path \in Seq(Chars)
    BY DEF UrlType
  <1>2. \A s \in Seq(Chars), t \in Seq(Chars) :
          ToSet(s \o t) \cap ToSet(Names) = {} => s \in Seq(Plain) /\ t \in Seq(Plain)
    <2> SUFFICES ASSUME NEW s \in Seq(Chars), NEW t \in Seq(Chars), ToSet(s \o t) \cap ToSet(Names) = {}
                 PROVE  s \in Seq(Plain) /\ t \in Seq(Plain)
      OBVIOUS
    <2>1. \A i \in DOMAIN (s \o t) : (s \o t)[i] \notin ToSet(Names)
      BY DEF ToSet
    <2>2. Len(s) \in Nat /\ Len(t) \in Nat /\ Len(s \o t) = Len(s) + Len(t) /\ DOMAIN (s \o t) = 1 .. Len(s) + Len(t)
      OBVIOUS
    <2>3. \A i \in 1 .. Len(s) : s[i] \in Plain
      <3> SUFFICES ASSUME NEW i \in 1 .. Len(s) PROVE s[i] \in Plain
        OBVIOUS
      <3>1. (s \o t)[i] = s[i] /\ i \in DOMAIN (s \o t) /\ s[i] \in Chars
        BY <2>2
      <3>2. QED
        BY <2>1, <3>1 DEF Plain
    <2>4. \A i \in 1 .. Len(t) : t[i] \in Plain
      <3> SUFFICES ASSUME NEW i \in 1 .. Len(t) PROVE t[i] \in Plain
        OBVIOUS
      <3>1. (s \o t)[Len(s) + i] = t[i] /\ Len(s) + i \in DOMAIN (s \o t) /\ t[i] \in Chars
        BY <2>2
      <3>2. QED
        BY <2>1, <3>1 DEF Plain
    <2>5. \A w \in Seq(Chars) : (\A i \in 1 .. Len(w) : w[i] \in Plain) => w \in Seq(Plain)
      OBVIOUS
    <2>6. QED
      BY <2>3, <2>4, <2>5
  <1>3. u.host \in Seq(Plain) /\ u.path \in Seq(Plain)
    BY <1>1, <1>2 DEF NoNames
  <1>4. "http://" \in Plain /\ "/" \in Plain /\ "client" \in Plain
    BY CharsHold, NamesAre DEF Plain
  <1>5. \A s \in Seq(Plain), t \in Seq(Plain), c \in Plain :
          <<c>> \o s \in Seq(Plain) /\ <<c>> \o s \o t \in Seq(Plain) /\ <<>> \in Seq(Plain) /\ <<c>> \in Seq(Plain)
    OBVIOUS
  <1>6. /\ FilterVariables(u)["$host"] = u.host
        /\ FilterVariables(u)["$url"] = <<"http://">> \o u.host \o u.path
        /\ FilterVariables(u)["$path"] = IF u.path = <<>> THEN <<>> ELSE <<"/">> \o u.path
        /\ FilterVariables(u)["$origin"] = <<"client">>
    BY NamesAre DEF FilterVariables
  <1> DEFINE v == FilterVariables(u)
  <1>7. v["$host"] \in Seq(Plain) /\ v["$url"] \in Seq(Plain) /\ v["$path"] \in Seq(Plain) /\ v["$origin"] \in Seq(Plain)
    <2>1. <<"http://">> \o u.host \o u.path \in Seq(Plain)
      BY <1>3, <1>4, <1>5
    <2>2. <<"/">> \o u.path \in Seq(Plain) /\ <<"client">> \in Seq(Plain) /\ <<>> \in Seq(Plain)
      BY <1>3, <1>4, <1>5
    <2> HIDE DEF v
    <2>3. QED
      BY <1>3, <1>6, <2>1, <2>2 DEF v
  <1>8. QED
    <2> HIDE DEF v
    <2>1. Valuation(v)
      BY <1>7, NamesAre DEF Valuation
    <2>2. QED
      BY <2>1 DEF v

\* Some names replaced by their values.
Some(M, v) == [x \in Chars |-> IF x \in M THEN v[x] ELSE <<x>>]

\* A text without names is a text.
LEMMA PlainChars == \A s \in Seq(Plain) : s \in Seq(Chars)
  BY DEF Plain

\* It gives texts.
LEMMA SomeTyped ==
  ASSUME NEW v, Valuation(v), NEW M, M \subseteq ToSet(Names)
  PROVE  Some(M, v) \in Lister(Chars, Chars)
  <1>1. \A x \in Chars : <<x>> \in Seq(Chars)
    OBVIOUS
  <1>2. \A x \in M : v[x] \in Seq(Chars)
    BY PlainChars DEF Valuation
  <1>3. QED
    BY <1>1, <1>2 DEF Some, Lister

\* One name more, where no value has a name.
LEMMA SomeMore ==
  ASSUME NEW v, Valuation(v), NEW M, M \subseteq ToSet(Names), NEW c \in ToSet(Names), c \notin M,
         NEW text \in Seq(Chars)
  PROVE  Replaced(Collect(Some(M, v), text), <<c>>, v[c]) = Collect(Some(M \union {c}, v), text)
  <1> DEFINE f == Instead(c, v[c])
             g == Some(M, v)
             k == [x \in Chars |-> Collect(f, g[x])]
  <1>1. c \in Chars /\ v[c] \in Seq(Chars) /\ v[c] \in Seq(Plain)
    BY NamesAre, PlainChars DEF Valuation
  <1>2. f \in Lister(Chars, Chars) /\ g \in Lister(Chars, Chars)
    BY <1>1, InsteadTyped, SomeTyped
  <1>3. Collect(g, text) \in Seq(Chars)
    <2> HIDE DEF g
    <2>1. QED
      BY <1>2, CollectTyped
  <1>4. Replaced(Collect(g, text), <<c>>, v[c]) = Collect(f, Collect(g, text))
    <2> HIDE DEF g
    <2>1. QED
      BY <1>1, <1>3, ReplacedOne
  <1>5. Collect(f, Collect(g, text)) = Collect(k, text)
    <2> HIDE DEF f, g
    <2>1. QED
      BY <1>2, CollectTwice
  <1>6. \A x \in Chars : k[x] = Some(M \union {c}, v)[x]
    <2> SUFFICES ASSUME NEW x \in Chars PROVE Collect(f, g[x]) = Some(M \union {c}, v)[x]
      OBVIOUS
    <2>1. CASE x \in M
      <3>1. g[x] = v[x] /\ v[x] \in Seq(Plain) /\ Some(M \union {c}, v)[x] = v[x]
        BY <2>1 DEF Some, Valuation
      <3>2. Plain \subseteq Chars /\ \A y \in Plain : f[y] = <<y>>
        BY DEF Plain, Instead
      <3> HIDE DEF f, g
      <3>3. Collect(f, v[x]) = v[x]
        BY <1>2, <3>1, <3>2, CollectSame
      <3>4. QED
        BY <3>1, <3>3
    <2>2. CASE x \notin M
      <3>1. g[x] = <<x>> /\ Some(M \union {c}, v)[x] = f[x]
        BY <2>2 DEF Some, Instead
      <3> HIDE DEF f, g
      <3>2. Collect(f, <<x>>) = f[x]
        BY <1>2, CollectOne
      <3>3. QED
        BY <3>1, <3>2
    <2>3. QED
      BY <2>1, <2>2
  <1>7. k = Some(M \union {c}, v)
    BY <1>6 DEF Some
  <1>8. QED
    <2> HIDE DEF k
    <2>1. QED
      BY <1>4, <1>5, <1>7

\* One name after the other is all names at once.
LEMMA SubstitutedIs ==
  ASSUME NEW v, Valuation(v), NEW text \in Seq(Chars)
  PROVE  /\ substitute_variables(text, v) = Collect(Some(ToSet(Names), v), text)
         /\ substitute_variables(text, v) \in Seq(Plain)
  <1>1. Collect(Some({}, v), text) = text
    <2>1. Some({}, v) \in Lister(Chars, Chars)
      BY SomeTyped
    <2>2. \A x \in Chars : Some({}, v)[x] = <<x>>
      BY DEF Some
    <2>3. QED
      BY <2>1, <2>2, CollectSame
  <1>s. /\ {} \in SUBSET ToSet(Names) /\ {"$host"} \in SUBSET ToSet(Names)
        /\ {"$host", "$url"} \in SUBSET ToSet(Names) /\ {"$host", "$url", "$path"} \in SUBSET ToSet(Names)
        /\ "$host" \notin {} /\ "$url" \notin {"$host"} /\ "$path" \notin {"$host", "$url"}
        /\ "$origin" \notin {"$host", "$url", "$path"}
        /\ {"$host", "$url", "$path", "$origin"} \subseteq ToSet(Names)
    BY NamesAre
  <1>m. \A M \in SUBSET ToSet(Names), c \in ToSet(Names) :
          c \notin M => Replaced(Collect(Some(M, v), text), <<c>>, v[c]) = Collect(Some(M \union {c}, v), text)
    BY SomeMore
  <1>2. Of(1, v, text) = Collect(Some({"$host"}, v), text)
    <2>1. {} \union {"$host"} = {"$host"}
      OBVIOUS
    <2>2. Replaced(Collect(Some({}, v), text), <<"$host">>, v["$host"]) = Collect(Some({} \union {"$host"}, v), text)
      BY <1>s, <1>m
    <2>3. QED
      BY <1>1, <2>1, <2>2, NamesAre DEF Of
  <1>3. Of(2, v, Of(1, v, text)) = Collect(Some({"$host", "$url"}, v), text)
    <2>1. {"$host"} \union {"$url"} = {"$host", "$url"}
      OBVIOUS
    <2>2. Replaced(Collect(Some({"$host"}, v), text), <<"$url">>, v["$url"])
            = Collect(Some({"$host"} \union {"$url"}, v), text)
      BY <1>s, <1>m
    <2>3. QED
      BY <1>2, <2>1, <2>2, NamesAre DEF Of
  <1>4. Of(3, v, Of(2, v, Of(1, v, text))) = Collect(Some({"$host", "$url", "$path"}, v), text)
    <2>1. {"$host", "$url"} \union {"$path"} = {"$host", "$url", "$path"}
      OBVIOUS
    <2>2. Replaced(Collect(Some({"$host", "$url"}, v), text), <<"$path">>, v["$path"])
            = Collect(Some({"$host", "$url"} \union {"$path"}, v), text)
      BY <1>s, <1>m
    <2>3. QED
      BY <1>3, <2>1, <2>2, NamesAre DEF Of
  <1>5. substitute_variables(text, v) = Collect(Some(ToSet(Names), v), text)
    <2>1. {"$host", "$url", "$path"} \union {"$origin"} = ToSet(Names)
      BY NamesAre
    <2>2. Replaced(Collect(Some({"$host", "$url", "$path"}, v), text), <<"$origin">>, v["$origin"])
            = Collect(Some({"$host", "$url", "$path"} \union {"$origin"}, v), text)
      BY <1>s, <1>m
    <2>3. QED
      BY <1>4, <2>1, <2>2, NamesAre DEF Of, substitute_variables
  <1>6. Some(ToSet(Names), v) \in Lister(Chars, Plain)
    <2>1. \A x \in Chars : x \notin ToSet(Names) => <<x>> \in Seq(Plain)
      BY DEF Plain
    <2>2. QED
      BY <2>1 DEF Some, Lister, Valuation
  <1>7. QED
    BY <1>5, <1>6, CollectTyped

-----------------------------------------------------------------------------
\* A job as RewrittenAsRuled has it.
After(text, i) == \E j \in 1 .. i - 1 : text[j] \in ToSet(Names) /\ \A k \in j + 1 .. i : text[k] \in Word

Valued(job, u) ==
  FlattenSeq([i \in DOMAIN job.replacement |->
    IF job.dynamic /\ ~job.trivial
    THEN IF job.replacement[i] \in ToSet(Names) THEN FilterVariables(u)[job.replacement[i]]
         ELSE <<job.replacement[i]>>
    ELSE IF job.replacement[i] \in ToSet(Names) \/ After(job.replacement, i) THEN <<>>
         ELSE <<job.replacement[i]>>])

\* A character is in a group as a name or after one.
LEMMA InGroupIs ==
  ASSUME NEW text, NEW i \in Nat \ {0}
  PROVE  InGroup(text, i) <=> text[i] \in ToSet(Names) \/ After(text, i)
  <1>1. ASSUME InGroup(text, i) PROVE text[i] \in ToSet(Names) \/ After(text, i)
    <2>1. PICK j \in 1 .. i : text[j] \in ToSet(Names) /\ \A k \in j + 1 .. i : text[k] \in Word
      BY <1>1 DEF InGroup
    <2>2. j = i \/ j \in 1 .. i - 1
      OBVIOUS
    <2>3. QED
      BY <2>1, <2>2 DEF After
  <1>2. ASSUME After(text, i) PROVE InGroup(text, i)
    <2>1. PICK j \in 1 .. i - 1 : text[j] \in ToSet(Names) /\ \A k \in j + 1 .. i : text[k] \in Word
      BY <1>2 DEF After
    <2>2. j \in 1 .. i
      OBVIOUS
    <2>3. QED
      BY <2>1, <2>2 DEF InGroup
  <1>3. ASSUME text[i] \in ToSet(Names) PROVE InGroup(text, i)
    <2>1. i \in 1 .. i /\ \A k \in i + 1 .. i : FALSE
      OBVIOUS
    <2>2. QED
      BY <1>3, <2>1 DEF InGroup
  <1>4. QED
    BY <1>1, <1>2, <1>3

\* What a job is applied with is what RewrittenAsRuled has it stand for.
LEMMA ValuedIs ==
  ASSUME NEW job \in JobType, NEW u \in UrlType, NoNames(u)
  PROVE  /\ Valued(job, u) = Expanded(IF job.dynamic /\ ~job.trivial
                                      THEN substitute_variables(job.replacement, FilterVariables(u))
                                      ELSE job.replacement)
         /\ Valued(job, u) \in Seq(Chars)
  <1> DEFINE text == job.replacement
             v == FilterVariables(u)
             D == job.dynamic /\ ~job.trivial
             ss == [i \in DOMAIN text |->
                      IF D THEN IF text[i] \in ToSet(Names) THEN v[text[i]] ELSE <<text[i]>>
                      ELSE IF text[i] \in ToSet(Names) \/ After(text, i) THEN <<>> ELSE <<text[i]>>]
  <1>1. text \in Seq(Chars)
    BY DEF JobType
  <1>2. Valued(job, u) = FlattenSeq(ss)
    BY DEF Valued
  <1>3. Valuation(v)
    BY VariablesTyped
  <1> HIDE DEF text, v
  <1>4. Len(text) \in Nat /\ DOMAIN text = 1 .. Len(text) /\ \A i \in DOMAIN text : text[i] \in Chars /\ i \in Nat \ {0}
    BY <1>1
  <1>5. CASE D
    <2>1. \A i \in DOMAIN text : ss[i] = Some(ToSet(Names), v)[text[i]]
      BY <1>4, <1>5 DEF Some
    <2> DEFINE tt == [i \in DOMAIN text |-> Some(ToSet(Names), v)[text[i]]]
    <2>2. ss = tt
      BY <2>1
    <2>3. FlattenSeq(tt) = Collect(Some(ToSet(Names), v), text)
      BY DEF Collect
    <2>4. substitute_variables(text, v) = Collect(Some(ToSet(Names), v), text) /\ substitute_variables(text, v) \in Seq(Plain)
      BY <1>1, <1>3, SubstitutedIs
    <2>5. Expanded(substitute_variables(text, v)) = substitute_variables(text, v)
      BY <2>4, ExpandedPlain DEF Plain
    <2> HIDE DEF ss, tt
    <2>6. Valued(job, u) = Expanded(substitute_variables(text, v)) /\ Valued(job, u) \in Seq(Chars)
      BY <1>2, <2>2, <2>3, <2>4, <2>5, PlainChars
    <2>7. QED
      BY <1>5, <2>6 DEF text, v
  <1>6. CASE ~D
    <2>1. \A i \in DOMAIN text : ss[i] = OutOf(text, i)
      BY <1>4, <1>6, InGroupIs DEF OutOf
    <2> DEFINE tt == [i \in DOMAIN text |-> OutOf(text, i)]
    <2>2. ss = tt
      BY <2>1
    <2> HIDE DEF ss
    <2>3. Expanded(text) = FlattenSeq(tt) /\ Expanded(text) \in Seq(Chars)
      BY <1>1, ExpandedIs
    <2> HIDE DEF tt
    <2>4. Valued(job, u) = Expanded(text) /\ Valued(job, u) \in Seq(Chars)
      BY <1>2, <2>2, <2>3
    <2>5. QED
      BY <1>6, <2>4 DEF text
  <1>7. QED
    BY <1>5, <1>6

\* A job rewrites a text as it is meant to.
LEMMA ApplyJobIs ==
  ASSUME NEW job \in JobType, NEW d \in BOOLEAN, job.dynamic => d, NEW text \in Seq(Chars),
         NEW u \in UrlType, NoNames(u)
  PROVE  /\ ApplyJob(job, text, d, FilterVariables(u)) = Rewritten(text, job.text, Valued(job, u))
         /\ Rewritten(text, job.text, Valued(job, u)) \in Seq(Chars)
  <1>1. job.text \in Seq(Chars) /\ job.text # <<>>
    BY DEF JobType
  <1>2. Valued(job, u) \in Seq(Chars)
    BY ValuedIs
  <1>3. ApplyJob(job, text, d, FilterVariables(u)) = Replaced(text, job.text, Valued(job, u))
    <2>1. (d /\ job.dynamic /\ ~job.trivial) = (job.dynamic /\ ~job.trivial)
      BY DEF JobType
    <2>2. QED
      BY <2>1, ValuedIs DEF ApplyJob
  <1>4. QED
    BY <1>1, <1>2, <1>3, ReplacedIs

-----------------------------------------------------------------------------
\* What steps over a sequence come to.
Steps(z, F, a, A, s) == \E f \in [0 .. Len(s) -> A] : Comes(f, F, a, s) /\ z = f[Len(s)]

\* The steps over a longer sequence are those over a shorter one and one more.
LEMMA StepsUnique ==
  ASSUME NEW A, NEW B, NEW F \in Stepper(A, B), NEW a \in A, NEW s \in Seq(B), NEW e,
         NEW f, Comes(f, F, a, Append(s, e)), NEW g, Comes(g, F, a, s)
  PROVE  f[Len(s)] = g[Len(s)] /\ f[Len(s) + 1] = F[<<f[Len(s)], e>>]
  <1> DEFINE n == Len(s)
             t == Append(s, e)
  <1>1. n \in Nat /\ Len(t) = n + 1 /\ t[n + 1] = e /\ \A i \in 1 .. n : t[i] = s[i]
    OBVIOUS
  <1>2. /\ f[0] = a /\ \A i \in 1 .. n + 1 : f[i] = F[<<f[i - 1], t[i]>>]
        /\ g[0] = a /\ \A i \in 1 .. n : g[i] = F[<<g[i - 1], s[i]>>]
    <2> HIDE DEF t
    <2>1. Comes(f, F, a, t) /\ Comes(g, F, a, s)
      BY DEF t
    <2>2. QED
      BY <1>1, <2>1 DEF Comes
  <1> HIDE DEF n, t
  <1> DEFINE L == {i \in Nat : i <= n => f[i] = g[i]}
  <1>3. 0 \in L
    BY <1>2
  <1>4. ASSUME NEW i \in Nat, i \in L PROVE i + 1 \in L
    <2> SUFFICES ASSUME i + 1 <= n PROVE f[i + 1] = g[i + 1]
      OBVIOUS
    <2>1. i + 1 \in 1 .. n /\ i + 1 \in 1 .. n + 1 /\ (i + 1) - 1 = i /\ i <= n
      BY <1>1
    <2>2. f[i] = g[i]
      BY <1>4, <2>1
    <2>3. QED
      BY <1>1, <1>2, <2>1, <2>2
  <1>5. Nat \subseteq L
    <2> HIDE DEF L
    <2>1. QED
      BY <1>3, <1>4, Induction
  <1>6. f[n] = g[n]
    BY <1>1, <1>5
  <1>7. n + 1 \in 1 .. n + 1 /\ (n + 1) - 1 = n
    BY <1>1
  <1>8. f[n + 1] = F[<<f[n], e>>]
    BY <1>1, <1>2, <1>7
  <1>9. QED
    BY <1>6, <1>8 DEF n

\* One step more.
LEMMA StepsAppend ==
  ASSUME NEW A, NEW B, NEW F \in Stepper(A, B), NEW a \in A, NEW s \in Seq(B), NEW e \in B,
         NEW z, Steps(z, F, a, A, s), NEW w, Steps(w, F, a, A, Append(s, e))
  PROVE  z \in A /\ w = F[<<z, e>>]
  <1>1. PICK g \in [0 .. Len(s) -> A] : Comes(g, F, a, s) /\ z = g[Len(s)]
    BY DEF Steps
  <1>2. Len(Append(s, e)) = Len(s) + 1 /\ Len(s) \in Nat
    OBVIOUS
  <1>3. PICK f \in [0 .. Len(s) + 1 -> A] : Comes(f, F, a, Append(s, e)) /\ w = f[Len(s) + 1]
    BY <1>2 DEF Steps
  <1>4. f[Len(s)] = g[Len(s)] /\ f[Len(s) + 1] = F[<<f[Len(s)], e>>]
    BY <1>1, <1>3, StepsUnique
  <1>5. z \in A
    BY <1>1, <1>2
  <1>6. QED
    BY <1>1, <1>3, <1>4, <1>5

\* No step at all.
LEMMA StepsEmpty ==
  ASSUME NEW z, NEW F, NEW a, NEW A
  PROVE  Steps(z, F, a, A, <<>>) => z = a
  <1>1. Len(<<>>) = 0
    OBVIOUS
  <1>2. QED
    BY <1>1 DEF Steps, Comes

\* They come to something.
LEMMA StepsThere ==
  ASSUME NEW A, NEW B, NEW F \in Stepper(A, B), NEW a \in A, NEW s \in Seq(B)
  PROVE  \E z \in A : Steps(z, F, a, A, s)
  <1>1. PICK f \in [0 .. Len(s) -> A] : Comes(f, F, a, s)
    BY StepsExist DEF Comes
  <1>2. f[Len(s)] \in A
    OBVIOUS
  <1>3. QED
    BY <1>1, <1>2 DEF Steps

\* They come to one thing only.
LEMMA StepsSame ==
  ASSUME NEW A, NEW B, NEW F \in Stepper(A, B), NEW a \in A, NEW s \in Seq(B),
         NEW z, Steps(z, F, a, A, s), NEW w, Steps(w, F, a, A, s)
  PROVE  z = w /\ z \in A
  <1> DEFINE S == {u \in Seq(B) : \A x, y : Steps(x, F, a, A, u) /\ Steps(y, F, a, A, u) => x = y}
  <1>1. <<>> \in S
    BY StepsEmpty
  <1>2. \A u \in Seq(B), e \in B : u \in S => Append(u, e) \in S
    <2> SUFFICES ASSUME NEW u \in Seq(B), NEW e \in B, NEW x, NEW y,
                        Steps(x, F, a, A, Append(u, e)), Steps(y, F, a, A, Append(u, e))
                 PROVE  x = y
      OBVIOUS
    <2>1. PICK v \in A : Steps(v, F, a, A, u)
      BY StepsThere
    <2>2. x = F[<<v, e>>]
      BY <2>1, StepsAppend
    <2>3. y = F[<<v, e>>]
      BY <2>1, StepsAppend
    <2>4. QED
      BY <2>2, <2>3
  <1>3. Seq(B) \subseteq S
    <2> HIDE DEF S
    <2>1. QED
      BY <1>1, <1>2, SeqInduction
  <1>4. z = w
    BY <1>3
  <1>5. z \in A
    BY DEF Steps
  <1>6. QED
    BY <1>4, <1>5

\* Steps that add what g makes of each element collect it.
LEMMA StepsCollect ==
  ASSUME NEW T, NEW U, NEW g \in Lister(U, T), NEW F \in Stepper(Seq(T), U),
         \A x \in Seq(T), y \in U : F[<<x, y>>] = x \o g[y],
         NEW s \in Seq(U), NEW z, Steps(z, F, <<>>, Seq(T), s)
  PROVE  z = Collect(g, s)
  <1> DEFINE A == Seq(T)
             S == {u \in Seq(U) : \A x : Steps(x, F, <<>>, A, u) => x = Collect(g, u)}
  <1>0. <<>> \in A /\ F \in Stepper(A, U)
    OBVIOUS
  <1>1. <<>> \in S
    BY StepsEmpty, CollectEmpty
  <1>2. \A u \in Seq(U), e \in U : u \in S => Append(u, e) \in S
    <2> SUFFICES ASSUME NEW u \in Seq(U), NEW e \in U, u \in S, NEW x, Steps(x, F, <<>>, A, Append(u, e))
                 PROVE  x = Collect(g, Append(u, e))
      OBVIOUS
    <2> HIDE DEF A
    <2>1. PICK v \in A : Steps(v, F, <<>>, A, u)
      BY <1>0, StepsThere
    <2>2. x = F[<<v, e>>]
      BY <1>0, <2>1, StepsAppend
    <2>3. v = Collect(g, u)
      BY <2>1
    <2>4. Collect(g, Append(u, e)) = Collect(g, u) \o g[e]
      BY CollectAppend
    <2>5. F[<<v, e>>] = v \o g[e]
      BY <2>1 DEF A
    <2>6. QED
      BY <2>2, <2>3, <2>4, <2>5
  <1>3. Seq(U) \subseteq S
    <2> HIDE DEF S
    <2>1. QED
      BY <1>1, <1>2, SeqInduction
  <1>4. QED
    BY <1>3

-----------------------------------------------------------------------------
\* The folds over jobs, filters and names.
Texts == Seq(Chars)
GoodFilter == {f \in FilterType : f.dynamic = \E j \in ToSet(f.jobs) : j.dynamic}
KindOf(d) == {j \in JobType : j.dynamic => d}

\* ByJobs for any request.
JobsBy(u, text, jobs) == FoldLeft(LAMBDA t, j : Rewritten(t, j.text, Valued(j, u)), text, jobs)
JobStep(u, B) == [p \in Texts \X B |-> Rewritten(p[1], p[2].text, Valued(p[2], u))]

\* A job makes a text of a text.
LEMMA JobTyped ==
  ASSUME NEW u \in UrlType, NoNames(u), NEW x \in Texts, NEW y \in JobType
  PROVE  Rewritten(x, y.text, Valued(y, u)) \in Texts
  <1>1. y.dynamic => TRUE
    OBVIOUS
  <1>2. QED
    BY <1>1, ApplyJobIs DEF Texts

\* JobsBy, job by job.
LEMMA JobsBySteps ==
  ASSUME NEW u \in UrlType, NoNames(u), NEW B, B \subseteq JobType, NEW text \in Texts, NEW jobs \in Seq(B)
  PROVE  LET F == JobStep(u, B)
         IN /\ F \in Stepper(Texts, B)
            /\ \A x \in Texts, y \in B : F[<<x, y>>] = Rewritten(x, y.text, Valued(y, u))
            /\ Steps(JobsBy(u, text, jobs), F, text, Texts, jobs)
  <1> DEFINE a == text
             A == Texts
             F == JobStep(u, B)
             s == jobs
             Body(X, S) ==
               IF S = {} THEN a ELSE Rewritten(X[S \ {Max(S)}], s[Max(S)].text, Valued(s[Max(S)], u))
             Z == CHOOSE X : X = [S \in SUBSET DOMAIN s |-> Body(X, S)]
  <1>1. s \in Seq(B) /\ DOMAIN s = 1 .. Len(s) /\ Len(s) \in Nat /\ \A i \in DOMAIN s : s[i] \in B
    OBVIOUS
  <1>2. a \in A
    OBVIOUS
  <1>3. F \in Stepper(A, B) /\ \A x \in A, y \in B : F[<<x, y>>] = Rewritten(x, y.text, Valued(y, u))
    <2>1. ASSUME NEW x \in A, NEW y \in B PROVE Rewritten(x, y.text, Valued(y, u)) \in A
      BY JobTyped
    <2>2. QED
      BY <2>1 DEF Stepper, JobStep
  <1>4. JobsBy(u, text, jobs) = Z[DOMAIN s]
    BY DEF JobsBy, FoldLeft, MapThenFoldSet
  <1> HIDE DEF F, a, s, A
  <1>5. \E X \in [SUBSET DOMAIN s -> A] : Folded(X, F, a, s)
    BY <1>1, <1>2, <1>3, FoldExists
  <1>6. \A S \in SUBSET DOMAIN s :
          S # {} => Max(S) \in DOMAIN s /\ S \ {Max(S)} \in SUBSET DOMAIN s
    BY <1>1, MaxInside
  <1>7. ASSUME NEW X, NEW S \in SUBSET DOMAIN s, S # {}, X[S \ {Max(S)}] \in A
        PROVE  F[<<X[S \ {Max(S)}], s[Max(S)]>>] = Body(X, S)
    <2>1. s[Max(S)] \in B
      BY <1>1, <1>6, <1>7
    <2>2. F[<<X[S \ {Max(S)}], s[Max(S)]>>] = Rewritten(X[S \ {Max(S)}], s[Max(S)].text, Valued(s[Max(S)], u))
      BY <1>3, <1>7, <2>1
    <2>3. QED
      BY <1>7, <2>2
  <1>8. Z = [S \in SUBSET DOMAIN s |-> Body(Z, S)]
    <2>1. PICK X \in [SUBSET DOMAIN s -> A] : Folded(X, F, a, s)
      BY <1>5
    <2>2. \A S \in SUBSET DOMAIN s : X[S] = IF S = {} THEN a ELSE F[<<X[S \ {Max(S)}], s[Max(S)]>>]
      BY <2>1 DEF Folded
    <2>3. \A S \in SUBSET DOMAIN s : S # {} => X[S \ {Max(S)}] \in A
      BY <1>6, <2>1
    <2>4. \A S \in SUBSET DOMAIN s : X[S] = Body(X, S)
      <3> SUFFICES ASSUME NEW S \in SUBSET DOMAIN s PROVE X[S] = Body(X, S)
        OBVIOUS
      <3>1. CASE S = {}
        BY <2>2, <3>1
      <3>2. CASE S # {}
        <4>1. F[<<X[S \ {Max(S)}], s[Max(S)]>>] = Body(X, S)
          BY <1>7, <2>3, <3>2
        <4> HIDE DEF Body
        <4>2. QED
          BY <2>2, <3>2, <4>1
      <3>3. QED
        BY <3>1, <3>2
    <2> HIDE DEF Body
    <2>5. X = [S \in SUBSET DOMAIN s |-> Body(X, S)]
      BY <2>1, <2>4
    <2>6. QED
      BY <2>5
  <1>9. Solves(Z, F, a, A, s)
    <2>1. {} \in SUBSET DOMAIN s /\ Body(Z, {}) = a
      OBVIOUS
    <2>2. Z[{}] = a
      <3> HIDE DEF Body
      <3>1. QED
        BY <1>8, <2>1
    <2>3. \A S \in SUBSET DOMAIN s : Z[S] = Body(Z, S)
      <3> HIDE DEF Body
      <3>1. QED
        BY <1>8
    <2> HIDE DEF Z, Body
    <2>4. QED
      BY <1>7, <2>2, <2>3 DEF Solves
  <1>10. \E f \in [0 .. Len(s) -> A] : Comes(f, F, a, s) /\ Z[DOMAIN s] = f[Len(s)]
    <2> HIDE DEF Z
    <2>1. QED
      BY <1>1, <1>2, <1>3, <1>9, FoldComes
  <1>11. Steps(JobsBy(u, text, jobs), F, a, A, s)
    <2> HIDE DEF Z
    <2>1. QED
      BY <1>4, <1>10 DEF Steps
  <1>12. QED
    BY <1>3, <1>11 DEF F, a, s, A

\* apply, job by job.
LEMMA ApplySteps ==
  ASSUME NEW u \in UrlType, NoNames(u), NEW filter \in GoodFilter, NEW text \in Texts,
         filter.jobs \in Seq(KindOf(filter.dynamic)), filter.dynamic \in BOOLEAN
  PROVE  LET F == [p \in Texts \X KindOf(filter.dynamic) |-> ApplyJob(p[2], p[1], filter.dynamic, FilterVariables(u))]
         IN /\ F \in Stepper(Texts, KindOf(filter.dynamic))
            /\ \A x \in Texts, y \in KindOf(filter.dynamic) : F[<<x, y>>] = ApplyJob(y, x, filter.dynamic, FilterVariables(u))
            /\ Steps(apply(filter, text, FilterVariables(u)), F, text, Texts, filter.jobs)
  <1> DEFINE a == text
             A == Texts
             B == KindOf(filter.dynamic)
             F == [p \in Texts \X KindOf(filter.dynamic) |-> ApplyJob(p[2], p[1], filter.dynamic, FilterVariables(u))]
             s == filter.jobs
             Body(X, S) ==
               IF S = {} THEN a ELSE ApplyJob(s[Max(S)], X[S \ {Max(S)}], filter.dynamic, FilterVariables(u))
             Z == CHOOSE X : X = [S \in SUBSET DOMAIN s |-> Body(X, S)]
  <1>1. s \in Seq(B) /\ DOMAIN s = 1 .. Len(s) /\ Len(s) \in Nat /\ \A i \in DOMAIN s : s[i] \in B
    OBVIOUS
  <1>2. a \in A
    OBVIOUS
  <1>3. F \in Stepper(A, B) /\ \A x \in A, y \in B : F[<<x, y>>] = ApplyJob(y, x, filter.dynamic, FilterVariables(u))
    <2>1. ASSUME NEW x \in A, NEW y \in B PROVE ApplyJob(y, x, filter.dynamic, FilterVariables(u)) \in A
      BY ApplyJobIs DEF Texts, KindOf
    <2>2. QED
      BY <2>1 DEF Stepper
  <1>4. apply(filter, text, FilterVariables(u)) = Z[DOMAIN s]
    BY DEF apply, FoldLeft, MapThenFoldSet
  <1> HIDE DEF F, a, s, A, B
  <1>5. \E X \in [SUBSET DOMAIN s -> A] : Folded(X, F, a, s)
    BY <1>1, <1>2, <1>3, FoldExists
  <1>6. \A S \in SUBSET DOMAIN s :
          S # {} => Max(S) \in DOMAIN s /\ S \ {Max(S)} \in SUBSET DOMAIN s
    BY <1>1, MaxInside
  <1>7. ASSUME NEW X, NEW S \in SUBSET DOMAIN s, S # {}, X[S \ {Max(S)}] \in A
        PROVE  F[<<X[S \ {Max(S)}], s[Max(S)]>>] = Body(X, S)
    <2>1. s[Max(S)] \in B
      BY <1>1, <1>6, <1>7
    <2>2. F[<<X[S \ {Max(S)}], s[Max(S)]>>] = ApplyJob(s[Max(S)], X[S \ {Max(S)}], filter.dynamic, FilterVariables(u))
      BY <1>3, <1>7, <2>1
    <2>3. QED
      BY <1>7, <2>2
  <1>8. Z = [S \in SUBSET DOMAIN s |-> Body(Z, S)]
    <2>1. PICK X \in [SUBSET DOMAIN s -> A] : Folded(X, F, a, s)
      BY <1>5
    <2>2. \A S \in SUBSET DOMAIN s : X[S] = IF S = {} THEN a ELSE F[<<X[S \ {Max(S)}], s[Max(S)]>>]
      BY <2>1 DEF Folded
    <2>3. \A S \in SUBSET DOMAIN s : S # {} => X[S \ {Max(S)}] \in A
      BY <1>6, <2>1
    <2>4. \A S \in SUBSET DOMAIN s : X[S] = Body(X, S)
      <3> SUFFICES ASSUME NEW S \in SUBSET DOMAIN s PROVE X[S] = Body(X, S)
        OBVIOUS
      <3>1. CASE S = {}
        BY <2>2, <3>1
      <3>2. CASE S # {}
        <4>1. F[<<X[S \ {Max(S)}], s[Max(S)]>>] = Body(X, S)
          BY <1>7, <2>3, <3>2
        <4> HIDE DEF Body
        <4>2. QED
          BY <2>2, <3>2, <4>1
      <3>3. QED
        BY <3>1, <3>2
    <2> HIDE DEF Body
    <2>5. X = [S \in SUBSET DOMAIN s |-> Body(X, S)]
      BY <2>1, <2>4
    <2>6. QED
      BY <2>5
  <1>9. Solves(Z, F, a, A, s)
    <2>1. {} \in SUBSET DOMAIN s /\ Body(Z, {}) = a
      OBVIOUS
    <2>2. Z[{}] = a
      <3> HIDE DEF Body
      <3>1. QED
        BY <1>8, <2>1
    <2>3. \A S \in SUBSET DOMAIN s : Z[S] = Body(Z, S)
      <3> HIDE DEF Body
      <3>1. QED
        BY <1>8
    <2> HIDE DEF Z, Body
    <2>4. QED
      BY <1>7, <2>2, <2>3 DEF Solves
  <1>10. \E f \in [0 .. Len(s) -> A] : Comes(f, F, a, s) /\ Z[DOMAIN s] = f[Len(s)]
    <2> HIDE DEF Z
    <2>1. QED
      BY <1>1, <1>2, <1>3, <1>9, FoldComes
  <1>11. Steps(apply(filter, text, FilterVariables(u)), F, a, A, s)
    <2> HIDE DEF Z
    <2>1. QED
      BY <1>4, <1>10 DEF Steps
  <1>12. QED
    BY <1>3, <1>11 DEF F, a, s, A, B

-----------------------------------------------------------------------------
\* Jobs one after the other.
LEMMA JobsByIs ==
  ASSUME NEW u \in UrlType, NoNames(u), NEW text \in Texts
  PROVE  /\ JobsBy(u, text, <<>>) = text
         /\ \A jobs \in Seq(JobType) :
              /\ JobsBy(u, text, jobs) \in Texts
              /\ \A job \in JobType :
                   JobsBy(u, text, Append(jobs, job))
                     = Rewritten(JobsBy(u, text, jobs), job.text, Valued(job, u))
  <1> DEFINE F == JobStep(u, JobType)
  <1>1. F \in Stepper(Texts, JobType)
        /\ \A x \in Texts, y \in JobType : F[<<x, y>>] = Rewritten(x, y.text, Valued(y, u))
    <2>1. <<>> \in Seq(JobType)
      OBVIOUS
    <2>2. QED
      BY <2>1, JobsBySteps
  <1>2. \A jobs \in Seq(JobType) : Steps(JobsBy(u, text, jobs), F, text, Texts, jobs)
    BY JobsBySteps
  <1> HIDE DEF F
  <1>3. JobsBy(u, text, <<>>) = text
    <2>1. <<>> \in Seq(JobType)
      OBVIOUS
    <2>2. QED
      BY <1>2, <2>1, StepsEmpty
  <1>4. \A jobs \in Seq(JobType) : JobsBy(u, text, jobs) \in Texts
    BY <1>1, <1>2, StepsSame
  <1>5. ASSUME NEW jobs \in Seq(JobType), NEW job \in JobType
        PROVE  JobsBy(u, text, Append(jobs, job))
                 = Rewritten(JobsBy(u, text, jobs), job.text, Valued(job, u))
    <2>1. Append(jobs, job) \in Seq(JobType)
      OBVIOUS
    <2>2. Steps(JobsBy(u, text, jobs), F, text, Texts, jobs)
          /\ Steps(JobsBy(u, text, Append(jobs, job)), F, text, Texts, Append(jobs, job))
      BY <1>2, <2>1
    <2>3. JobsBy(u, text, Append(jobs, job)) = F[<<JobsBy(u, text, jobs), job>>]
      BY <1>1, <2>2, StepsAppend
    <2>4. QED
      BY <1>1, <1>4, <2>3
  <1>6. QED
    BY <1>3, <1>4, <1>5

\* Jobs and then other jobs are both lists in one.
LEMMA JobsByConcat ==
  ASSUME NEW u \in UrlType, NoNames(u), NEW text \in Texts, NEW js \in Seq(JobType), NEW ks \in Seq(JobType)
  PROVE  JobsBy(u, text, js \o ks) = JobsBy(u, JobsBy(u, text, js), ks)
  <1> DEFINE S == {l \in Seq(JobType) : JobsBy(u, text, js \o l) = JobsBy(u, JobsBy(u, text, js), l)}
  <1>0. \A t \in Texts :
          /\ JobsBy(u, t, <<>>) = t
          /\ \A jobs \in Seq(JobType) :
                /\ JobsBy(u, t, jobs) \in Texts
                /\ \A job \in JobType :
                     JobsBy(u, t, Append(jobs, job)) = Rewritten(JobsBy(u, t, jobs), job.text, Valued(job, u))
    BY JobsByIs
  <1>a. JobsBy(u, text, js) \in Texts
    BY <1>0
  <1>1. <<>> \in S
    <2>1. js \o <<>> = js /\ <<>> \in Seq(JobType)
      OBVIOUS
    <2>2. JobsBy(u, JobsBy(u, text, js), <<>>) = JobsBy(u, text, js)
      BY <1>0, <1>a
    <2>3. QED
      BY <2>1, <2>2
  <1>2. \A l \in Seq(JobType), e \in JobType : l \in S => Append(l, e) \in S
    <2> SUFFICES ASSUME NEW l \in Seq(JobType), NEW e \in JobType,
                        JobsBy(u, text, js \o l) = JobsBy(u, JobsBy(u, text, js), l)
                 PROVE  JobsBy(u, text, js \o Append(l, e)) = JobsBy(u, JobsBy(u, text, js), Append(l, e))
      OBVIOUS
    <2>1. js \o Append(l, e) = Append(js \o l, e) /\ js \o l \in Seq(JobType)
      OBVIOUS
    <2>2. JobsBy(u, text, Append(js \o l, e)) = Rewritten(JobsBy(u, text, js \o l), e.text, Valued(e, u))
      BY <1>0, <2>1
    <2>3. JobsBy(u, JobsBy(u, text, js), Append(l, e))
            = Rewritten(JobsBy(u, JobsBy(u, text, js), l), e.text, Valued(e, u))
      BY <1>0, <1>a
    <2>4. QED
      BY <2>1, <2>2, <2>3
  <1>3. Seq(JobType) \subseteq S
    <2> HIDE DEF S
    <2>1. QED
      BY <1>1, <1>2, SeqInduction
  <1>4. QED
    BY <1>3

\* A filter is its jobs: its dynamic flag tells whether one of them is dynamic.
LEMMA ApplyIs ==
  ASSUME NEW u \in UrlType, NoNames(u), NEW filter \in GoodFilter, NEW text \in Texts
  PROVE  /\ apply(filter, text, FilterVariables(u)) = JobsBy(u, text, filter.jobs)
         /\ filter.jobs \in Seq(JobType)
  <1> DEFINE d == filter.dynamic
             B == KindOf(d)
             F == [p \in Texts \X B |-> ApplyJob(p[2], p[1], d, FilterVariables(u))]
  <1>1. /\ filter.jobs \in Seq(JobType) /\ d \in BOOLEAN
        /\ d = \E j \in ToSet(filter.jobs) : j.dynamic
    BY DEF GoodFilter, FilterType
  <1>2. B \subseteq JobType
    BY DEF KindOf
  <1>3. filter.jobs \in Seq(B)
    <2>1. \A i \in 1 .. Len(filter.jobs) : filter.jobs[i] \in JobType /\ filter.jobs[i] \in ToSet(filter.jobs)
      BY <1>1 DEF ToSet
    <2>2. \A i \in 1 .. Len(filter.jobs) : filter.jobs[i] \in B
      BY <1>1, <2>1 DEF KindOf
    <2>3. \A jobs \in Seq(JobType) : (\A i \in 1 .. Len(jobs) : jobs[i] \in B) => jobs \in Seq(B)
      OBVIOUS
    <2> HIDE DEF B
    <2>4. QED
      BY <1>1, <2>2, <2>3
  <1> HIDE DEF B, d
  <1>4. /\ F \in Stepper(Texts, B) /\ \A x \in Texts, y \in B : F[<<x, y>>] = ApplyJob(y, x, d, FilterVariables(u))
        /\ Steps(apply(filter, text, FilterVariables(u)), F, text, Texts, filter.jobs)
    BY <1>1, <1>3, ApplySteps DEF B, d
  <1>5. /\ JobStep(u, B) \in Stepper(Texts, B)
        /\ \A x \in Texts, y \in B : JobStep(u, B)[<<x, y>>] = Rewritten(x, y.text, Valued(y, u))
        /\ Steps(JobsBy(u, text, filter.jobs), JobStep(u, B), text, Texts, filter.jobs)
    BY <1>2, <1>3, JobsBySteps
  <1>6. JobStep(u, B) = F
    <2>1. \A x \in Texts, y \in B : ApplyJob(y, x, d, FilterVariables(u)) = Rewritten(x, y.text, Valued(y, u))
      BY <1>1, <1>2, ApplyJobIs DEF Texts, B, KindOf
    <2>2. \A p \in Texts \X B : p = <<p[1], p[2]>> /\ p[1] \in Texts /\ p[2] \in B
      OBVIOUS
    <2>3. \A p \in Texts \X B : ApplyJob(p[2], p[1], d, FilterVariables(u)) = Rewritten(p[1], p[2].text, Valued(p[2], u))
      BY <2>1, <2>2
    <2>4. QED
      BY <2>3 DEF JobStep
  <1> HIDE DEF F
  <1>7. apply(filter, text, FilterVariables(u)) = JobsBy(u, text, filter.jobs)
    BY <1>3, <1>4, <1>5, <1>6, StepsSame
  <1>8. QED
    BY <1>1, <1>7

-----------------------------------------------------------------------------
\* The filters of the Config, by name.
LEMMA GroupedGood ==
  ASSUME NEW lines \in Seq(Seq(Chars))
  PROVE  Grouped(lines) \in Seq(GoodFilter)
  <1>1. /\ Len(lines) \in Nat /\ Len(Pieces(lines)) = Len(lines) /\ Pieces(lines) \in Seq(Seq(FilterType))
        /\ \A i \in 1 .. Len(lines) : Pieces(lines)[i] = Piece(lines, i)
    BY PiecesTyped
  <1>2. ASSUME NEW i \in 1 .. Len(lines), IsHeader(lines[i]) PROVE FilterAt(lines, i) \in GoodFilter
    <2> DEFINE jobs == JobsIn(lines, i, LastOf(lines, i))
               type == Types[lines[i][1]]
    <2>1. lines[i] \in Seq(Chars)
      OBVIOUS
    <2>2. PICK name \in Seq(Chars) : parse_filter_header(lines[i]) = Filter(type, name)
      BY <1>2, <2>1, HeaderTyped
    <2> HIDE DEF jobs, type
    <2>3. FilterAt(lines, i)
            = [type |-> type, name |-> name, jobs |-> jobs, dynamic |-> \E j \in ToSet(jobs) : j.dynamic]
      BY <2>2, FilterAtIs, WithIs DEF jobs
    <2>4. FilterAt(lines, i) \in FilterType
      BY <1>2, FilterAtTyped
    <2>5. FilterAt(lines, i).jobs = jobs /\ FilterAt(lines, i).dynamic = \E j \in ToSet(jobs) : j.dynamic
      BY <2>3
    <2>6. QED
      BY <2>4, <2>5 DEF GoodFilter
  <1>3. \A i \in 1 .. Len(lines) : Piece(lines, i) \in Seq(GoodFilter)
    BY <1>2 DEF Piece
  <1>4. Pieces(lines) \in Seq(Seq(GoodFilter))
    <2>1. Pieces(lines) = [i \in 1 .. Len(lines) |-> Pieces(lines)[i]]
      BY <1>1
    <2> DEFINE ps == Pieces(lines)
    <2>2. ps = [i \in 1 .. Len(lines) |-> ps[i]] /\ \A i \in 1 .. Len(lines) : ps[i] \in Seq(GoodFilter)
      BY <1>1, <1>3, <2>1
    <2> HIDE DEF ps
    <2>3. ps \in Seq(Seq(GoodFilter))
      BY <1>1, <2>2, Listed
    <2>4. QED
      BY <2>3 DEF ps
  <1>5. QED
    BY <1>4, FlattenAppend DEF Grouped

\* find_filter, for any filters.
Same(fs, name, type) == {i \in DOMAIN fs : fs[i].name = name /\ fs[i].type = type}
Finder(fs, type) ==
  [name \in Texts |-> IF Same(fs, name, type) = {} THEN <<>> ELSE <<fs[Min(Same(fs, name, type))]>>]
Jobs == [f \in GoodFilter |-> f.jobs]
Named(fs, type) ==
  [name \in Texts |-> IF Same(fs, name, type) = {} THEN <<>> ELSE fs[Min(Same(fs, name, type))].jobs]

\* The filters of one name and type are some of the filters.
LEMMA SameIs ==
  ASSUME NEW fs \in Seq(GoodFilter), NEW name, NEW type, Same(fs, name, type) # {}
  PROVE  fs[Min(Same(fs, name, type))] \in GoodFilter
  <1> DEFINE S == Same(fs, name, type)
  <1>1. S \subseteq Nat /\ \A i \in S : i \in 1 .. Len(fs)
    BY DEF Same
  <1> HIDE DEF S
  <1>2. Min(S) \in S
    BY <1>1, MinIs DEF S
  <1>3. Min(S) \in 1 .. Len(fs)
    BY <1>1, <1>2
  <1>4. fs[Min(S)] \in GoodFilter
    BY <1>3
  <1>5. QED
    BY <1>4 DEF S

\* The jobs of a filter are jobs.
LEMMA JobsAre == Jobs \in Lister(GoodFilter, JobType)
  <1>1. \A f \in GoodFilter : f.jobs \in Seq(JobType)
    BY DEF GoodFilter, FilterType
  <1>2. QED
    BY <1>1 DEF Jobs, Lister

\* The filter that is found has the jobs of the name.
LEMMA NamedIs ==
  ASSUME NEW fs \in Seq(GoodFilter), NEW type
  PROVE  /\ Finder(fs, type) \in Lister(Texts, GoodFilter) /\ Named(fs, type) \in Lister(Texts, JobType)
         /\ \A name \in Texts : Collect(Jobs, Finder(fs, type)[name]) = Named(fs, type)[name]
  <1>1. \A name \in Texts : Same(fs, name, type) # {} => fs[Min(Same(fs, name, type))] \in GoodFilter
    BY SameIs
  <1>2. \A f \in GoodFilter : <<f>> \in Seq(GoodFilter) /\ f.jobs \in Seq(JobType)
    <2>1. \A f \in GoodFilter : f.jobs \in Seq(JobType)
      BY DEF GoodFilter, FilterType
    <2>2. \A f \in GoodFilter : <<f>> \in Seq(GoodFilter)
      OBVIOUS
    <2>3. QED
      BY <2>1, <2>2
  <1>3. <<>> \in Seq(GoodFilter) /\ <<>> \in Seq(JobType)
    OBVIOUS
  <1>4. Finder(fs, type) \in Lister(Texts, GoodFilter)
    <2>1. \A name \in Texts :
            (IF Same(fs, name, type) = {} THEN <<>> ELSE <<fs[Min(Same(fs, name, type))]>>) \in Seq(GoodFilter)
      BY <1>1, <1>2, <1>3
    <2>2. QED
      BY <2>1 DEF Finder, Lister
  <1>5. Named(fs, type) \in Lister(Texts, JobType)
    <2>1. \A name \in Texts :
            (IF Same(fs, name, type) = {} THEN <<>> ELSE fs[Min(Same(fs, name, type))].jobs) \in Seq(JobType)
      BY <1>1, <1>2, <1>3
    <2>2. QED
      BY <2>1 DEF Named, Lister
  <1>6. ASSUME NEW name \in Texts PROVE Collect(Jobs, Finder(fs, type)[name]) = Named(fs, type)[name]
    <2>1. CASE Same(fs, name, type) = {}
      <3>1. Finder(fs, type)[name] = <<>> /\ Named(fs, type)[name] = <<>>
        BY <2>1 DEF Finder, Named
      <3>2. QED
        BY <3>1, CollectEmpty
    <2>2. CASE Same(fs, name, type) # {}
      <3> DEFINE f == fs[Min(Same(fs, name, type))]
      <3>1. Finder(fs, type)[name] = <<f>> /\ Named(fs, type)[name] = f.jobs
        BY <2>2 DEF Finder, Named
      <3>2. f \in GoodFilter
        BY <1>1, <2>2
      <3> HIDE DEF f
      <3>3. Collect(Jobs, <<f>>) = Jobs[f]
        BY <3>2, JobsAre, CollectOne
      <3>4. Jobs[f] = f.jobs
        BY <3>2 DEF Jobs
      <3>5. QED
        BY <3>1, <3>3, <3>4
    <2>3. QED
      BY <2>1, <2>2
  <1>7. QED
    BY <1>4, <1>5, <1>6

\* find_filter, in terms of the filters of the Config.
LEMMA FindIs ==
  ASSUME NEW name \in Texts, NEW type
  PROVE  find_filter(name, type) = Finder(filters, type)[name] /\ JobsNamed(name, type) = Named(filters, type)[name]
  BY DEF find_filter, JobsNamed, Finder, Named, Same

-----------------------------------------------------------------------------
\* The filters that a rule names, and what they do to a body.

\* Found, name by name.
LEMMA FoundSteps ==
  ASSUME NEW r, NEW type, r[type] \in Seq(Texts), filters \in Seq(GoodFilter)
  PROVE  LET F == [p \in Seq(GoodFilter) \X Texts |-> p[1] \o find_filter(p[2], type)]
         IN /\ F \in Stepper(Seq(GoodFilter), Texts)
            /\ \A x \in Seq(GoodFilter), y \in Texts : F[<<x, y>>] = x \o find_filter(y, type)
            /\ Steps(Found(r, type), F, <<>>, Seq(GoodFilter), r[type])
  <1> DEFINE a == <<>>
             A == Seq(GoodFilter)
             B == Texts
             F == [p \in Seq(GoodFilter) \X Texts |-> p[1] \o find_filter(p[2], type)]
             s == r[type]
             Body(X, S) ==
               IF S = {} THEN a ELSE X[S \ {Max(S)}] \o find_filter(s[Max(S)], type)
             Z == CHOOSE X : X = [S \in SUBSET DOMAIN s |-> Body(X, S)]
  <1>1. s \in Seq(B) /\ DOMAIN s = 1 .. Len(s) /\ Len(s) \in Nat /\ \A i \in DOMAIN s : s[i] \in B
    OBVIOUS
  <1>2. a \in A
    OBVIOUS
  <1>3. F \in Stepper(A, B) /\ \A x \in A, y \in B : F[<<x, y>>] = x \o find_filter(y, type)
    <2>1. ASSUME NEW x \in A, NEW y \in B PROVE x \o find_filter(y, type) \in A
      <3>1. find_filter(y, type) \in Seq(GoodFilter)
        <4>1. Finder(filters, type) \in Lister(Texts, GoodFilter)
          BY NamedIs
        <4>2. QED
          BY <4>1, FindIs DEF Lister
      <3>2. QED
        BY <3>1
    <2>2. QED
      BY <2>1 DEF Stepper
  <1>4. Found(r, type) = Z[DOMAIN s]
    BY DEF Found, FoldLeft, MapThenFoldSet
  <1> HIDE DEF F, a, s, A, B
  <1>5. \E X \in [SUBSET DOMAIN s -> A] : Folded(X, F, a, s)
    BY <1>1, <1>2, <1>3, FoldExists
  <1>6. \A S \in SUBSET DOMAIN s :
          S # {} => Max(S) \in DOMAIN s /\ S \ {Max(S)} \in SUBSET DOMAIN s
    BY <1>1, MaxInside
  <1>7. ASSUME NEW X, NEW S \in SUBSET DOMAIN s, S # {}, X[S \ {Max(S)}] \in A
        PROVE  F[<<X[S \ {Max(S)}], s[Max(S)]>>] = Body(X, S)
    <2>1. s[Max(S)] \in B
      BY <1>1, <1>6, <1>7
    <2>2. F[<<X[S \ {Max(S)}], s[Max(S)]>>] = X[S \ {Max(S)}] \o find_filter(s[Max(S)], type)
      BY <1>3, <1>7, <2>1
    <2>3. QED
      BY <1>7, <2>2
  <1>8. Z = [S \in SUBSET DOMAIN s |-> Body(Z, S)]
    <2>1. PICK X \in [SUBSET DOMAIN s -> A] : Folded(X, F, a, s)
      BY <1>5
    <2>2. \A S \in SUBSET DOMAIN s : X[S] = IF S = {} THEN a ELSE F[<<X[S \ {Max(S)}], s[Max(S)]>>]
      BY <2>1 DEF Folded
    <2>3. \A S \in SUBSET DOMAIN s : S # {} => X[S \ {Max(S)}] \in A
      BY <1>6, <2>1
    <2>4. \A S \in SUBSET DOMAIN s : X[S] = Body(X, S)
      <3> SUFFICES ASSUME NEW S \in SUBSET DOMAIN s PROVE X[S] = Body(X, S)
        OBVIOUS
      <3>1. CASE S = {}
        BY <2>2, <3>1
      <3>2. CASE S # {}
        <4>1. F[<<X[S \ {Max(S)}], s[Max(S)]>>] = Body(X, S)
          BY <1>7, <2>3, <3>2
        <4> HIDE DEF Body
        <4>2. QED
          BY <2>2, <3>2, <4>1
      <3>3. QED
        BY <3>1, <3>2
    <2> HIDE DEF Body
    <2>5. X = [S \in SUBSET DOMAIN s |-> Body(X, S)]
      BY <2>1, <2>4
    <2>6. QED
      BY <2>5
  <1>9. Solves(Z, F, a, A, s)
    <2>1. {} \in SUBSET DOMAIN s /\ Body(Z, {}) = a
      OBVIOUS
    <2>2. Z[{}] = a
      <3> HIDE DEF Body
      <3>1. QED
        BY <1>8, <2>1
    <2>3. \A S \in SUBSET DOMAIN s : Z[S] = Body(Z, S)
      <3> HIDE DEF Body
      <3>1. QED
        BY <1>8
    <2> HIDE DEF Z, Body
    <2>4. QED
      BY <1>7, <2>2, <2>3 DEF Solves
  <1>10. \E f \in [0 .. Len(s) -> A] : Comes(f, F, a, s) /\ Z[DOMAIN s] = f[Len(s)]
    <2> HIDE DEF Z
    <2>1. QED
      BY <1>1, <1>2, <1>3, <1>9, FoldComes
  <1>11. Steps(Found(r, type), F, a, A, s)
    <2> HIDE DEF Z
    <2>1. QED
      BY <1>4, <1>10 DEF Steps
  <1>12. QED
    BY <1>3, <1>11 DEF F, a, s, A, B

\* The content filters, filter by filter.
LEMMA ContentSteps ==
  ASSUME url \in UrlType, NoNames(url), NEW body \in Texts, Found(rule, "content") \in Seq(GoodFilter)
  PROVE  LET F == [p \in Texts \X GoodFilter |-> apply(p[2], p[1], FilterVariables(url))]
         IN /\ F \in Stepper(Texts, GoodFilter)
            /\ \A x \in Texts, y \in GoodFilter : F[<<x, y>>] = apply(y, x, FilterVariables(url))
            /\ Steps(apply_content_filters(body), F, body, Texts, Found(rule, "content"))
  <1> DEFINE a == body
             A == Texts
             B == GoodFilter
             F == [p \in Texts \X GoodFilter |-> apply(p[2], p[1], FilterVariables(url))]
             s == Found(rule, "content")
             Body(X, S) ==
               IF S = {} THEN a ELSE apply(s[Max(S)], X[S \ {Max(S)}], FilterVariables(url))
             Z == CHOOSE X : X = [S \in SUBSET DOMAIN s |-> Body(X, S)]
  <1>1. s \in Seq(B) /\ DOMAIN s = 1 .. Len(s) /\ Len(s) \in Nat /\ \A i \in DOMAIN s : s[i] \in B
    OBVIOUS
  <1>2. a \in A
    OBVIOUS
  <1>3. F \in Stepper(A, B) /\ \A x \in A, y \in B : F[<<x, y>>] = apply(y, x, FilterVariables(url))
    <2>1. ASSUME NEW x \in A, NEW y \in B PROVE apply(y, x, FilterVariables(url)) \in A
      <3>1. apply(y, x, FilterVariables(url)) = JobsBy(url, x, y.jobs) /\ y.jobs \in Seq(JobType)
        BY ApplyIs
      <3>2. QED
        BY <3>1, JobsByIs
    <2>2. QED
      BY <2>1 DEF Stepper
  <1>4. apply_content_filters(body) = Z[DOMAIN s]
    BY DEF apply_content_filters, FoldLeft, MapThenFoldSet
  <1> HIDE DEF F, a, s, A, B
  <1>5. \E X \in [SUBSET DOMAIN s -> A] : Folded(X, F, a, s)
    BY <1>1, <1>2, <1>3, FoldExists
  <1>6. \A S \in SUBSET DOMAIN s :
          S # {} => Max(S) \in DOMAIN s /\ S \ {Max(S)} \in SUBSET DOMAIN s
    BY <1>1, MaxInside
  <1>7. ASSUME NEW X, NEW S \in SUBSET DOMAIN s, S # {}, X[S \ {Max(S)}] \in A
        PROVE  F[<<X[S \ {Max(S)}], s[Max(S)]>>] = Body(X, S)
    <2>1. s[Max(S)] \in B
      BY <1>1, <1>6, <1>7
    <2>2. F[<<X[S \ {Max(S)}], s[Max(S)]>>] = apply(s[Max(S)], X[S \ {Max(S)}], FilterVariables(url))
      BY <1>3, <1>7, <2>1
    <2>3. QED
      BY <1>7, <2>2
  <1>8. Z = [S \in SUBSET DOMAIN s |-> Body(Z, S)]
    <2>1. PICK X \in [SUBSET DOMAIN s -> A] : Folded(X, F, a, s)
      BY <1>5
    <2>2. \A S \in SUBSET DOMAIN s : X[S] = IF S = {} THEN a ELSE F[<<X[S \ {Max(S)}], s[Max(S)]>>]
      BY <2>1 DEF Folded
    <2>3. \A S \in SUBSET DOMAIN s : S # {} => X[S \ {Max(S)}] \in A
      BY <1>6, <2>1
    <2>4. \A S \in SUBSET DOMAIN s : X[S] = Body(X, S)
      <3> SUFFICES ASSUME NEW S \in SUBSET DOMAIN s PROVE X[S] = Body(X, S)
        OBVIOUS
      <3>1. CASE S = {}
        BY <2>2, <3>1
      <3>2. CASE S # {}
        <4>1. F[<<X[S \ {Max(S)}], s[Max(S)]>>] = Body(X, S)
          BY <1>7, <2>3, <3>2
        <4> HIDE DEF Body
        <4>2. QED
          BY <2>2, <3>2, <4>1
      <3>3. QED
        BY <3>1, <3>2
    <2> HIDE DEF Body
    <2>5. X = [S \in SUBSET DOMAIN s |-> Body(X, S)]
      BY <2>1, <2>4
    <2>6. QED
      BY <2>5
  <1>9. Solves(Z, F, a, A, s)
    <2>1. {} \in SUBSET DOMAIN s /\ Body(Z, {}) = a
      OBVIOUS
    <2>2. Z[{}] = a
      <3> HIDE DEF Body
      <3>1. QED
        BY <1>8, <2>1
    <2>3. \A S \in SUBSET DOMAIN s : Z[S] = Body(Z, S)
      <3> HIDE DEF Body
      <3>1. QED
        BY <1>8
    <2> HIDE DEF Z, Body
    <2>4. QED
      BY <1>7, <2>2, <2>3 DEF Solves
  <1>10. \E f \in [0 .. Len(s) -> A] : Comes(f, F, a, s) /\ Z[DOMAIN s] = f[Len(s)]
    <2> HIDE DEF Z
    <2>1. QED
      BY <1>1, <1>2, <1>3, <1>9, FoldComes
  <1>11. Steps(apply_content_filters(body), F, a, A, s)
    <2> HIDE DEF Z
    <2>1. QED
      BY <1>4, <1>10 DEF Steps
  <1>12. QED
    BY <1>3, <1>11 DEF F, a, s, A, B

\* The filters that a rule names have the jobs of their names, in the rule's order.
LEMMA FoundIs ==
  ASSUME NEW r, NEW type, r[type] \in Seq(Texts), filters \in Seq(GoodFilter)
  PROVE  /\ Found(r, type) = Collect(Finder(filters, type), r[type])
         /\ Found(r, type) \in Seq(GoodFilter)
  <1> DEFINE A == Seq(GoodFilter)
             F == [p \in A \X Texts |-> p[1] \o find_filter(p[2], type)]
             g == Finder(filters, type)
  <1>1. /\ F \in Stepper(A, Texts) /\ \A x \in A, y \in Texts : F[<<x, y>>] = x \o find_filter(y, type)
        /\ Steps(Found(r, type), F, <<>>, A, r[type])
    BY FoundSteps
  <1>2. g \in Lister(Texts, GoodFilter)
    BY NamedIs
  <1>3. \A x \in A, y \in Texts : F[<<x, y>>] = x \o g[y]
    BY <1>1, FindIs
  <1> HIDE DEF F, g
  <1>4. Found(r, type) = Collect(g, r[type])
    BY <1>1, <1>2, <1>3, StepsCollect
  <1>5. Collect(g, r[type]) \in Seq(GoodFilter)
    BY <1>2, CollectTyped
  <1>6. QED
    BY <1>4, <1>5 DEF g

\* Filter after filter is job after job.
LEMMA FiltersInTurn ==
  ASSUME NEW u \in UrlType, NoNames(u), NEW body \in Texts, NEW F \in Stepper(Texts, GoodFilter),
         \A x \in Texts, y \in GoodFilter : F[<<x, y>>] = JobsBy(u, x, y.jobs),
         NEW fs \in Seq(GoodFilter), NEW z, Steps(z, F, body, Texts, fs)
  PROVE  z = JobsBy(u, body, Collect(Jobs, fs))
  <1> DEFINE S == {l \in Seq(GoodFilter) :
                     \A x : Steps(x, F, body, Texts, l) => x = JobsBy(u, body, Collect(Jobs, l))}
  <1>1. <<>> \in S
    <2>1. \A x : Steps(x, F, body, Texts, <<>>) => x = body
      BY StepsEmpty
    <2>2. Collect(Jobs, <<>>) = <<>>
      BY CollectEmpty
    <2>3. JobsBy(u, body, <<>>) = body
      BY JobsByIs
    <2>4. QED
      BY <2>1, <2>2, <2>3
  <1>2. \A l \in Seq(GoodFilter), e \in GoodFilter : l \in S => Append(l, e) \in S
    <2> SUFFICES ASSUME NEW l \in Seq(GoodFilter), NEW e \in GoodFilter, l \in S, NEW x,
                        Steps(x, F, body, Texts, Append(l, e))
                 PROVE  x = JobsBy(u, body, Collect(Jobs, Append(l, e)))
      OBVIOUS
    <2>1. PICK v \in Texts : Steps(v, F, body, Texts, l)
      BY StepsThere
    <2>2. x = F[<<v, e>>]
      BY <2>1, StepsAppend
    <2>3. v = JobsBy(u, body, Collect(Jobs, l))
      BY <2>1
    <2>4. F[<<v, e>>] = JobsBy(u, v, e.jobs)
      BY <2>1
    <2>5. Collect(Jobs, Append(l, e)) = Collect(Jobs, l) \o Jobs[e] /\ Collect(Jobs, l) \in Seq(JobType)
      BY JobsAre, CollectAppend, CollectTyped
    <2>6. Jobs[e] = e.jobs /\ e.jobs \in Seq(JobType)
      BY DEF Jobs, GoodFilter, FilterType
    <2>7. JobsBy(u, body, Collect(Jobs, l) \o e.jobs) = JobsBy(u, JobsBy(u, body, Collect(Jobs, l)), e.jobs)
      BY <2>5, <2>6, JobsByConcat
    <2>8. QED
      BY <2>2, <2>3, <2>4, <2>5, <2>6, <2>7
  <1>3. Seq(GoodFilter) \subseteq S
    <2> HIDE DEF S
    <2>1. QED
      BY <1>1, <1>2, SeqInduction
  <1>4. QED
    BY <1>3

\* The content filters do what the jobs of their names do.
LEMMA ContentIs ==
  ASSUME url \in UrlType, NoNames(url), NEW body \in Texts, rule["content"] \in Seq(Texts),
         filters \in Seq(GoodFilter)
  PROVE  apply_content_filters(body)
           = JobsBy(url, body, Collect(Named(filters, "content"), rule["content"]))
  <1> DEFINE F == [p \in Texts \X GoodFilter |-> apply(p[2], p[1], FilterVariables(url))]
             fs == Found(rule, "content")
             g == Finder(filters, "content")
             names == rule["content"]
  <1>1. fs = Collect(g, names) /\ fs \in Seq(GoodFilter)
    BY FoundIs
  <1>2. /\ F \in Stepper(Texts, GoodFilter)
        /\ \A x \in Texts, y \in GoodFilter : F[<<x, y>>] = apply(y, x, FilterVariables(url))
        /\ Steps(apply_content_filters(body), F, body, Texts, fs)
    BY <1>1, ContentSteps
  <1> HIDE DEF F, fs
  <1>3. \A x \in Texts, y \in GoodFilter : F[<<x, y>>] = JobsBy(url, x, y.jobs)
    BY <1>2, ApplyIs
  <1>4. apply_content_filters(body) = JobsBy(url, body, Collect(Jobs, fs))
    BY <1>1, <1>2, <1>3, FiltersInTurn
  <1>5. /\ g \in Lister(Texts, GoodFilter)
        /\ \A name \in Texts : Collect(Jobs, g[name]) = Named(filters, "content")[name]
    BY NamedIs
  <1> HIDE DEF g
  <1>6. Collect(Jobs, Collect(g, names)) = Collect([x \in Texts |-> Collect(Jobs, g[x])], names)
    <2> HIDE DEF names
    <2>1. names \in Seq(Texts)
      BY DEF names
    <2>2. QED
      BY <1>5, <2>1, JobsAre, CollectTwice
  <1>7. [x \in Texts |-> Collect(Jobs, g[x])] = Named(filters, "content")
    BY <1>5 DEF Named
  <1>8. QED
    BY <1>1, <1>4, <1>6, <1>7

-----------------------------------------------------------------------------
\* The tags.
LEMMA ToSetConcat ==
  ASSUME NEW T, NEW s \in Seq(T), NEW t \in Seq(T)
  PROVE  ToSet(s \o t) = ToSet(s) \union ToSet(t)
  <1>1. /\ Len(s) \in Nat /\ Len(t) \in Nat /\ DOMAIN s = 1 .. Len(s) /\ DOMAIN t = 1 .. Len(t)
        /\ DOMAIN (s \o t) = 1 .. Len(s) + Len(t)
        /\ \A i \in 1 .. Len(s) : (s \o t)[i] = s[i]
        /\ \A i \in 1 .. Len(t) : (s \o t)[Len(s) + i] = t[i]
    OBVIOUS
  <1> DEFINE st == s \o t
  <1> HIDE DEF st
  <1>2. ASSUME NEW x \in ToSet(st) PROVE x \in ToSet(s) \union ToSet(t)
    <2>1. PICK i \in 1 .. Len(s) + Len(t) : x = st[i]
      BY <1>1 DEF ToSet, st
    <2>2. CASE i \in 1 .. Len(s)
      BY <1>1, <2>1, <2>2 DEF ToSet, st
    <2>3. CASE i \notin 1 .. Len(s)
      <3>1. i - Len(s) \in 1 .. Len(t) /\ Len(s) + (i - Len(s)) = i
        BY <1>1, <2>3
      <3>2. x = t[i - Len(s)]
        BY <1>1, <2>1, <3>1 DEF st
      <3>3. QED
        BY <1>1, <3>1, <3>2 DEF ToSet
    <2>4. QED
      BY <2>2, <2>3
  <1>3. ASSUME NEW x \in ToSet(s) PROVE x \in ToSet(st)
    <2>1. PICK i \in 1 .. Len(s) : x = s[i]
      BY <1>1 DEF ToSet
    <2>2. i \in 1 .. Len(s) + Len(t) /\ x = st[i]
      BY <1>1, <2>1 DEF st
    <2>3. QED
      BY <1>1, <2>2 DEF ToSet, st
  <1>4. ASSUME NEW x \in ToSet(t) PROVE x \in ToSet(st)
    <2>1. PICK i \in 1 .. Len(t) : x = t[i]
      BY <1>1 DEF ToSet
    <2>2. Len(s) + i \in 1 .. Len(s) + Len(t) /\ x = st[Len(s) + i]
      BY <1>1, <2>1 DEF st
    <2>3. QED
      BY <1>1, <2>2 DEF ToSet, st
  <1>5. QED
    BY <1>2, <1>3, <1>4 DEF st

\* The set of one element, and of none.
LEMMA ToSetOne == \A x : ToSet(<<x>>) = {x} /\ ToSet(<<>>) = {}
  <1> SUFFICES ASSUME NEW x PROVE ToSet(<<x>>) = {x} /\ ToSet(<<>>) = {}
    OBVIOUS
  <1>1. DOMAIN <<x>> = {1} /\ <<x>>[1] = x /\ DOMAIN <<>> = {}
    OBVIOUS
  <1>2. QED
    BY <1>1 DEF ToSet

\* The elements of what is made of each element.
LEMMA CollectSet ==
  ASSUME NEW T, NEW U, NEW g \in Lister(U, T), NEW s \in Seq(U)
  PROVE  ToSet(Collect(g, s)) = UNION {ToSet(g[x]) : x \in ToSet(s)}
  <1> DEFINE S == {u \in Seq(U) : ToSet(Collect(g, u)) = UNION {ToSet(g[x]) : x \in ToSet(u)}}
  <1>1. <<>> \in S
    BY CollectEmpty, ToSetOne
  <1>2. \A u \in Seq(U), e \in U : u \in S => Append(u, e) \in S
    <2> SUFFICES ASSUME NEW u \in Seq(U), NEW e \in U, ToSet(Collect(g, u)) = UNION {ToSet(g[x]) : x \in ToSet(u)}
                 PROVE  ToSet(Collect(g, Append(u, e))) = UNION {ToSet(g[x]) : x \in ToSet(Append(u, e))}
      OBVIOUS
    <2>1. Collect(g, Append(u, e)) = Collect(g, u) \o g[e] /\ Collect(g, u) \in Seq(T)
      BY CollectAppend, CollectTyped
    <2>2. g[e] \in Seq(T)
      BY DEF Lister
    <2>3. ToSet(Collect(g, u) \o g[e]) = ToSet(Collect(g, u)) \union ToSet(g[e])
      BY <2>1, <2>2, ToSetConcat
    <2>4. Append(u, e) = u \o <<e>>
      OBVIOUS
    <2>5. ToSet(Append(u, e)) = ToSet(u) \union {e}
      BY <2>4, ToSetAppend
    <2>6. QED
      BY <2>1, <2>3, <2>5
  <1>3. Seq(U) \subseteq S
    <2> HIDE DEF S
    <2>1. QED
      BY <1>1, <1>2, SeqInduction
  <1>4. QED
    BY <1>3

\* TagsFrom for any filters and any request.
TagsBy(fs, u, names, type, lines) ==
  UNION {{JobsBy(u, line, Named(fs, type)[name])} \ {line, <<>>} : line \in lines, name \in ToSet(names)}

\* The tags of a rule are what its jobs make of the lines.
LEMMA TagsIs ==
  ASSUME NEW u \in UrlType, NoNames(u), filters \in Seq(GoodFilter), NEW r, NEW type,
         r[type] \in Seq(Texts), NEW lines \in Seq(Texts)
  PROVE  TagsOf(r, type, lines, u) = TagsBy(filters, u, r[type], type, ToSet(lines))
  <1> DEFINE names == r[type]
             fs == Found(r, type)
             g == Finder(filters, type)
             j == Named(filters, type)
             ByFilter(f, line) == {apply(f, line, FilterVariables(u))} \ {line, <<>>}
             ByName(line, name) == {JobsBy(u, line, j[name])} \ {line, <<>>}
             L == ToSet(lines)
  <1>1. fs = Collect(g, names) /\ fs \in Seq(GoodFilter) /\ g \in Lister(Texts, GoodFilter)
    BY FoundIs, NamedIs
  <1>2. ToSet(fs) = UNION {ToSet(g[x]) : x \in ToSet(names)}
    BY <1>1, CollectSet
  <1>3. \A name \in ToSet(names) : name \in Texts
    BY DEF ToSet
  <1>4. \A line \in ToSet(lines) : line \in Texts
    BY DEF ToSet
  <1>5. \A f \in ToSet(fs) : f \in GoodFilter
    <2> HIDE DEF fs
    <2>1. QED
      BY <1>1 DEF ToSet
  <1>6. \A name \in Texts : \/ g[name] = <<>> /\ j[name] = <<>>
                            \/ \E f \in GoodFilter : g[name] = <<f>> /\ j[name] = f.jobs
    <2> SUFFICES ASSUME NEW name \in Texts
                 PROVE  \/ g[name] = <<>> /\ j[name] = <<>>
                        \/ \E f \in GoodFilter : g[name] = <<f>> /\ j[name] = f.jobs
      OBVIOUS
    <2>1. CASE Same(filters, name, type) = {}
      BY <2>1 DEF Finder, Named
    <2>2. CASE Same(filters, name, type) # {}
      BY <2>2, SameIs DEF Finder, Named
    <2>3. QED
      BY <2>1, <2>2
  <1>7. \A f \in GoodFilter, line \in Texts : apply(f, line, FilterVariables(u)) = JobsBy(u, line, f.jobs)
    BY ApplyIs
  <1>8. \A line \in Texts : JobsBy(u, line, <<>>) = line
    BY JobsByIs
  <1>9. TagsOf(r, type, lines, u) = UNION {ByFilter(f, line) : f \in ToSet(fs), line \in L}
    BY DEF TagsOf, apply_tagger
  <1>10. TagsBy(filters, u, names, type, L) = UNION {ByName(line, name) : line \in L, name \in ToSet(names)}
    BY DEF TagsBy
  <1> HIDE DEF fs, g, j
  <1>11. ASSUME NEW tag, NEW f \in ToSet(fs), NEW line \in L,
                tag \in ByFilter(f, line)
         PROVE  \E name \in ToSet(names) : tag \in ByName(line, name)
    <2>1. PICK name \in ToSet(names) : f \in ToSet(g[name])
      BY <1>2, <1>11
    <2>2. name \in Texts /\ g[name] # <<>>
      BY <1>3, <2>1, ToSetOne
    <2>3. PICK e \in GoodFilter : g[name] = <<e>> /\ j[name] = e.jobs
      BY <1>6, <2>2
    <2>4. f = e
      BY <2>1, <2>3, ToSetOne
    <2>5. apply(f, line, FilterVariables(u)) = JobsBy(u, line, j[name])
      BY <1>4, <1>7, <2>3, <2>4
    <2>6. QED
      BY <1>11, <2>5
  <1>12. ASSUME NEW tag, NEW line \in L, NEW name \in ToSet(names),
                tag \in ByName(line, name)
         PROVE  \E f \in ToSet(fs) : tag \in ByFilter(f, line)
    <2>1. name \in Texts /\ line \in Texts
      BY <1>3, <1>4
    <2>2. j[name] # <<>>
      BY <1>8, <1>12, <2>1
    <2>3. PICK e \in GoodFilter : g[name] = <<e>> /\ j[name] = e.jobs
      BY <1>6, <2>1, <2>2
    <2>4. e \in ToSet(fs)
      <3>1. e \in ToSet(g[name])
        BY <2>3, ToSetOne
      <3>2. ToSet(g[name]) \subseteq UNION {ToSet(g[x]) : x \in ToSet(names)}
        OBVIOUS
      <3>3. QED
        BY <1>2, <3>1, <3>2
    <2>5. apply(e, line, FilterVariables(u)) = JobsBy(u, line, j[name])
      BY <1>7, <2>1, <2>3
    <2>6. QED
      BY <1>12, <2>4, <2>5
  <1> HIDE DEF ByFilter, ByName, L, names
  <1>13. ASSUME NEW tag, tag \in TagsOf(r, type, lines, u)
         PROVE  tag \in TagsBy(filters, u, names, type, L)
    <2>1. PICK f \in ToSet(fs), line \in L : tag \in ByFilter(f, line)
      BY <1>9, <1>13
    <2>2. PICK name \in ToSet(names) : tag \in ByName(line, name)
      BY <1>11, <2>1
    <2>3. ByName(line, name) \in {ByName(l, m) : l \in L, m \in ToSet(names)}
      OBVIOUS
    <2>4. QED
      BY <1>10, <2>2, <2>3
  <1>14. ASSUME NEW tag, tag \in TagsBy(filters, u, names, type, L)
         PROVE  tag \in TagsOf(r, type, lines, u)
    <2>1. PICK line \in L, name \in ToSet(names) : tag \in ByName(line, name)
      BY <1>10, <1>14
    <2>2. PICK f \in ToSet(fs) : tag \in ByFilter(f, line)
      BY <1>12, <2>1
    <2>3. ByFilter(f, line) \in {ByFilter(e, l) : e \in ToSet(fs), l \in L}
      OBVIOUS
    <2>4. QED
      BY <1>9, <2>2, <2>3
  <1>15. TagsOf(r, type, lines, u) = TagsBy(filters, u, names, type, L)
    BY <1>13, <1>14
  <1>16. QED
    BY <1>15 DEF L, names

\* The terms of RewrittenAsRuled, for the request of the exchange.
LEMMA ByJobsIs ==
  ASSUME NEW text, NEW jobs
  PROVE  ByJobs(text, jobs) = JobsBy(url, text, jobs)
  BY DEF ByJobs, JobsBy, ValueOf, Valued, After, FoldLeft, MapThenFoldSet

-----------------------------------------------------------------------------
\* The state of an exchange.
RuleTypes == {"content", "client-header-tagger", "server-header-tagger"}
TagsAsked ==
  TagsBy(filters, url, rule["client-header-tagger"], "client-header-tagger", ToSet(request))
TagsAnswered ==
  TagsBy(filters, url, rule["server-header-tagger"], "server-header-tagger", ToSet(answer.headers))

Exchanged ==
  /\ stage \in {"response", "done"} =>
       /\ url \in UrlType /\ rule \in [RuleTypes -> Seq(Texts)] /\ request \in Seq(Texts)
       /\ NoNames(url) /\ stage = "response" => tags = TagsAsked
  /\ stage = "done" =>
       /\ answer \in [headers : Seq(Texts), body : Texts, text : BOOLEAN]
       /\ NoNames(url) =>
            /\ tags = TagsAsked \union TagsAnswered
            /\ delivered = IF answer.text
                           THEN JobsBy(url, answer.body, Collect(Named(filters, "content"), rule["content"]))
                           ELSE answer.body

IInv == FilesRead /\ Exchanged

\* The requests, the rules and the answers are as FiltersAssumption says.
LEMMA InputsTyped ==
  /\ \A u \in Urls : u \in UrlType
  /\ \A r \in Rules : r \in [RuleTypes -> Seq(Texts)]
  /\ \A h \in Requests : h \in Seq(Texts)
  /\ \A a \in Answers : a \in [headers : Seq(Texts), body : Texts, text : BOOLEAN]
  <1>1. \A s \in Seq(STRING) : s \in Texts
    BY CharsHold DEF Texts
  <1>2. \A s \in Seq(Seq(STRING)) : s \in Seq(Texts)
    BY <1>1
  <1>3. \A u \in Urls : u \in UrlType
    BY <1>1, FiltersAssumption DEF UrlType, Texts
  <1>4. \A r \in Rules : r \in [RuleTypes -> Seq(Texts)]
    <2>1. \A r \in Rules : r \in [RuleTypes -> Seq(Seq(STRING))]
      BY FiltersAssumption DEF RuleTypes
    <2>2. QED
      BY <1>2, <2>1
  <1>5. \A h \in Requests : h \in Seq(Texts)
    BY <1>2, FiltersAssumption
  <1>6. \A a \in Answers : a \in [headers : Seq(Texts), body : Texts, text : BOOLEAN]
    BY <1>1, <1>2, FiltersAssumption
  <1>7. QED
    BY <1>3, <1>4, <1>5, <1>6

\* The filters of the Config are dynamic if one of their jobs is.
LEMMA FiltersGood == FilesRead /\ stage # "files" => filters \in Seq(GoodFilter)
  <1> SUFFICES ASSUME FilesRead, stage # "files" PROVE filters \in Seq(GoodFilter)
    OBVIOUS
  <1>1. files \in Seq(Seq(Lines)) /\ Len(files) = 2 /\ filters = FiltersOf(files[1]) \o FiltersOf(files[2])
    BY DEF FilesRead
  <1>2. files[1] \in Seq(Seq(Chars)) /\ files[2] \in Seq(Seq(Chars))
    <2>1. files[1] \in Seq(Lines) /\ files[2] \in Seq(Lines)
      <3>1. 1 \in 1 .. Len(files) /\ 2 \in 1 .. Len(files)
        BY <1>1
      <3>2. \A i \in 1 .. Len(files) : files[i] \in Seq(Lines)
        <4>1. files \in Seq(Seq(Lines))
          BY <1>1
        <4>2. QED
          BY <4>1
      <3>3. QED
        BY <3>1, <3>2
    <2>2. QED
      BY <2>1, LinesTyped
  <1>3. \A file \in Seq(Seq(Chars)) : FiltersOf(file) \in Seq(GoodFilter)
    <2> SUFFICES ASSUME NEW file \in Seq(Seq(Chars)) PROVE FiltersOf(file) \in Seq(GoodFilter)
      OBVIOUS
    <2>1. FiltersOf(file) = Grouped(Contents(file)) /\ Contents(file) \in Seq(Seq(Chars))
      BY FiltersOfIs
    <2>2. QED
      BY <2>1, GroupedGood
  <1>4. QED
    BY <1>1, <1>2, <1>3

\* A request leaves the tags that its rule asks for.
LEMMA AskKeeps ==
  ASSUME IInv, NEW u \in Urls, NEW r \in Rules, NEW h \in Requests, Ask(u, r, h)
  PROVE  Exchanged'
  <1>1. /\ stage = "request" /\ stage' = "response" /\ url' = u /\ rule' = r /\ request' = h
        /\ tags' = TagsOf(r, "client-header-tagger", h, u) /\ filters' = filters
    BY DEF Ask
  <1>2. u \in UrlType /\ r \in [RuleTypes -> Seq(Texts)] /\ h \in Seq(Texts)
    BY InputsTyped
  <1>3. filters \in Seq(GoodFilter)
    BY <1>1, FiltersGood DEF IInv
  <1>4. r["client-header-tagger"] \in Seq(Texts)
    BY <1>2 DEF RuleTypes
  <1>5. NoNames(u) => TagsOf(r, "client-header-tagger", h, u)
          = TagsBy(filters, u, r["client-header-tagger"], "client-header-tagger", ToSet(h))
    BY <1>2, <1>3, <1>4, TagsIs
  <1>6. QED
    BY <1>1, <1>2, <1>5 DEF Exchanged, TagsAsked

\* An answer adds its tags, and its body is the rewritten one.
LEMMA AnswerKeeps ==
  ASSUME IInv, NEW a \in Answers, Answer(a)
  PROVE  Exchanged'
  <1>1. /\ stage = "response" /\ stage' = "done" /\ answer' = a
        /\ tags' = tags \union TagsOf(rule, "server-header-tagger", a.headers, url)
        /\ delivered' = IF a.text THEN apply_content_filters(a.body) ELSE a.body
        /\ url' = url /\ rule' = rule /\ request' = request /\ filters' = filters
    BY DEF Answer
  <1>2. /\ url \in UrlType /\ rule \in [RuleTypes -> Seq(Texts)] /\ request \in Seq(Texts)
        /\ NoNames(url) => tags = TagsAsked
    BY <1>1 DEF IInv, Exchanged
  <1>3. a \in [headers : Seq(Texts), body : Texts, text : BOOLEAN]
    BY InputsTyped
  <1>4. filters \in Seq(GoodFilter)
    BY <1>1, FiltersGood DEF IInv
  <1>5. rule["server-header-tagger"] \in Seq(Texts) /\ rule["content"] \in Seq(Texts)
    BY <1>2 DEF RuleTypes
  <1>6. a.headers \in Seq(Texts) /\ a.body \in Texts
    BY <1>3
  <1>7. ASSUME NoNames(url)
        PROVE  /\ TagsOf(rule, "server-header-tagger", a.headers, url)
                    = TagsBy(filters, url, rule["server-header-tagger"], "server-header-tagger", ToSet(a.headers))
               /\ apply_content_filters(a.body)
                    = JobsBy(url, a.body, Collect(Named(filters, "content"), rule["content"]))
    <2>1. TagsOf(rule, "server-header-tagger", a.headers, url)
            = TagsBy(filters, url, rule["server-header-tagger"], "server-header-tagger", ToSet(a.headers))
      BY <1>2, <1>4, <1>5, <1>6, <1>7, TagsIs
    <2>2. apply_content_filters(a.body)
            = JobsBy(url, a.body, Collect(Named(filters, "content"), rule["content"]))
      BY <1>2, <1>4, <1>5, <1>6, <1>7, ContentIs
    <2>3. QED
      BY <2>1, <2>2
  <1>8. TagsAsked' = TagsAsked
    BY <1>1 DEF TagsAsked
  <1>9. TagsAnswered'
          = TagsBy(filters, url, rule["server-header-tagger"], "server-header-tagger", ToSet(a.headers))
    BY <1>1 DEF TagsAnswered
  <1>10. NoNames(url) => tags' = TagsAsked' \union TagsAnswered'
    BY <1>1, <1>2, <1>7, <1>8, <1>9
  <1>11. NoNames(url) => delivered' = IF a.text
           THEN JobsBy(url, a.body, Collect(Named(filters, "content"), rule["content"])) ELSE a.body
    BY <1>1, <1>7
  <1>12. QED
    BY <1>1, <1>2, <1>3, <1>10, <1>11 DEF Exchanged

\* Every step keeps the invariant.
LEMMA IInvStep == IInv /\ [Next]_vars => IInv'
  <1> SUFFICES ASSUME IInv, [Next]_vars PROVE IInv'
    OBVIOUS
  <1>1. FilesRead'
    BY FilesReadStep DEF IInv
  <1>2. ASSUME NEW line \in Lines, ReadLine(line)
        PROVE  Exchanged'
    <2>1. stage = "files" /\ stage' = stage
      BY <1>2 DEF ReadLine
    <2>2. QED
      BY <2>1 DEF Exchanged
  <1>3. ASSUME EndOfFile
        PROVE  Exchanged'
    <2>1. stage' \in {"files", "request"}
      BY <1>3 DEF EndOfFile
    <2>2. QED
      BY <2>1 DEF Exchanged
  <1>4. ASSUME UNCHANGED vars
        PROVE  Exchanged'
    BY <1>4 DEF IInv, vars, Exchanged, TagsAsked, TagsAnswered
  <1>5. Exchanged'
    BY <1>2, <1>3, <1>4, AskKeeps, AnswerKeeps DEF Next
  <1>6. QED
    BY <1>1, <1>5 DEF IInv

\* It says what RewrittenAsRuled says.
LEMMA IInvRules == IInv => RewrittenAsRuled
  <1> SUFFICES ASSUME IInv, stage = "done", NoNames(url)
               PROVE  /\ delivered = IF answer.text
                                     THEN ByJobs(answer.body, FlattenSeq([i \in DOMAIN rule["content"] |->
                                                   JobsNamed(rule["content"][i], "content")]))
                                     ELSE answer.body
                      /\ tags = TagsFrom("client-header-tagger", ToSet(request))
                                  \union TagsFrom("server-header-tagger", ToSet(answer.headers))
    BY DEF RewrittenAsRuled, NoNames
  <1>1. /\ rule \in [RuleTypes -> Seq(Texts)]
        /\ tags = TagsAsked \union TagsAnswered
        /\ delivered = IF answer.text
                       THEN JobsBy(url, answer.body, Collect(Named(filters, "content"), rule["content"]))
                       ELSE answer.body
    BY DEF IInv, Exchanged
  <1>2. \A type \in RuleTypes : \A i \in DOMAIN rule[type] : rule[type][i] \in Texts
    BY <1>1
  <1>3. FlattenSeq([i \in DOMAIN rule["content"] |-> JobsNamed(rule["content"][i], "content")])
          = Collect(Named(filters, "content"), rule["content"])
    <2>1. "content" \in RuleTypes
      BY DEF RuleTypes
    <2>2. \A i \in DOMAIN rule["content"] :
            JobsNamed(rule["content"][i], "content") = Named(filters, "content")[rule["content"][i]]
      BY <1>2, <2>1, FindIs
    <2>3. [i \in DOMAIN rule["content"] |-> JobsNamed(rule["content"][i], "content")]
            = [i \in DOMAIN rule["content"] |-> Named(filters, "content")[rule["content"][i]]]
      BY <2>2
    <2>4. QED
      BY <2>3 DEF Collect
  <1>4. ASSUME NEW type \in RuleTypes, NEW lines
        PROVE  TagsFrom(type, lines) = TagsBy(filters, url, rule[type], type, lines)
    <2>1. \A name \in ToSet(rule[type]) : JobsNamed(name, type) = Named(filters, type)[name]
      BY <1>2, FindIs DEF ToSet
    <2>2. \A line, jobs : ByJobs(line, jobs) = JobsBy(url, line, jobs)
      BY ByJobsIs
    <2> DEFINE E(line, name) == {ByJobs(line, JobsNamed(name, type))} \ {line, <<>>}
               G(line, name) == {JobsBy(url, line, Named(filters, type)[name])} \ {line, <<>>}
               N == ToSet(rule[type])
    <2>3. \A line \in lines, name \in N : E(line, name) = G(line, name)
      BY <2>1, <2>2
    <2>4. /\ TagsFrom(type, lines) = UNION {E(line, name) : line \in lines, name \in N}
          /\ TagsBy(filters, url, rule[type], type, lines) = UNION {G(line, name) : line \in lines, name \in N}
      BY DEF TagsFrom, TagsBy
    <2> HIDE DEF E, G, N
    <2>5. {E(line, name) : line \in lines, name \in N} = {G(line, name) : line \in lines, name \in N}
      BY <2>3
    <2>6. QED
      BY <2>4, <2>5
  <1>5. /\ TagsFrom("client-header-tagger", ToSet(request)) = TagsAsked
        /\ TagsFrom("server-header-tagger", ToSet(answer.headers)) = TagsAnswered
    BY <1>4 DEF RuleTypes, TagsAsked, TagsAnswered
  <1>6. QED
    BY <1>1, <1>3, <1>5, ByJobsIs

\* A client is sent its body, and an exchange its tags, as the rule's filters
\* have it: the jobs of src/src/filter.rs one after the other, in the order and
\* with the names that src/src/action.rs and src/src/connection.rs give them.
THEOREM RewritesHold == Spec => []RewrittenAsRuled
  <1>1. Init => IInv
    <2>1. Init => Exchanged
      BY DEF Init, Exchanged
    <2>2. QED
      BY <2>1, FilesReadStart DEF IInv
  <1>2. QED
    BY <1>1, IInvStep, IInvRules, PTL DEF Spec

=============================================================================
