------------------------------- MODULE CgiProofs -------------------------------
(* Proofs about CgiPages and ActionsEditor, the two halves of the CGI handler.  *)
(* Of the pages for any number of connections, any templates, settings and      *)
(* requests: that a page counts its own request, and that it is what its author *)
(* meant.  Of the editor for any sessions and any actions files: that it        *)
(* implements RuleList.                                                         *)
(*                                                                              *)
(* A loop over a text is a number of turns, each of which shortens the text or  *)
(* leaves it.  A text that makes sense falls into tokens, conditions and blocks *)
(* with such texts in their branches (Sense); what the passes leave of one of   *)
(* them depends on nothing around it (Says), and is what it means.  A page was  *)
(* rendered with the symbols its task read (PageMade).                          *)
(*                                                                              *)
(* What an actions file stands for is an outline, and outlines can be joined as *)
(* files can (OutlineConcat).  An edit cuts a file in front of a line and behind*)
(* it, so that what it does to the outline is read off the parts.               *)
EXTENDS CgiPages, ActionsEditor, SequenceTheorems, WellFoundedInduction, TLAPS
-----------------------------------------------------------------------------
\* A set of numbers that is not empty has a least one.
LEMMA LeastNat ==
  ASSUME NEW S, S \subseteq Nat, S # {}
  PROVE  \E n \in S : \A m \in S : n <= m
<1> DEFINE R == OpToRel(<, Nat)
<1>1. \A m, n \in Nat : m < n => <<m, n>> \in R
  BY DEF OpToRel
<1>2. IsWellFoundedOn(R, Nat)
  BY NatLessThanWellFounded
<1> HIDE DEF R
<1>3. PICK n \in S : \A m \in S : <<m, n>> \notin R
  BY <1>2, WFMin
<1>4. \A m \in S : m \in Nat /\ n \in Nat /\ ~(m < n)
  BY <1>1, <1>3
<1>5. QED
  BY <1>4

\* Induction over the numbers, with a set.
LEMMA Induction ==
  ASSUME NEW S, 0 \in S, \A n \in Nat : n \in S => n + 1 \in S
  PROVE  Nat \subseteq S
<1> SUFFICES ASSUME Nat \ S # {} PROVE FALSE
  OBVIOUS
<1>1. PICK n \in Nat \ S : \A m \in Nat \ S : n <= m
  BY LeastNat
<1>2. n # 0 /\ n - 1 \in Nat /\ n - 1 \in S
  BY <1>1
<1>3. QED
  BY <1>1, <1>2

\* Induction over sequences, with a set.
LEMMA SeqInduction ==
  ASSUME NEW T, NEW S, <<>> \in S, \A s \in Seq(T), e \in T : s \in S => Append(s, e) \in S
  PROVE  Seq(T) \subseteq S
<1> DEFINE L == {n \in Nat : \A s \in Seq(T) : Len(s) = n => s \in S}
<1>1. 0 \in L
  BY EmptySeq
<1>2. ASSUME NEW n \in Nat, n \in L PROVE n + 1 \in L
  <2> SUFFICES ASSUME NEW s \in Seq(T), Len(s) = n + 1 PROVE s \in S
    OBVIOUS
  <2>1. s # <<>>
    OBVIOUS
  <2>2. PICK r \in Seq(T), e \in T : s = Append(r, e)
    BY <2>1, SequenceEmptyOrAppend
  <2>3. Len(r) = n
    BY <2>2
  <2>4. QED
    BY <2>2, <2>3, <1>2
<1>3. Nat \subseteq L
  <2> HIDE DEF L
  <2>1. QED
    BY <1>1, <1>2, Induction
<1>4. ASSUME NEW s \in Seq(T) PROVE s \in S
  <2>1. Len(s) \in Nat
    OBVIOUS
  <2>2. Len(s) \in L
    BY <2>1, <1>3
  <2>3. QED
    BY <2>2
<1>5. QED
  BY <1>4

-----------------------------------------------------------------------------
\* Steps over a sequence that F describes: f[i] is what the first i come to.
Stepper(A, B) == [A \X B -> A]

LEMMA StepsExist ==
  ASSUME NEW A, NEW B, NEW F \in Stepper(A, B), NEW a \in A, NEW s \in Seq(B)
  PROVE  \E f \in [0 .. Len(s) -> A] :
           f[0] = a /\ \A i \in 1 .. Len(s) : f[i] = F[<<f[i - 1], s[i]>>]
<1> DEFINE Runs(f, n) == f[0] = a /\ \A i \in 1 .. n : f[i] = F[<<f[i - 1], s[i]>>]
           S == {n \in Nat : n <= Len(s) => \E f \in [0 .. n -> A] : Runs(f, n)}
<1>a. Len(s) \in Nat /\ \A i \in 1 .. Len(s) : s[i] \in B
  OBVIOUS
<1>b. \A x \in A, y \in B : F[<<x, y>>] \in A
  BY DEF Stepper
<1>1. 0 \in S
  <2> DEFINE f == [i \in 0 .. 0 |-> a]
  <2>1. f \in [0 .. 0 -> A] /\ Runs(f, 0)
    OBVIOUS
  <2>2. QED
    BY <2>1
<1>2. ASSUME NEW n \in Nat, n \in S PROVE n + 1 \in S
  <2> SUFFICES ASSUME n + 1 <= Len(s)
               PROVE  \E g \in [0 .. n + 1 -> A] : Runs(g, n + 1)
    OBVIOUS
  <2>1. PICK f \in [0 .. n -> A] : Runs(f, n)
    BY <1>2, <1>a
  <2> DEFINE new == F[<<f[n], s[n + 1]>>]
             g == [i \in 0 .. n + 1 |-> IF i = n + 1 THEN new ELSE f[i]]
  <2>2. new \in A
    <3>1. f[n] \in A /\ s[n + 1] \in B
      BY <1>a
    <3>2. QED
      BY <3>1, <1>b
  <2> HIDE DEF new
  <2>3. g \in [0 .. n + 1 -> A]
    BY <2>2
  <2>4. g[n + 1] = new /\ \A i \in 0 .. n : g[i] = f[i]
    OBVIOUS
  <2> HIDE DEF g
  <2>5. \A i \in 1 .. n + 1 : g[i] = F[<<g[i - 1], s[i]>>]
    <3>1. \A i \in 1 .. n : g[i] = F[<<g[i - 1], s[i]>>]
      <4>1. \A i \in 1 .. n : i \in 0 .. n /\ i - 1 \in 0 .. n
        OBVIOUS
      <4>2. QED
        BY <2>1, <2>4, <4>1
    <3>2. g[n + 1] = F[<<g[(n + 1) - 1], s[n + 1]>>]
      <4>1. (n + 1) - 1 = n /\ n \in 0 .. n
        OBVIOUS
      <4>2. QED
        BY <2>4, <4>1 DEF new
    <3>3. \A i \in 1 .. n + 1 : i \in 1 .. n \/ i = n + 1
      OBVIOUS
    <3>4. QED
      BY <3>1, <3>2, <3>3
  <2>6. g[0] = a
    BY <2>1, <2>4
  <2>7. QED
    BY <2>3, <2>5, <2>6
<1>3. Nat \subseteq S
  <2> HIDE DEF S
  <2>1. QED
    BY <1>1, <1>2, Induction
<1>4. QED
  BY <1>3, <1>a

\* What a sequence comes to: a at first, then as F says with every element.
Comes(F, a, s, A, f) ==
  /\ f \in [0 .. Len(s) -> A]
  /\ f[0] = a /\ \A i \in 1 .. Len(s) : f[i] = F[<<f[i - 1], s[i]>>]

Total(F, a, s, A) == (CHOOSE f : Comes(F, a, s, A, f))[Len(s)]

\* Whatever goes on as F says comes to the same.
LEMMA SameTotal ==
  ASSUME NEW A, NEW B, NEW F \in Stepper(A, B), NEW a \in A, NEW s \in Seq(B),
         NEW n \in Nat, n <= Len(s), NEW f, Comes(F, a, s, A, f),
         NEW g, g[0] = a,
         \A i \in 1 .. n : g[i - 1] \in A => g[i] = F[<<g[i - 1], s[i]>>]
  PROVE  g[n] = f[n]
<1> DEFINE S == {i \in Nat : i <= n => g[i] = f[i]}
<1>a. Len(s) \in Nat
  OBVIOUS
<1>b. f \in [0 .. Len(s) -> A] /\ f[0] = a /\ \A i \in 1 .. Len(s) : f[i] = F[<<f[i - 1], s[i]>>]
  BY DEF Comes
<1>1. 0 \in S
  BY <1>b
<1>2. ASSUME NEW i \in Nat, i \in S PROVE i + 1 \in S
  <2> SUFFICES ASSUME i + 1 <= n PROVE g[i + 1] = f[i + 1]
    OBVIOUS
  <2>1. g[i] = f[i] /\ i \in 0 .. Len(s)
    BY <1>2, <1>a
  <2>2. g[i] \in A
    BY <2>1, <1>b
  <2>3. i + 1 \in 1 .. n /\ i + 1 \in 1 .. Len(s) /\ (i + 1) - 1 = i
    BY <1>a
  <2>4. g[i + 1] = F[<<g[i], s[i + 1]>>]
    BY <2>2, <2>3
  <2>5. f[i + 1] = F[<<f[i], s[i + 1]>>]
    BY <2>3, <1>b
  <2>6. QED
    BY <2>1, <2>4, <2>5
<1>3. Nat \subseteq S
  <2> HIDE DEF S
  <2>1. QED
    BY <1>1, <1>2, Induction
<1>4. QED
  BY <1>3

LEMMA TotalIs ==
  ASSUME NEW A, NEW B, NEW F \in Stepper(A, B), NEW a \in A, NEW s \in Seq(B)
  PROVE  \E f : Comes(F, a, s, A, f) /\ Total(F, a, s, A) = f[Len(s)]
<1>1. \E f : Comes(F, a, s, A, f)
  BY StepsExist DEF Comes
<1>2. QED
  BY <1>1 DEF Total

\* One element more is one step more.
LEMMA TotalSteps ==
  ASSUME NEW A, NEW B, NEW F \in Stepper(A, B), NEW a \in A
  PROVE  /\ Total(F, a, <<>>, A) = a
         /\ \A s \in Seq(B) : Total(F, a, s, A) \in A
         /\ \A s \in Seq(B), e \in B :
              Total(F, a, Append(s, e), A) = F[<<Total(F, a, s, A), e>>]
<1>1. Total(F, a, <<>>, A) = a
  <2>1. <<>> \in Seq(B) /\ Len(<<>>) = 0
    OBVIOUS
  <2>2. PICK f : Comes(F, a, <<>>, A, f) /\ Total(F, a, <<>>, A) = f[Len(<<>>)]
    BY <2>1, TotalIs
  <2>3. QED
    BY <2>1, <2>2 DEF Comes
<1>2. ASSUME NEW s \in Seq(B) PROVE Total(F, a, s, A) \in A
  <2>1. PICK f : Comes(F, a, s, A, f) /\ Total(F, a, s, A) = f[Len(s)]
    BY TotalIs
  <2>2. Len(s) \in 0 .. Len(s)
    OBVIOUS
  <2>3. QED
    BY <2>1, <2>2 DEF Comes
<1>3. ASSUME NEW s \in Seq(B), NEW e \in B
      PROVE  Total(F, a, Append(s, e), A) = F[<<Total(F, a, s, A), e>>]
  <2> DEFINE t == Append(s, e)
             n == Len(s)
  <2>1. /\ t \in Seq(B) /\ n \in Nat /\ Len(t) = n + 1 /\ t[n + 1] = e
        /\ \A i \in 1 .. n : t[i] = s[i]
    OBVIOUS
  <2>2. PICK f : Comes(F, a, s, A, f) /\ Total(F, a, s, A) = f[n]
    BY TotalIs
  <2> HIDE DEF t
  <2>3. PICK g : Comes(F, a, t, A, g) /\ Total(F, a, t, A) = g[Len(t)]
    BY <2>1, TotalIs
  <2> HIDE DEF n
  <2>4. g[0] = a /\ \A i \in 1 .. n + 1 : g[i] = F[<<g[i - 1], t[i]>>]
    BY <2>1, <2>3 DEF Comes
  <2>5. g[n] = f[n]
    <3>1. \A i \in 1 .. n : g[i] = F[<<g[i - 1], s[i]>>]
      <4>1. \A i \in 1 .. n : i \in 1 .. n + 1
        BY <2>1
      <4>2. QED
        BY <2>1, <2>4, <4>1
    <3>2. n <= Len(s)
      BY <2>1 DEF n
    <3>3. \A i \in 1 .. n : g[i - 1] \in A => g[i] = F[<<g[i - 1], s[i]>>]
      BY <3>1
    <3> HIDE DEF n
    <3>4. /\ Comes(F, a, s, A, f)
          /\ g[0] = a
      BY <2>2, <2>4
    <3>5. QED
      BY <2>1, <3>2, <3>3, <3>4, SameTotal
  <2>6. n + 1 \in 1 .. n + 1 /\ (n + 1) - 1 = n
    BY <2>1
  <2>7. g[n + 1] = F[<<g[n], e>>]
    BY <2>1, <2>4, <2>6
  <2>8. QED
    BY <2>1, <2>2, <2>3, <2>5, <2>7 DEF t
<1>4. QED
  BY <1>1, <1>2, <1>3

LEMMA ConcatAppend ==
  ASSUME NEW T, NEW s \in Seq(T), NEW t \in Seq(T), NEW e \in T
  PROVE  s \o Append(t, e) = Append(s \o t, e)
<1>1. <<e>> \in Seq(T) /\ s \o t \in Seq(T)
  OBVIOUS
<1>2. s \o (t \o <<e>>) = (s \o t) \o <<e>>
  BY <1>1, ConcatAssociative
<1>3. QED
  BY <1>1, <1>2, AppendIsConcat

\* The least of a set of numbers is one of them.
LEMMA MinIs ==
  ASSUME NEW S, S \subseteq Nat, S # {}
  PROVE  Min(S) \in S /\ \A m \in S : Min(S) <= m
  <1>1. \E n \in S : \A m \in S : n <= m
    BY LeastNat
  <1>2. QED
    BY <1>1 DEF Min

\* So is the greatest of numbers that are bounded.
LEMMA MaxIs ==
  ASSUME NEW n \in Nat, NEW S, S \subseteq 0 .. n, S # {}
  PROVE  Max(S) \in S /\ \A m \in S : m <= Max(S)
  <1> DEFINE D == {n - m : m \in S}
  <1>1. D \subseteq Nat /\ D # {}
    <2>1. \A m \in S : n - m \in Nat
      OBVIOUS
    <2>2. PICK x \in S : TRUE
      OBVIOUS
    <2>3. n - x \in D
      BY <2>2
    <2>4. QED
      BY <2>1, <2>3
  <1>2. PICK d \in D : \A k \in D : d <= k
    <2> HIDE DEF D
    <2>1. QED
      BY <1>1, LeastNat
  <1>3. PICK x \in S : d = n - x
    BY <1>2
  <1>4. \A m \in S : n - x <= n - m
    BY <1>2, <1>3
  <1>5. \A m \in S : m <= x
    BY <1>4
  <1>6. QED
    BY <1>5 DEF Max

\* FlattenSeq by its prefixes: f[i] is the first i sequences put together.
Chain(f, ss, n) ==
  \A i \in 1 .. n : f[i] = IF i = 1 THEN ss[i] ELSE f[i - 1] \o ss[i]

\* There is such a sequence of prefixes.
LEMMA ChainExists ==
  ASSUME NEW T, NEW ss \in Seq(Seq(T))
  PROVE  \E f \in [1 .. Len(ss) -> Seq(T)] : Chain(f, ss, Len(ss))
  <1> DEFINE S == {n \in Nat : n <= Len(ss) => \E f \in [1 .. n -> Seq(T)] : Chain(f, ss, n)}
  <1>a. Len(ss) \in Nat
    OBVIOUS
  <1>1. 0 \in S
    <2> DEFINE f == [i \in 1 .. 0 |-> <<>>]
    <2>1. f \in [1 .. 0 -> Seq(T)] /\ 1 .. 0 = {}
      OBVIOUS
    <2> HIDE DEF f
    <2>2. Chain(f, ss, 0)
      BY <2>1 DEF Chain
    <2>3. QED
      BY <2>1, <2>2
  <1>2. ASSUME NEW n \in Nat, n \in S PROVE n + 1 \in S
    <2> SUFFICES ASSUME n + 1 <= Len(ss)
                 PROVE  \E g \in [1 .. n + 1 -> Seq(T)] : Chain(g, ss, n + 1)
      OBVIOUS
    <2>1. PICK f \in [1 .. n -> Seq(T)] : Chain(f, ss, n)
      BY <1>2, <1>a
    <2>2. ss[n + 1] \in Seq(T)
      BY <1>a
    <2> DEFINE new == IF n = 0 THEN ss[n + 1] ELSE f[n] \o ss[n + 1]
               g == [i \in 1 .. n + 1 |-> IF i = n + 1 THEN new ELSE f[i]]
    <2>3. new \in Seq(T)
      <3>1. CASE n = 0
        BY <2>2, <3>1
      <3>2. CASE n # 0
        <4>1. f[n] \in Seq(T)
          <5>1. n \in 1 .. n
            BY <3>2
          <5>2. QED
            BY <5>1
        <4>2. f[n] \o ss[n + 1] \in Seq(T)
          BY <4>1, <2>2, ConcatProperties
        <4>3. QED
          BY <4>2, <3>2
      <3>3. QED
        BY <3>1, <3>2
    <2>4. g \in [1 .. n + 1 -> Seq(T)]
      <3> HIDE DEF new
      <3>1. QED
        BY <2>3
    <2>5. Chain(g, ss, n + 1)
      <3> SUFFICES ASSUME NEW i \in 1 .. n + 1
                   PROVE  g[i] = IF i = 1 THEN ss[i] ELSE g[i - 1] \o ss[i]
        BY DEF Chain
      <3>1. CASE i = n + 1
        <4>1. g[i] = new /\ (n # 0 => g[i - 1] = f[n])
          <5> HIDE DEF new
          <5>1. i - 1 = n /\ (n # 0 => n \in 1 .. n + 1 /\ n # n + 1)
            BY <3>1
          <5>2. QED
            BY <3>1, <5>1
        <4>2. QED
          BY <4>1, <3>1
      <3>2. CASE i \in 1 .. n
        <4>1. g[i] = f[i] /\ (i # 1 => g[i - 1] = f[i - 1])
          <5> HIDE DEF new
          <5>1. i # n + 1 /\ (i # 1 => i - 1 \in 1 .. n + 1 /\ i - 1 # n + 1)
            BY <3>2
          <5>2. QED
            BY <3>2, <5>1
        <4>2. f[i] = IF i = 1 THEN ss[i] ELSE f[i - 1] \o ss[i]
          BY <2>1, <3>2 DEF Chain
        <4>3. QED
          BY <4>1, <4>2
      <3>3. QED
        BY <3>1, <3>2
    <2>6. QED
      BY <2>4, <2>5
  <1>3. Nat \subseteq S
    <2> HIDE DEF S
    <2>1. QED
      BY <1>1, <1>2, Induction
  <1>4. QED
    BY <1>3, <1>a

\* There is only one.
LEMMA ChainUnique ==
  ASSUME NEW ss, NEW n \in Nat \ {0}, NEW f, NEW g, Chain(f, ss, n), Chain(g, ss, n)
  PROVE  f[n] = g[n]
  <1> DEFINE S == {k \in Nat : k \in 1 .. n => f[k] = g[k]}
  <1>1. 0 \in S
    OBVIOUS
  <1>2. ASSUME NEW k \in Nat, k \in S PROVE k + 1 \in S
    <2> SUFFICES ASSUME k + 1 \in 1 .. n PROVE f[k + 1] = g[k + 1]
      OBVIOUS
    <2>1. CASE k = 0
      BY <2>1 DEF Chain
    <2>2. CASE k # 0
      <3>1. f[k] = g[k] /\ k + 1 # 1 /\ (k + 1) - 1 = k
        BY <2>2, <1>2
      <3>2. f[k + 1] = f[(k + 1) - 1] \o ss[k + 1] /\ g[k + 1] = g[(k + 1) - 1] \o ss[k + 1]
        BY <3>1 DEF Chain
      <3>3. QED
        BY <3>1, <3>2
    <2>3. QED
      BY <2>1, <2>2
  <1>3. Nat \subseteq S
    <2> HIDE DEF S
    <2>1. QED
      BY <1>1, <1>2, Induction
  <1>4. n \in S
    BY <1>3
  <1>5. QED
    BY <1>4

\* FlattenSeq is the last of the prefixes.
LEMMA FlattenChain ==
  ASSUME NEW T, NEW ss \in Seq(Seq(T)), Len(ss) # 0, NEW g, Chain(g, ss, Len(ss))
  PROVE  FlattenSeq(ss) = g[Len(ss)]
  <1> DEFINE Flat(f) == f = [i \in 1 .. Len(ss) |-> IF i = 1 THEN ss[i] ELSE f[i - 1] \o ss[i]]
             F == CHOOSE f : Flat(f)
  <1>a. Len(ss) \in Nat \ {0}
    OBVIOUS
  <1>1. \E f : Flat(f)
    <2>1. PICK f \in [1 .. Len(ss) -> Seq(T)] : Chain(f, ss, Len(ss))
      BY ChainExists
    <2>2. f = [i \in 1 .. Len(ss) |-> f[i]]
      OBVIOUS
    <2>3. Flat(f)
      BY <2>1, <2>2 DEF Chain
    <2>4. QED
      BY <2>3
  <1>2. Flat(F)
    BY <1>1
  <1>3. FlattenSeq(ss) = F[Len(ss)]
    BY <1>a DEF FlattenSeq
  <1>4. Chain(F, ss, Len(ss))
    <2> HIDE DEF F
    <2>1. QED
      BY <1>2 DEF Chain
  <1>5. F[Len(ss)] = g[Len(ss)]
    <2> HIDE DEF F
    <2>1. QED
      BY <1>4, <1>a, ChainUnique
  <1>6. QED
    BY <1>3, <1>5

\* Of no sequences it is the empty one.
LEMMA FlattenEmpty == FlattenSeq(<<>>) = <<>>
  BY DEF FlattenSeq

\* One more sequence is put at the end.
LEMMA FlattenAppend ==
  ASSUME NEW T, NEW ss \in Seq(Seq(T)), NEW s \in Seq(T)
  PROVE  /\ FlattenSeq(ss) \in Seq(T)
         /\ FlattenSeq(Append(ss, s)) = FlattenSeq(ss) \o s
  <1> DEFINE tt == Append(ss, s)
             n == Len(ss)
  <1>1. tt \in Seq(Seq(T)) /\ Len(tt) = n + 1 /\ n \in Nat /\ tt[n + 1] = s
        /\ \A i \in 1 .. n : tt[i] = ss[i]
    BY AppendProperties
  <1>2. PICK g \in [1 .. n + 1 -> Seq(T)] : Chain(g, tt, n + 1)
    BY <1>1, ChainExists, ZenonT(40)
  <1>3. FlattenSeq(tt) = g[n + 1]
    <2> HIDE DEF tt, n
    <2>1. QED
      BY <1>1, <1>2, FlattenChain
  <1>4. CASE n = 0
    <2>1. ss = <<>>
      BY <1>4
    <2>2. FlattenSeq(ss) = <<>> /\ <<>> \in Seq(T)
      BY <2>1, FlattenEmpty
    <2>3. g[n + 1] = s
      BY <1>1, <1>2, <1>4 DEF Chain
    <2>4. <<>> \o s = s
      BY ConcatEmptySeq
    <2>5. QED
      BY <1>3, <2>2, <2>3, <2>4
  <1>5. CASE n # 0
    <2>1. Chain(g, ss, n)
      <3> HIDE DEF tt, n
      <3>1. \A i \in 1 .. n : i \in 1 .. n + 1
        BY <1>1
      <3>2. QED
        BY <1>1, <1>2, <3>1 DEF Chain
    <2>2. FlattenSeq(ss) = g[n]
      <3> HIDE DEF tt
      <3>1. QED
        BY <2>1, <1>5, FlattenChain
    <2>3. g[n + 1] = g[n] \o s
      <3>1. n + 1 \in 1 .. n + 1 /\ n + 1 # 1 /\ (n + 1) - 1 = n
        BY <1>1, <1>5
      <3> HIDE DEF tt, n
      <3>2. g[n + 1] = g[(n + 1) - 1] \o tt[n + 1]
        BY <1>2, <3>1 DEF Chain
      <3>3. QED
        BY <3>1, <3>2, <1>1
    <2>4. g[n] \in Seq(T)
      BY <1>1, <1>5
    <2>5. QED
      BY <1>3, <2>2, <2>3, <2>4
  <1>6. QED
    BY <1>4, <1>5

\* What g makes of each element, put together.
Collect(g, s) == FlattenSeq([i \in DOMAIN s |-> g[s[i]]])
Lister(U, T) == [U -> Seq(T)]

\* The elements are of those that g gives.
LEMMA CollectTyped ==
  ASSUME NEW T, NEW U, NEW g \in Lister(U, T), NEW s \in Seq(U)
  PROVE  Collect(g, s) \in Seq(T)
  <1> DEFINE ss == [i \in DOMAIN s |-> g[s[i]]]
  <1>1. \A u \in U : g[u] \in Seq(T)
    BY DEF Lister
  <1>2. DOMAIN s = 1 .. Len(s) /\ Len(s) \in Nat /\ \A i \in 1 .. Len(s) : s[i] \in U
    OBVIOUS
  <1>3. ss \in Seq(Seq(T))
    BY <1>1, <1>2
  <1>4. <<>> \in Seq(T)
    OBVIOUS
  <1>5. Collect(g, s) = FlattenSeq(ss)
    BY DEF Collect
  <1> HIDE DEF ss
  <1>6. QED
    BY <1>3, <1>4, <1>5, FlattenAppend

\* Nothing is made of nothing.
LEMMA CollectEmpty ==
  ASSUME NEW g
  PROVE  Collect(g, <<>>) = <<>>
  <1>1. [i \in DOMAIN <<>> |-> g[<<>>[i]]] = <<>>
    OBVIOUS
  <1>2. QED
    BY <1>1, FlattenEmpty DEF Collect

\* One more element adds what g makes of it.
LEMMA CollectAppend ==
  ASSUME NEW T, NEW U, NEW g \in Lister(U, T), NEW s \in Seq(U), NEW x \in U
  PROVE  Collect(g, Append(s, x)) = Collect(g, s) \o g[x]
  <1> DEFINE ss == [i \in DOMAIN s |-> g[s[i]]]
             tt == [i \in DOMAIN Append(s, x) |-> g[Append(s, x)[i]]]
  <1>0. \A u \in U : g[u] \in Seq(T)
    BY DEF Lister
  <1>1. DOMAIN s = 1 .. Len(s) /\ Len(s) \in Nat /\ \A i \in 1 .. Len(s) : s[i] \in U
    OBVIOUS
  <1>2. ss \in Seq(Seq(T)) /\ Len(ss) = Len(s)
    BY <1>0, <1>1
  <1>3. /\ DOMAIN Append(s, x) = 1 .. Len(s) + 1
        /\ \A i \in 1 .. Len(s) : Append(s, x)[i] = s[i]
        /\ Append(s, x)[Len(s) + 1] = x
    BY AppendProperties, <1>1
  <1>4. tt = Append(ss, g[x])
    <2>1. tt \in Seq(Seq(T)) /\ Len(tt) = Len(s) + 1
      <3>1. tt = [i \in 1 .. Len(s) + 1 |-> g[Append(s, x)[i]]]
        BY <1>3
      <3>2. \A i \in 1 .. Len(s) + 1 : g[Append(s, x)[i]] \in Seq(T)
        <4>1. \A i \in 1 .. Len(s) + 1 : Append(s, x)[i] \in U
          BY <1>1, <1>3
        <4>2. QED
          BY <1>0, <4>1
      <3>3. QED
        BY <1>1, <3>1, <3>2
    <2>2. /\ Append(ss, g[x]) \in Seq(Seq(T)) /\ Len(Append(ss, g[x])) = Len(s) + 1
          /\ \A i \in 1 .. Len(s) : Append(ss, g[x])[i] = ss[i]
          /\ Append(ss, g[x])[Len(s) + 1] = g[x]
      <3> HIDE DEF ss
      <3>1. QED
        BY <1>0, <1>1, <1>2, AppendProperties
    <2>3. \A i \in 1 .. Len(s) : tt[i] = ss[i]
      BY <1>1, <1>3
    <2>4. tt[Len(s) + 1] = g[x]
      BY <1>1, <1>3
    <2> HIDE DEF tt, ss
    <2>5. QED
      BY <1>1, <2>1, <2>2, <2>3, <2>4, SeqEqual
  <1>5. Collect(g, s) = FlattenSeq(ss) /\ Collect(g, Append(s, x)) = FlattenSeq(tt)
    BY DEF Collect
  <1> HIDE DEF ss, tt
  <1>6. QED
    BY <1>0, <1>2, <1>4, <1>5, FlattenAppend

\* Two sequences, one after the other, add up.
LEMMA CollectConcat ==
  ASSUME NEW T, NEW U, NEW g \in Lister(U, T), NEW s \in Seq(U), NEW t \in Seq(U)
  PROVE  Collect(g, s \o t) = Collect(g, s) \o Collect(g, t)
  <1> DEFINE S == {u \in Seq(U) : Collect(g, s \o u) = Collect(g, s) \o Collect(g, u)}
  <1>a. \A u \in Seq(U) : Collect(g, u) \in Seq(T)
    BY CollectTyped
  <1>b. \A u \in Seq(U), x \in U : Collect(g, Append(u, x)) = Collect(g, u) \o g[x]
    BY CollectAppend
  <1>1. <<>> \in S
    <2>1. s \o <<>> = s /\ <<>> \in Seq(U)
      BY ConcatEmptySeq
    <2>2. Collect(g, <<>>) = <<>>
      BY CollectEmpty
    <2>3. Collect(g, s) \o <<>> = Collect(g, s)
      BY <1>a, ConcatEmptySeq
    <2>4. QED
      BY <2>1, <2>2, <2>3
  <1>2. ASSUME NEW u \in Seq(U), NEW x \in U, u \in S PROVE Append(u, x) \in S
    <2>1. s \o Append(u, x) = Append(s \o u, x) /\ s \o u \in Seq(U)
      OBVIOUS
    <2>2. Collect(g, Append(s \o u, x)) = Collect(g, s \o u) \o g[x]
      BY <2>1, <1>b
    <2>3. Collect(g, Append(u, x)) = Collect(g, u) \o g[x]
      BY <1>b
    <2>4. Collect(g, s \o u) = Collect(g, s) \o Collect(g, u)
      BY <1>2
    <2>5. (Collect(g, s) \o Collect(g, u)) \o g[x] = Collect(g, s) \o (Collect(g, u) \o g[x])
      <3>1. Collect(g, s) \in Seq(T) /\ Collect(g, u) \in Seq(T) /\ g[x] \in Seq(T)
        BY <1>a DEF Lister
      <3>2. QED
        <4> DEFINE a == Collect(g, s)  b == Collect(g, u)  c == g[x]
        <4>1. a \in Seq(T) /\ b \in Seq(T) /\ c \in Seq(T)
          BY <3>1
        <4> HIDE DEF a, b, c
        <4>2. (a \o b) \o c = a \o (b \o c)
          BY <4>1, ConcatAssociative, SMTT(30)
        <4>3. QED
          BY <4>2 DEF a, b, c
    <2>6. Append(u, x) \in Seq(U)
      OBVIOUS
    <2>7. QED
      BY <2>1, <2>2, <2>3, <2>4, <2>5, <2>6
  <1>3. Seq(U) \subseteq S
    <2> HIDE DEF S
    <2>1. QED
      BY <1>1, <1>2, SeqInduction
  <1>4. QED
    BY <1>3

\* The largest position is the new one.
LEMMA MaxTop ==
  ASSUME NEW n \in Nat, NEW S, S \subseteq 1 .. n
  PROVE  Max(S \union {n + 1}) = n + 1
  <1>1. S \union {n + 1} \subseteq 1 .. n + 1
    OBVIOUS
  <1> DEFINE R == S \union {n + 1}
  <1>2. Max(R) \in R /\ n + 1 <= Max(R)
    <2>1. n + 1 \in Nat /\ R # {} /\ n + 1 \in R /\ R \subseteq 0 .. n + 1
      OBVIOUS
    <2> HIDE DEF R
    <2>2. QED
      BY <2>1, MaxIs
  <1>3. \A m \in R : n + 1 <= m => m = n + 1
    OBVIOUS
  <1>4. QED
    BY <1>2, <1>3

\* Of one element it is what g makes of it.
LEMMA CollectOne ==
  ASSUME NEW T, NEW U, NEW g \in Lister(U, T), NEW x \in U
  PROVE  Collect(g, <<x>>) = g[x]
  <1>1. g[x] \in Seq(T)
    BY DEF Lister
  <1>2. <<>> \in Seq(U)
    OBVIOUS
  <1>3. Collect(g, <<x>>) = Collect(g, <<>>) \o g[x]
    <2>1. \A s \in Seq(U) : Collect(g, Append(s, x)) = Collect(g, s) \o g[x]
      BY CollectAppend
    <2>2. Append(<<>>, x) = <<x>>
      OBVIOUS
    <2>3. QED
      BY <1>2, <2>1, <2>2
  <1>4. Collect(g, <<>>) = <<>>
    BY CollectEmpty
  <1>5. <<>> \o g[x] = g[x]
    BY <1>1, ConcatEmptySeq
  <1>6. QED
    BY <1>3, <1>4, <1>5

\* Two passes over a sequence are one.
LEMMA CollectTwice ==
  ASSUME NEW T, NEW U, NEW W, NEW g \in Lister(T, U), NEW f \in Lister(U, W), NEW s \in Seq(T)
  PROVE  Collect(f, Collect(g, s)) = Collect([x \in T |-> Collect(f, g[x])], s)
  <1> DEFINE k == [x \in T |-> Collect(f, g[x])]
             S == {u \in Seq(T) : Collect(f, Collect(g, u)) = Collect(k, u)}
  <1>a. \A x \in T : g[x] \in Seq(U)
    BY DEF Lister
  <1>b. \A u \in Seq(U) : Collect(f, u) \in Seq(W)
    BY CollectTyped
  <1>c. \A u \in Seq(T) : Collect(g, u) \in Seq(U)
    BY CollectTyped
  <1>d. k \in Lister(T, W)
    BY <1>a, <1>b DEF Lister
  <1>e. \A x \in T : k[x] = Collect(f, g[x])
    OBVIOUS
  <1> HIDE DEF k
  <1>1. <<>> \in S
    <2>1. <<>> \in Seq(T)
      OBVIOUS
    <2>2. Collect(g, <<>>) = <<>> /\ Collect(f, <<>>) = <<>> /\ Collect(k, <<>>) = <<>>
      BY CollectEmpty
    <2>3. QED
      BY <2>1, <2>2
  <1>2. ASSUME NEW u \in Seq(T), NEW x \in T, u \in S PROVE Append(u, x) \in S
    <2>1. Collect(g, Append(u, x)) = Collect(g, u) \o g[x]
      BY CollectAppend
    <2>2. Collect(f, Collect(g, u) \o g[x]) = Collect(f, Collect(g, u)) \o Collect(f, g[x])
      <3>1. Collect(g, u) \in Seq(U) /\ g[x] \in Seq(U)
        BY <1>a, <1>c
      <3>2. QED
        BY <3>1, CollectConcat
    <2>3. Collect(k, Append(u, x)) = Collect(k, u) \o k[x]
      BY <1>d, CollectAppend
    <2>4. Collect(f, Collect(g, u)) = Collect(k, u)
      BY <1>2
    <2>5. Append(u, x) \in Seq(T)
      OBVIOUS
    <2>6. QED
      BY <1>e, <2>1, <2>2, <2>3, <2>4, <2>5
  <1>3. Seq(T) \subseteq S
    <2> HIDE DEF S
    <2>1. QED
      BY <1>1, <1>2, SeqInduction
  <1>4. QED
    BY <1>3 DEF k

\* FlattenSeq by its prefixes, from none on.
LEMMA FlattenComes ==
  ASSUME NEW T, NEW ss \in Seq(Seq(T))
  PROVE  \E f \in [0 .. Len(ss) -> Seq(T)] :
           /\ f[0] = <<>>
           /\ \A i \in 1 .. Len(ss) : f[i] = f[i - 1] \o ss[i]
           /\ FlattenSeq(ss) = f[Len(ss)]
  <1> DEFINE n == Len(ss)
  <1>1. n \in Nat /\ \A i \in 1 .. n : ss[i] \in Seq(T)
    OBVIOUS
  <1>2. PICK g \in [1 .. n -> Seq(T)] : Chain(g, ss, n)
    BY ChainExists
  <1> DEFINE f == [i \in 0 .. n |-> IF i = 0 THEN <<>> ELSE g[i]]
  <1>3. f \in [0 .. n -> Seq(T)] /\ f[0] = <<>> /\ \A i \in 1 .. n : f[i] = g[i]
    <2>1. <<>> \in Seq(T)
      OBVIOUS
    <2>2. QED
      BY <1>1, <2>1
  <1> HIDE DEF f
  <1>4. ASSUME NEW i \in 1 .. n PROVE f[i] = f[i - 1] \o ss[i]
    <2>1. CASE i = 1
      <3>1. f[1] = ss[1]
        BY <1>2, <1>3, <2>1 DEF Chain
      <3>2. <<>> \o ss[1] = ss[1]
        BY <1>1, <2>1, ConcatEmptySeq
      <3>3. 1 - 1 = 0
        OBVIOUS
      <3>4. f[i] = ss[i] /\ f[i - 1] = <<>> /\ <<>> \o ss[i] = ss[i]
        BY <1>3, <2>1, <3>1, <3>2, <3>3
      <3>5. QED
        BY <3>4
    <2>2. CASE i # 1
      <3>1. i - 1 \in 1 .. n
        BY <2>2, <1>1
      <3>2. QED
        BY <1>2, <1>3, <2>2, <3>1 DEF Chain
    <2>3. QED
      BY <2>1, <2>2
  <1>5. FlattenSeq(ss) = f[n]
    <2>1. CASE n = 0
      <3>1. ss = <<>>
        BY <2>1, EmptySeq
      <3>2. QED
        BY <1>3, <2>1, <3>1, FlattenEmpty
    <2>2. CASE n # 0
      <3>1. FlattenSeq(ss) = g[n]
        BY <1>2, <2>2, FlattenChain
      <3>2. QED
        BY <1>1, <1>3, <2>2, <3>1
    <2>3. QED
      BY <2>1, <2>2
  <1>6. QED
    BY <1>3, <1>4, <1>5

\* What a fold computes, as a function of the positions it has passed.
Folded(X, F, a, s) ==
  X = [S \in SUBSET DOMAIN s |-> IF S = {} THEN a ELSE F[<<X[S \ {Max(S)}], s[Max(S)]>>]]

\* The last position of a part of a sequence is one of its positions.
LEMMA MaxInside ==
  ASSUME NEW n \in Nat, NEW S \in SUBSET (1 .. n), S # {}
  PROVE  Max(S) \in 1 .. n /\ Max(S) \in S /\ S \ {Max(S)} \in SUBSET (1 .. n)
  <1>1. Max(S) \in S
    <2>1. S \subseteq 0 .. n
      OBVIOUS
    <2>2. QED
      BY <2>1, MaxIs
  <1>2. QED
    BY <1>1

\* There is such a function.
LEMMA FoldExists ==
  ASSUME NEW A, NEW B, NEW F \in Stepper(A, B), NEW a \in A, NEW s \in Seq(B)
  PROVE  \E X \in [SUBSET DOMAIN s -> A] : Folded(X, F, a, s)
  <1> DEFINE Runs(X, n) ==
               \A S \in SUBSET (1 .. n) :
                 X[S] = IF S = {} THEN a ELSE F[<<X[S \ {Max(S)}], s[Max(S)]>>]
             Has(n) == \E X \in [SUBSET (1 .. n) -> A] : Runs(X, n)
             L == {n \in Nat : n <= Len(s) => Has(n)}
  <1>a. Len(s) \in Nat /\ DOMAIN s = 1 .. Len(s) /\ \A i \in 1 .. Len(s) : s[i] \in B
    OBVIOUS
  <1>b. \A x \in A, y \in B : F[<<x, y>>] \in A
    BY DEF Stepper
  <1>1. 0 \in L
    <2> DEFINE X == [S \in SUBSET (1 .. 0) |-> a]
    <2>1. X \in [SUBSET (1 .. 0) -> A] /\ \A S \in SUBSET (1 .. 0) : S = {} /\ X[S] = a
      OBVIOUS
    <2> HIDE DEF X
    <2>2. Runs(X, 0)
      BY <2>1
    <2>3. Has(0)
      BY <2>1, <2>2
    <2> HIDE DEF Has
    <2>4. QED
      BY <2>3
  <1>2. ASSUME NEW n \in Nat, Has(n), n + 1 <= Len(s) PROVE Has(n + 1)
    <2>1. PICK X \in [SUBSET (1 .. n) -> A] : Runs(X, n)
      BY <1>2
    <2> DEFINE Y == [S \in SUBSET (1 .. n + 1) |->
                      IF n + 1 \in S THEN F[<<X[S \ {n + 1}], s[n + 1]>>] ELSE X[S]]
    <2>2. \A S \in SUBSET (1 .. n + 1) :
            /\ S \ {n + 1} \in SUBSET (1 .. n)
            /\ n + 1 \notin S => S \in SUBSET (1 .. n)
      OBVIOUS
    <2>3. Y \in [SUBSET (1 .. n + 1) -> A]
      <3>1. s[n + 1] \in B
        BY <1>a, <1>2
      <3>2. \A S \in SUBSET (1 .. n + 1) : X[S \ {n + 1}] \in A
        BY <2>2
      <3>3. \A S \in SUBSET (1 .. n + 1) : n + 1 \notin S => X[S] \in A
        BY <2>2
      <3>4. \A S \in SUBSET (1 .. n + 1) : F[<<X[S \ {n + 1}], s[n + 1]>>] \in A
        BY <3>1, <3>2, <1>b
      <3>5. QED
        BY <3>3, <3>4
    <2>4. \A S \in SUBSET (1 .. n) : S \in SUBSET (1 .. n + 1) /\ n + 1 \notin S
      OBVIOUS
    <2>5. /\ \A S \in SUBSET (1 .. n) : Y[S] = X[S]
          /\ \A S \in SUBSET (1 .. n + 1) :
               n + 1 \in S => Y[S] = F[<<X[S \ {n + 1}], s[n + 1]>>]
      BY <2>4
    <2> HIDE DEF Y
    <2>6. ASSUME NEW S \in SUBSET (1 .. n + 1)
          PROVE  Y[S] = IF S = {} THEN a ELSE F[<<Y[S \ {Max(S)}], s[Max(S)]>>]
      <3>1. CASE n + 1 \in S
        <4>1. Max((S \ {n + 1}) \union {n + 1}) = n + 1
          BY <2>2, MaxTop
        <4>2. (S \ {n + 1}) \union {n + 1} = S
          BY <3>1
        <4>3. Max(S) = n + 1
          BY <4>1, <4>2
        <4>4. Y[S \ {n + 1}] = X[S \ {n + 1}]
          BY <2>2, <2>5
        <4>5. QED
          BY <2>5, <3>1, <4>3, <4>4
      <3>2. CASE n + 1 \notin S /\ S # {}
        <4>1. S \in SUBSET (1 .. n)
          BY <2>2, <3>2
        <4>2. S \ {Max(S)} \in SUBSET (1 .. n)
          BY <3>2, <4>1, MaxInside
        <4>3. X[S] = F[<<X[S \ {Max(S)}], s[Max(S)]>>]
          BY <2>1, <3>2, <4>1
        <4>4. QED
          BY <2>5, <3>2, <4>1, <4>2, <4>3
      <3>3. CASE S = {}
        <4>1. S \in SUBSET (1 .. n)
          BY <3>3
        <4>2. X[S] = a
          BY <2>1, <3>3, <4>1
        <4>3. QED
          BY <2>5, <3>3, <4>1, <4>2
      <3>4. QED
        BY <3>1, <3>2, <3>3
    <2>7. QED
      BY <2>3, <2>6
  <1>3. Has(Len(s))
    <2> HIDE DEF Has
    <2>1. \A n \in Nat : n \in L => n + 1 \in L
      BY <1>2, <1>a
    <2> HIDE DEF L
    <2>2. Nat \subseteq L
      BY <1>1, <2>1, Induction
    <2>3. QED
      BY <1>a, <2>2 DEF L
  <1>4. PICK X \in [SUBSET (1 .. Len(s)) -> A] : Runs(X, Len(s))
    BY <1>3
  <1>5. X = [S \in SUBSET DOMAIN s |-> IF S = {} THEN a ELSE F[<<X[S \ {Max(S)}], s[Max(S)]>>]]
    BY <1>4, <1>a
  <1>6. QED
    BY <1>4, <1>5, <1>a DEF Folded

\* X takes these steps as far as it stays in A.
Solves(X, F, a, A, s) ==
  /\ X[{}] = a
  /\ \A S \in SUBSET DOMAIN s :
       S # {} /\ X[S \ {Max(S)}] \in A => X[S] = F[<<X[S \ {Max(S)}], s[Max(S)]>>]

\* Whatever is computed by these steps is what the sequence comes to.
LEMMA FoldComes ==
  ASSUME NEW A, NEW B, NEW F \in Stepper(A, B), NEW a \in A, NEW s \in Seq(B), NEW X,
         Solves(X, F, a, A, s)
  PROVE  X[DOMAIN s] = Total(F, a, s, A)
  <1>a. Len(s) \in Nat /\ DOMAIN s = 1 .. Len(s)
    OBVIOUS
  <1>1. PICK f : Comes(F, a, s, A, f) /\ Total(F, a, s, A) = f[Len(s)]
    BY TotalIs
  <1>b. f \in [0 .. Len(s) -> A] /\ f[0] = a
        /\ \A i \in 1 .. Len(s) : f[i] = F[<<f[i - 1], s[i]>>]
    BY <1>1 DEF Comes
  <1> DEFINE L == {n \in Nat : n <= Len(s) => X[1 .. n] = f[n]}
  <1>2. 0 \in L
    <2>1. 1 .. 0 = {}
      OBVIOUS
    <2>2. QED
      BY <1>b, <2>1 DEF Solves
  <1>3. ASSUME NEW n \in Nat, n \in L PROVE n + 1 \in L
    <2> SUFFICES ASSUME n + 1 <= Len(s) PROVE X[1 .. n + 1] = f[n + 1]
      OBVIOUS
    <2> DEFINE S == 1 .. n + 1
    <2>1. S = (1 .. n) \union {n + 1} /\ S # {} /\ S \ {n + 1} = 1 .. n /\ S \in SUBSET DOMAIN s
      <3>1. S = (1 .. n) \union {n + 1} /\ S # {}
        OBVIOUS
      <3>2. S \ {n + 1} = 1 .. n
        OBVIOUS
      <3>3. \A i \in S : i \in 1 .. Len(s)
        BY <1>a
      <3>4. QED
        BY <1>a, <3>1, <3>2, <3>3
    <2>2. Max(S) = n + 1
      BY <2>1, MaxTop
    <2>3. X[1 .. n] = f[n] /\ f[n] \in A
      BY <1>a, <1>b, <1>3
    <2> HIDE DEF S
    <2>4. X[S] = F[<<f[n], s[n + 1]>>]
      BY <2>1, <2>2, <2>3 DEF Solves
    <2>5. n + 1 \in 1 .. Len(s) /\ (n + 1) - 1 = n
      BY <1>a
    <2>6. f[n + 1] = F[<<f[n], s[n + 1]>>]
      BY <1>b, <2>5
    <2>7. QED
      BY <2>4, <2>6 DEF S
  <1>4. Nat \subseteq L
    <2> HIDE DEF L
    <2>1. QED
      BY <1>2, <1>3, Induction
  <1>5. QED
    BY <1>1, <1>4, <1>a

-----------------------------------------------------------------------------
\* Turns of a loop.  G is one turn, and the n-th comes after n - 1 others.
Turn(G, A, B) == [p \in A \X B |-> G[p[1]]]
Turned(G, A, a, n) == Total(Turn(G, A, {0}), a, [i \in 1 .. n |-> 0], A)

LEMMA TurnedSteps ==
  ASSUME NEW A, NEW G \in [A -> A], NEW a \in A
  PROVE  /\ Turned(G, A, a, 0) = a
         /\ \A n \in Nat : Turned(G, A, a, n) \in A
         /\ \A n \in Nat : Turned(G, A, a, n + 1) = G[Turned(G, A, a, n)]
  <1> DEFINE F == Turn(G, A, {0})
             Z(n) == [i \in 1 .. n |-> 0]
  <1>1. F \in Stepper(A, {0}) /\ \A x \in A : F[<<x, 0>>] = G[x]
    BY DEF Turn, Stepper
  <1>2. Z(0) = <<>> /\ \A n \in Nat : Z(n) \in Seq({0})
    OBVIOUS
  <1>3. ASSUME NEW n \in Nat PROVE Z(n + 1) = Append(Z(n), 0)
    <2>1. Z(n) \in Seq({0}) /\ Len(Z(n)) = n /\ Z(n + 1) \in Seq({0}) /\ Len(Z(n + 1)) = n + 1
      BY <1>3
    <2>2. \A i \in 1 .. n + 1 : Z(n + 1)[i] = Append(Z(n), 0)[i]
      BY <1>3
    <2>3. Append(Z(n), 0) \in Seq({0}) /\ Len(Append(Z(n), 0)) = n + 1
      BY <2>1
    <2> HIDE DEF Z
    <2>4. QED
      BY <2>1, <2>2, <2>3, SeqEqual
  <1> HIDE DEF F, Z
  <1>4. /\ Total(F, a, <<>>, A) = a
        /\ \A s \in Seq({0}) : Total(F, a, s, A) \in A
        /\ \A s \in Seq({0}), e \in {0} :
             Total(F, a, Append(s, e), A) = F[<<Total(F, a, s, A), e>>]
    BY <1>1, TotalSteps
  <1>5. \A n \in Nat : Turned(G, A, a, n) = Total(F, a, Z(n), A)
    BY DEF Turned, F, Z
  <1>6. Turned(G, A, a, 0) = a
    BY <1>2, <1>4, <1>5
  <1>7. \A n \in Nat : Turned(G, A, a, n) \in A
    BY <1>2, <1>4, <1>5
  <1>8. ASSUME NEW n \in Nat PROVE Turned(G, A, a, n + 1) = G[Turned(G, A, a, n)]
    <2>1. n + 1 \in Nat /\ Z(n) \in Seq({0}) /\ 0 \in {0}
      BY <1>2
    <2>2. Turned(G, A, a, n + 1) = Total(F, a, Append(Z(n), 0), A)
      BY <1>3, <1>5, <2>1
    <2>3. Total(F, a, Append(Z(n), 0), A) = F[<<Total(F, a, Z(n), A), 0>>]
      BY <1>4, <2>1
    <2>4. QED
      BY <1>1, <1>5, <1>7, <2>2, <2>3
  <1>9. QED
    BY <1>6, <1>7, <1>8

\* A fold that takes a turn for every element.
LEMMA TurnedFold ==
  ASSUME NEW A, NEW B, NEW G \in [A -> A], NEW a \in A, NEW s \in Seq(B), NEW X,
         Solves(X, Turn(G, A, B), a, A, s)
  PROVE  X[DOMAIN s] = Turned(G, A, a, Len(s))
  <1> DEFINE F == Turn(G, A, B)
             S == {t \in Seq(B) : Total(F, a, t, A) = Turned(G, A, a, Len(t))}
  <1>1. F \in Stepper(A, B) /\ \A x \in A, e \in B : F[<<x, e>>] = G[x]
    BY DEF Turn, Stepper
  <1>2. X[DOMAIN s] = Total(F, a, s, A)
    <2> HIDE DEF F
    <2>1. Solves(X, F, a, A, s)
      BY DEF F
    <2>2. QED
      BY <1>1, <2>1, FoldComes
  <1> HIDE DEF F
  <1>3. /\ Total(F, a, <<>>, A) = a
        /\ \A t \in Seq(B) : Total(F, a, t, A) \in A
        /\ \A t \in Seq(B), e \in B :
             Total(F, a, Append(t, e), A) = F[<<Total(F, a, t, A), e>>]
    BY <1>1, TotalSteps
  <1>4. /\ Turned(G, A, a, 0) = a
        /\ \A n \in Nat : Turned(G, A, a, n + 1) = G[Turned(G, A, a, n)]
    BY TurnedSteps
  <1>5. <<>> \in S
    <2>1. <<>> \in Seq(B) /\ Len(<<>>) = 0
      OBVIOUS
    <2>2. QED
      BY <1>3, <1>4, <2>1
  <1>6. ASSUME NEW t \in Seq(B), NEW e \in B, t \in S PROVE Append(t, e) \in S
    <2>1. Append(t, e) \in Seq(B) /\ Len(t) \in Nat /\ Len(Append(t, e)) = Len(t) + 1
      OBVIOUS
    <2>2. Total(F, a, t, A) = Turned(G, A, a, Len(t))
      BY <1>6
    <2>3. Total(F, a, Append(t, e), A) = G[Total(F, a, t, A)]
      BY <1>1, <1>3
    <2>4. Turned(G, A, a, Len(t) + 1) = G[Turned(G, A, a, Len(t))]
      BY <1>4, <2>1
    <2>5. QED
      BY <2>1, <2>2, <2>3, <2>4
  <1>7. Seq(B) \subseteq S
    <2> HIDE DEF S
    <2>1. QED
      BY <1>5, <1>6, SeqInduction
  <1>8. QED
    BY <1>2, <1>7

\* Every turn makes a text shorter or is the last.
Shortens(G, A) == \A a \in A : G[a] = a \/ Len(G[a]) < Len(a)

\* All turns a text takes.
AllTurns(G, A, a) == Turned(G, A, a, Len(a))

\* The first turn, and then all that the text takes that it leaves; a text that a
\* turn does not change stays, and after the last turn there is nothing left to do.
LEMMA TurnsRunOut ==
  ASSUME NEW K, NEW A \in SUBSET Seq(K), NEW G \in [A -> A], Shortens(G, A), NEW a \in A
  PROVE  /\ AllTurns(G, A, a) \in A
         /\ AllTurns(G, A, a) = AllTurns(G, A, G[a])
         /\ G[a] = a => AllTurns(G, A, a) = a
         /\ G[AllTurns(G, A, a)] = AllTurns(G, A, a)
  <1> DEFINE T(x, n) == Turned(G, A, x, n)
  <1>0. \A x \in A : Len(x) \in Nat /\ G[x] \in A
    BY LenProperties
  <1>1. \A x \in A : T(x, 0) = x /\ \A n \in Nat : T(x, n) \in A /\ T(x, n + 1) = G[T(x, n)]
    BY TurnedSteps
  <1> HIDE DEF T
  <1>2. ASSUME NEW x \in A PROVE \A n \in Nat : T(x, n + 1) = T(G[x], n)
    <2> DEFINE L == {n \in Nat : T(x, n + 1) = T(G[x], n)}
    <2>1. 0 \in L
      <3>1. T(x, 0 + 1) = G[T(x, 0)] /\ T(x, 0) = x /\ T(G[x], 0) = G[x]
        BY <1>0, <1>1
      <3>2. QED
        BY <3>1
    <2>2. ASSUME NEW n \in Nat, n \in L PROVE n + 1 \in L
      <3>0. n + 1 \in Nat /\ G[x] \in A
        BY <1>0
      <3>1. T(x, (n + 1) + 1) = G[T(x, n + 1)] /\ T(G[x], n + 1) = G[T(G[x], n)]
        BY <1>1, <3>0
      <3>2. T(x, n + 1) = T(G[x], n)
        BY <2>2
      <3>3. QED
        BY <3>1, <3>2
    <2>3. Nat \subseteq L
      <3> HIDE DEF L
      <3>1. QED
        BY <2>1, <2>2, Induction
    <2>4. QED
      BY <2>3
  <1>3. ASSUME NEW x \in A, G[x] = x PROVE \A n \in Nat : T(x, n) = x
    <2> DEFINE L == {n \in Nat : T(x, n) = x}
    <2>1. 0 \in L
      BY <1>1
    <2>2. ASSUME NEW n \in Nat, n \in L PROVE n + 1 \in L
      BY <1>1, <1>3, <2>2
    <2>3. Nat \subseteq L
      <3> HIDE DEF L
      <3>1. QED
        BY <2>1, <2>2, Induction
    <2>4. QED
      BY <2>3
  <1>4. \A n \in Nat : \A x \in A : Len(x) <= n => G[T(x, n)] = T(x, n)
    <2> DEFINE L == {n \in Nat : \A x \in A : Len(x) <= n => G[T(x, n)] = T(x, n)}
    <2>1. 0 \in L
      <3>1. ASSUME NEW x \in A, Len(x) <= 0 PROVE G[T(x, 0)] = T(x, 0)
        <4>1. ~(Len(G[x]) < Len(x))
          BY <1>0, <3>1
        <4>2. G[x] = x
          BY <4>1 DEF Shortens
        <4>3. QED
          BY <1>1, <4>2
      <3>2. QED
        BY <3>1
    <2>2. ASSUME NEW n \in Nat, n \in L PROVE n + 1 \in L
      <3>1. ASSUME NEW x \in A, Len(x) <= n + 1 PROVE G[T(x, n + 1)] = T(x, n + 1)
        <4>1. CASE G[x] = x
          BY <1>3, <4>1
        <4>2. CASE G[x] # x
          <5>1. Len(G[x]) < Len(x)
            BY <4>2 DEF Shortens
          <5>2. Len(G[x]) <= n
            BY <1>0, <3>1, <5>1
          <5>3. G[T(G[x], n)] = T(G[x], n)
            BY <1>0, <2>2, <5>2
          <5>4. QED
            BY <1>2, <5>3
        <4>3. QED
          BY <4>1, <4>2
      <3>2. QED
        BY <3>1
    <2>3. Nat \subseteq L
      <3> HIDE DEF L
      <3>1. QED
        BY <2>1, <2>2, Induction
    <2>4. QED
      BY <2>3
  <1>5. ASSUME NEW x \in A PROVE \A d \in Nat : T(x, Len(x) + d) = T(x, Len(x))
    <2> DEFINE L == {d \in Nat : T(x, Len(x) + d) = T(x, Len(x))}
    <2>1. 0 \in L
      <3>1. Len(x) + 0 = Len(x)
        BY <1>0
      <3>2. QED
        BY <3>1
    <2>2. ASSUME NEW d \in Nat, d \in L PROVE d + 1 \in L
      <3>1. Len(x) + d \in Nat /\ Len(x) + (d + 1) = (Len(x) + d) + 1 /\ Len(x) <= Len(x)
        BY <1>0
      <3>2. T(x, Len(x) + (d + 1)) = G[T(x, Len(x) + d)]
        BY <1>1, <3>1
      <3>3. T(x, Len(x) + d) = T(x, Len(x))
        BY <2>2
      <3>4. G[T(x, Len(x))] = T(x, Len(x))
        BY <1>0, <1>4, <3>1
      <3>5. QED
        BY <3>2, <3>3, <3>4
    <2>3. Nat \subseteq L
      <3> HIDE DEF L
      <3>1. QED
        BY <2>1, <2>2, Induction
    <2>4. QED
      BY <2>3
  <1>6. \A x \in A : AllTurns(G, A, x) = T(x, Len(x))
    BY DEF AllTurns, T
  <1>7. AllTurns(G, A, a) \in A
    BY <1>0, <1>1, <1>6
  <1>8. G[a] = a => AllTurns(G, A, a) = a
    BY <1>0, <1>3, <1>6
  <1>9. G[AllTurns(G, A, a)] = AllTurns(G, A, a)
    <2>1. Len(a) \in Nat /\ Len(a) <= Len(a)
      BY <1>0
    <2>2. QED
      BY <1>4, <1>6, <2>1
  <1>10. AllTurns(G, A, a) = AllTurns(G, A, G[a])
    <2>1. CASE G[a] = a
      BY <2>1
    <2>2. CASE G[a] # a
      <3> DEFINE d == Len(a) - 1 - Len(G[a])
      <3>1. Len(G[a]) < Len(a)
        BY <2>2 DEF Shortens
      <3>2. d \in Nat /\ Len(G[a]) + d \in Nat /\ (Len(G[a]) + d) + 1 = Len(a)
        BY <1>0, <3>1
      <3> HIDE DEF d
      <3>3. T(a, Len(a)) = T(G[a], Len(G[a]) + d)
        BY <1>2, <3>2
      <3>4. T(G[a], Len(G[a]) + d) = T(G[a], Len(G[a]))
        BY <1>0, <1>5, <3>2
      <3>5. QED
        BY <1>0, <1>6, <3>3, <3>4
    <2>3. QED
      BY <2>1, <2>2
  <1>11. QED
    BY <1>7, <1>8, <1>9, <1>10

-----------------------------------------------------------------------------
\* The least number of a set is the only one that is in it and below all others.
LEMMA LeastIs ==
  ASSUME NEW S, S \subseteq Nat, NEW m \in S, \A k \in S : m <= k
  PROVE  Min(S) = m
  <1>1. Min(S) \in S /\ \A k \in S : Min(S) <= k
    BY MinIs
  <1>2. Min(S) <= m /\ m <= Min(S) /\ m \in Nat /\ Min(S) \in Nat
    BY <1>1
  <1>3. \A x, y \in Nat : x <= y /\ y <= x => x = y
    OBVIOUS
  <1>4. QED
    BY <1>2, <1>3

\* Two texts one behind the other.
LEMMA Behind ==
  ASSUME NEW K, NEW s \in Seq(K), NEW t \in Seq(K)
  PROVE  /\ s \o t \in Seq(K) /\ Len(s \o t) = Len(s) + Len(t)
         /\ DOMAIN (s \o t) = 1 .. Len(s) + Len(t)
         /\ \A i \in 1 .. Len(s) : (s \o t)[i] = s[i]
         /\ \A i \in 1 .. Len(t) : (s \o t)[Len(s) + i] = t[i]
         /\ \A i \in Len(s) + 1 .. Len(s) + Len(t) :
              (s \o t)[i] = t[i - Len(s)] /\ i - Len(s) \in 1 .. Len(t)
  <1>1. Len(s) \in Nat /\ Len(t) \in Nat
    OBVIOUS
  <1>2. /\ s \o t \in Seq(K) /\ Len(s \o t) = Len(s) + Len(t)
        /\ \A i \in 1 .. Len(s) + Len(t) :
             (s \o t)[i] = IF i <= Len(s) THEN s[i] ELSE t[i - Len(s)]
    BY ConcatProperties
  <1> DEFINE u == s \o t
  <1> HIDE DEF u
  <1>3. u \in Seq(K) /\ Len(u) = Len(s) + Len(t)
        /\ \A i \in 1 .. Len(s) + Len(t) : u[i] = IF i <= Len(s) THEN s[i] ELSE t[i - Len(s)]
    BY <1>2 DEF u
  <1>4. DOMAIN u = 1 .. Len(s) + Len(t)
    BY <1>3
  <1>5. \A i \in 1 .. Len(s) : u[i] = s[i]
    BY <1>1, <1>3
  <1>6. \A i \in 1 .. Len(t) : u[Len(s) + i] = t[i]
    <2> SUFFICES ASSUME NEW i \in 1 .. Len(t) PROVE u[Len(s) + i] = t[i]
      OBVIOUS
    <2>1. Len(s) + i \in 1 .. Len(s) + Len(t) /\ ~(Len(s) + i <= Len(s)) /\ (Len(s) + i) - Len(s) = i
      BY <1>1
    <2>2. QED
      BY <1>3, <2>1
  <1>7. \A i \in Len(s) + 1 .. Len(s) + Len(t) : u[i] = t[i - Len(s)] /\ i - Len(s) \in 1 .. Len(t)
    <2> SUFFICES ASSUME NEW i \in Len(s) + 1 .. Len(s) + Len(t)
                 PROVE  u[i] = t[i - Len(s)] /\ i - Len(s) \in 1 .. Len(t)
      OBVIOUS
    <2>1. i \in 1 .. Len(s) + Len(t) /\ ~(i <= Len(s)) /\ i - Len(s) \in 1 .. Len(t)
      BY <1>1
    <2>2. QED
      BY <1>3, <2>1
  <1>8. QED
    BY <1>3, <1>4, <1>5, <1>6, <1>7 DEF u

\* A part of the second of two texts.
LEMMA PartBehind ==
  ASSUME NEW K, NEW s \in Seq(K), NEW t \in Seq(K), NEW a \in Nat \ {0}, NEW b \in Nat,
         b <= Len(t)
  PROVE  SubSeq(s \o t, Len(s) + a, Len(s) + b) = SubSeq(t, a, b)
  <1> DEFINE u == s \o t
             n == Len(s)
  <1>1. n \in Nat /\ Len(t) \in Nat /\ u \in Seq(K) /\ Len(u) = n + Len(t)
        /\ \A i \in 1 .. Len(t) : u[n + i] = t[i]
    BY Behind
  <1> HIDE DEF u, n
  <1>2. CASE b < a
    <2>1. n + b < n + a
      BY <1>1, <1>2
    <2>2. SubSeq(u, n + a, n + b) = <<>> /\ SubSeq(t, a, b) = <<>>
      BY <1>1, <1>2, <2>1, SubSeqEmpty
    <2>3. QED
      BY <2>2 DEF u, n
  <1>3. CASE a <= b
    <2>1. \A i \in a .. b : i \in 1 .. Len(t)
      BY <1>1
    <2>2. \A i \in a .. b : t[i] \in K
      BY <2>1
    <2>3. \A i \in n + a .. n + b : u[i] \in K
      <3>1. \A i \in n + a .. n + b : i \in 1 .. Len(u)
        BY <1>1
      <3>2. QED
        BY <1>1, <3>1
    <2>4. /\ SubSeq(t, a, b) \in Seq(K) /\ Len(SubSeq(t, a, b)) = b - a + 1
          /\ \A i \in 1 .. b - a + 1 : SubSeq(t, a, b)[i] = t[a + i - 1]
      BY <1>3, <2>2, SubSeqProperties
    <2>5. /\ SubSeq(u, n + a, n + b) \in Seq(K) /\ Len(SubSeq(u, n + a, n + b)) = b - a + 1
          /\ \A i \in 1 .. b - a + 1 : SubSeq(u, n + a, n + b)[i] = u[n + a + i - 1]
      <3>1. n + a \in Int /\ n + b \in Int /\ n + a <= n + b /\ (n + b) - (n + a) + 1 = b - a + 1
        BY <1>1, <1>3
      <3>2. /\ SubSeq(u, n + a, n + b) \in Seq(K)
            /\ Len(SubSeq(u, n + a, n + b)) = (n + b) - (n + a) + 1
            /\ \A i \in 1 .. (n + b) - (n + a) + 1 : SubSeq(u, n + a, n + b)[i] = u[n + a + i - 1]
        BY <2>3, <3>1, SubSeqProperties
      <3>3. QED
        BY <3>1, <3>2
    <2>6. \A i \in 1 .. b - a + 1 : u[n + a + i - 1] = t[a + i - 1]
      <3> SUFFICES ASSUME NEW i \in 1 .. b - a + 1 PROVE u[n + a + i - 1] = t[a + i - 1]
        OBVIOUS
      <3>1. a + i - 1 \in 1 .. Len(t) /\ n + a + i - 1 = n + (a + i - 1)
        BY <1>1, <1>3
      <3>2. QED
        BY <1>1, <3>1
    <2>7. SubSeq(u, n + a, n + b) = SubSeq(t, a, b)
      <3> DEFINE v == SubSeq(u, n + a, n + b)
                 w == SubSeq(t, a, b)
      <3>1. v \in Seq(K) /\ w \in Seq(K) /\ Len(v) = Len(w) /\ Len(v) = b - a + 1
        BY <2>4, <2>5
      <3>2. \A i \in 1 .. b - a + 1 : v[i] = w[i]
        BY <2>4, <2>5, <2>6
      <3> HIDE DEF v, w
      <3>3. v = w
        BY <3>1, <3>2, SeqEqual
      <3>4. QED
        BY <3>3 DEF v, w
    <2>8. QED
      BY <2>7 DEF u, n
  <1>4. QED
    BY <1>2, <1>3

\* The first of two texts.
LEMMA PartBefore ==
  ASSUME NEW K, NEW s \in Seq(K), NEW t \in Seq(K)
  PROVE  SubSeq(s \o t, 1, Len(s)) = s
  <1> DEFINE u == s \o t
             n == Len(s)
  <1>1. n \in Nat /\ Len(t) \in Nat /\ u \in Seq(K) /\ Len(u) = n + Len(t)
        /\ \A i \in 1 .. n : u[i] = s[i]
    BY Behind
  <1> HIDE DEF u
  <1>2. \A i \in 1 .. n : u[i] \in K
    BY <1>1
  <1>3. n - 1 + 1 = n /\ \A i \in 1 .. n : 1 + i - 1 = i
    BY <1>1
  <1>4. /\ SubSeq(u, 1, n) \in Seq(K) /\ Len(SubSeq(u, 1, n)) = n
        /\ \A i \in 1 .. n : SubSeq(u, 1, n)[i] = u[i]
    <2> HIDE DEF n
    <2>1. /\ SubSeq(u, 1, n) \in Seq(K)
          /\ Len(SubSeq(u, 1, n)) = IF 1 <= n THEN n - 1 + 1 ELSE 0
          /\ \A i \in 1 .. n - 1 + 1 : SubSeq(u, 1, n)[i] = u[1 + i - 1]
      BY <1>1, <1>2, SubSeqProperties
    <2>2. QED
      BY <1>1, <1>3, <2>1
  <1>5. SubSeq(u, 1, n) = s
    BY <1>1, <1>4, SeqEqual
  <1>6. QED
    BY <1>5 DEF u

-----------------------------------------------------------------------------
\* Markers and what stands behind them.

\* What may begin a match, where those that begin at i may end, and where they begin.
Openers == {"then", "start", "dash", "end"}

EndsOf(text, kinds, i) ==
  {j \in i .. Len(text) : text[j].kind \in kinds /\ \A k \in i .. j : text[k].kind # "nl"}

Begins(text, kinds) ==
  {i \in DOMAIN text : text[i].kind \in Openers /\ EndsOf(text, kinds, i) # {}}

LEMMA MatchIs ==
  ASSUME NEW text, NEW kinds
  PROVE  Match(text, kinds)
           = IF Begins(text, kinds) = {} THEN <<>>
             ELSE <<Min(Begins(text, kinds)),
                    Min(EndsOf(text, kinds, Min(Begins(text, kinds))))>>
  BY DEF Match, Begins, EndsOf, Openers

\* No match begins in a quiet text, whatever stands behind it: its markers are of
\* other kinds and end their lines.
Quiet(text, kinds) ==
  \A i \in 1 .. Len(text) :
    text[i].kind \in Openers =>
      text[i].kind \notin kinds /\ i + 1 <= Len(text) /\ text[i + 1].kind = "nl"

LEMMA QuietBegins ==
  ASSUME NEW K, NEW s \in Seq(K), NEW t \in Seq(K), NEW kinds, Quiet(s, kinds)
  PROVE  \A i \in 1 .. Len(s) : i \notin Begins(s \o t, kinds)
  <1> DEFINE u == s \o t
  <1>1. Len(s) \in Nat /\ Len(t) \in Nat /\ u \in Seq(K) /\ Len(u) = Len(s) + Len(t)
        /\ \A i \in 1 .. Len(s) : u[i] = s[i]
    BY Behind
  <1> HIDE DEF u
  <1> SUFFICES ASSUME NEW i \in 1 .. Len(s), i \in Begins(u, kinds) PROVE FALSE
    BY DEF u
  <1>2. u[i].kind \in Openers /\ EndsOf(u, kinds, i) # {}
    BY DEF Begins
  <1>3. s[i].kind \notin kinds /\ i + 1 <= Len(s) /\ s[i + 1].kind = "nl"
    BY <1>1, <1>2 DEF Quiet
  <1>4. i + 1 \in 1 .. Len(s)
    BY <1>1, <1>3
  <1>5. u[i].kind \notin kinds /\ u[i + 1].kind = "nl"
    BY <1>1, <1>3, <1>4
  <1>6. PICK j \in i .. Len(u) : u[j].kind \in kinds /\ \A k \in i .. j : u[k].kind # "nl"
    BY <1>2 DEF EndsOf
  <1>7. j # i
    BY <1>5, <1>6
  <1>8. i + 1 \in i .. j
    BY <1>6, <1>7
  <1>9. QED
    BY <1>5, <1>6, <1>8

\* A match behind a quiet text.
LEMMA MatchBehind ==
  ASSUME NEW K, NEW s \in Seq(K), NEW t \in Seq(K), NEW kinds, Quiet(s, kinds)
  PROVE  \/ Match(s \o t, kinds) = <<>>
         \/ \E p \in 1 .. Len(t) : \E q \in p .. Len(t) :
              Match(s \o t, kinds) = <<Len(s) + p, Len(s) + q>>
  <1> DEFINE u == s \o t
             S == Begins(u, kinds)
             E == EndsOf(u, kinds, Min(S))
  <1>1. Len(s) \in Nat /\ Len(t) \in Nat /\ u \in Seq(K) /\ Len(u) = Len(s) + Len(t)
        /\ DOMAIN u = 1 .. Len(u)
    BY Behind
  <1>2. \A i \in 1 .. Len(s) : i \notin S
    BY QuietBegins
  <1>3. Match(u, kinds) = IF S = {} THEN <<>> ELSE <<Min(S), Min(E)>>
    BY MatchIs
  <1> HIDE DEF u
  <1> SUFFICES ASSUME S # {}
               PROVE  \E p \in 1 .. Len(t) : \E q \in p .. Len(t) :
                        Match(u, kinds) = <<Len(s) + p, Len(s) + q>>
    BY <1>3 DEF u
  <1>4. S \subseteq Nat /\ \A i \in S : i \in 1 .. Len(u) /\ EndsOf(u, kinds, i) # {}
    BY <1>1 DEF Begins
  <1>5. Min(S) \in S
    <2> HIDE DEF S
    <2>1. QED
      BY <1>4, MinIs
  <1>6. Min(S) \in 1 .. Len(u) /\ E # {}
    <2> HIDE DEF S
    <2>1. QED
      BY <1>4, <1>5
  <1> HIDE DEF S
  <1>7. E \subseteq Nat /\ E \subseteq Min(S) .. Len(u)
    BY <1>1, <1>6 DEF EndsOf
  <1>8. Min(E) \in Min(S) .. Len(u)
    <2>1. Min(E) \in E
      <3> HIDE DEF E
      <3>1. QED
        BY <1>6, <1>7, MinIs
    <2>2. QED
      BY <1>7, <2>1
  <1> DEFINE p == Min(S) - Len(s)
             q == Min(E) - Len(s)
  <1>9. Min(S) > Len(s)
    <2>1. Min(S) \notin 1 .. Len(s)
      BY <1>2, <1>5
    <2>2. QED
      BY <1>1, <1>6, <2>1
  <1>m. Match(u, kinds) = <<Min(S), Min(E)>>
    BY <1>3, <1>5
  <1> HIDE DEF E
  <1>10. p \in 1 .. Len(t) /\ q \in p .. Len(t) /\ Min(S) = Len(s) + p /\ Min(E) = Len(s) + q
    BY <1>1, <1>6, <1>8, <1>9
  <1> HIDE DEF p, q
  <1>11. QED
    BY <1>m, <1>10

\* In a quiet text there is none.
LEMMA MatchNone ==
  ASSUME NEW K, NEW s \in Seq(K), NEW kinds, Quiet(s, kinds)
  PROVE  Match(s, kinds) = <<>>
  <1>1. <<>> \in Seq(K) /\ s \o <<>> = s /\ DOMAIN s = 1 .. Len(s)
    BY ConcatEmptySeq
  <1>2. \A i \in 1 .. Len(s) : i \notin Begins(s \o <<>>, kinds)
    BY <1>1, QuietBegins
  <1>3. Begins(s, kinds) = {}
    BY <1>1, <1>2 DEF Begins
  <1>4. QED
    BY <1>3, MatchIs

\* A marker of the kinds right behind a quiet text is a match of its own.
LEMMA MatchAt ==
  ASSUME NEW K, NEW s \in Seq(K), NEW x \in K, NEW t \in Seq(K), NEW kinds, Quiet(s, kinds),
         x.kind \in kinds, x.kind \in Openers
  PROVE  Match(s \o (<<x>> \o t), kinds) = <<Len(s) + 1, Len(s) + 1>>
  <1> DEFINE b == <<x>> \o t
             u == s \o b
             p == Len(s) + 1
             S == Begins(u, kinds)
             E == EndsOf(u, kinds, p)
  <1>1. <<x>> \in Seq(K) /\ Len(<<x>>) = 1 /\ <<x>>[1] = x
    OBVIOUS
  <1>2. b \in Seq(K) /\ Len(b) = 1 + Len(t) /\ b[1] = x
    BY <1>1, Behind
  <1> HIDE DEF b
  <1>3. Len(s) \in Nat /\ Len(t) \in Nat /\ u \in Seq(K) /\ Len(u) = Len(s) + Len(b)
        /\ DOMAIN u = 1 .. Len(u) /\ \A i \in 1 .. Len(b) : u[Len(s) + i] = b[i]
    <2>1. b \in Seq(K)
      BY <1>2
    <2>2. u \in Seq(K) /\ Len(u) = Len(s) + Len(b) /\ \A i \in 1 .. Len(b) : u[Len(s) + i] = b[i]
      BY <2>1, Behind
    <2> HIDE DEF u
    <2>3. QED
      BY <2>2
  <1>4. u[p] = x /\ p \in 1 .. Len(u) /\ p \in Nat
    BY <1>2, <1>3
  <1>5. \A i \in 1 .. Len(s) : i \notin S
    BY <1>2, QuietBegins
  <1>6. x.kind # "nl"
    BY DEF Openers
  <1> HIDE DEF u, p
  <1>7. p \in E /\ E \subseteq Nat /\ \A k \in E : p <= k
    <2>1. \A k \in p .. p : k = p
      BY <1>4
    <2>2. p \in p .. Len(u)
      BY <1>3, <1>4
    <2>3. QED
      BY <1>3, <1>4, <1>6, <2>1, <2>2 DEF EndsOf
  <1>8. Min(E) = p
    <2> HIDE DEF E
    <2>1. QED
      BY <1>7, LeastIs
  <1>9. p \in S /\ S \subseteq 1 .. Len(u)
    <2>1. E # {}
      BY <1>7
    <2>2. QED
      BY <1>3, <1>4, <2>1 DEF Begins
  <1>10. \A k \in S : p <= k
    <2> SUFFICES ASSUME NEW k \in S PROVE p <= k
      OBVIOUS
    <2>1. k \in 1 .. Len(u) /\ k \notin 1 .. Len(s)
      BY <1>5, <1>9
    <2> HIDE DEF S
    <2>2. QED
      BY <1>3, <2>1 DEF p
  <1>11. Min(S) = p
    <2>1. S \subseteq Nat
      BY <1>3, <1>9
    <2> HIDE DEF S
    <2>2. QED
      BY <1>9, <1>10, <2>1, LeastIs
  <1>12. Match(u, kinds) = <<p, p>>
    <2>1. S # {}
      BY <1>9
    <2>2. Match(u, kinds) = <<Min(S), Min(EndsOf(u, kinds, Min(S)))>>
      BY <2>1, MatchIs
    <2>3. Min(EndsOf(u, kinds, Min(S))) = p
      BY <1>8, <1>11
    <2>4. QED
      BY <1>11, <2>2, <2>3
  <1>13. QED
    BY <1>12 DEF u, p, b

\* Quiet texts put together are quiet.
LEMMA QuietConcat ==
  ASSUME NEW K, NEW s \in Seq(K), NEW t \in Seq(K), NEW kinds, Quiet(s, kinds), Quiet(t, kinds)
  PROVE  Quiet(s \o t, kinds)
  <1> DEFINE u == s \o t
  <1>1. Len(s) \in Nat /\ Len(t) \in Nat /\ Len(u) = Len(s) + Len(t)
        /\ (\A i \in 1 .. Len(s) : u[i] = s[i])
        /\ \A i \in 1 .. Len(t) : u[Len(s) + i] = t[i]
    BY Behind
  <1> HIDE DEF u
  <1> SUFFICES ASSUME NEW i \in 1 .. Len(u), u[i].kind \in Openers
               PROVE  u[i].kind \notin kinds /\ i + 1 <= Len(u) /\ u[i + 1].kind = "nl"
    BY DEF Quiet, u
  <1>2. CASE i <= Len(s)
    <2>1. i \in 1 .. Len(s) /\ u[i] = s[i]
      BY <1>1, <1>2
    <2>2. s[i].kind \notin kinds /\ i + 1 <= Len(s) /\ s[i + 1].kind = "nl"
      BY <2>1 DEF Quiet
    <2>3. i + 1 \in 1 .. Len(s) /\ i + 1 <= Len(u)
      BY <1>1, <2>2
    <2>4. QED
      BY <1>1, <2>1, <2>2, <2>3
  <1>3. CASE i > Len(s)
    <2> DEFINE j == i - Len(s)
    <2>1. j \in 1 .. Len(t) /\ i = Len(s) + j
      BY <1>1, <1>3
    <2> HIDE DEF j
    <2>2. u[i] = t[j]
      BY <1>1, <2>1
    <2>3. t[j].kind \notin kinds /\ j + 1 <= Len(t) /\ t[j + 1].kind = "nl"
      BY <2>1, <2>2 DEF Quiet
    <2>4. j + 1 \in 1 .. Len(t) /\ i + 1 = Len(s) + (j + 1) /\ i + 1 <= Len(u)
      BY <1>1, <2>1, <2>3
    <2>5. u[i + 1] = t[j + 1]
      BY <1>1, <2>4
    <2>6. QED
      BY <2>2, <2>3, <2>4, <2>5
  <1>4. QED
    BY <1>1, <1>2, <1>3

-----------------------------------------------------------------------------
\* Where a token stands next, or that it does not.
LEMMA AfterIs ==
  ASSUME NEW K, NEW text \in Seq(K), NEW i \in Nat, NEW token
  PROVE  \/ /\ After(text, i, token) = 0
            /\ \A j \in i + 1 .. Len(text) : text[j] # token
         \/ /\ After(text, i, token) \in i + 1 .. Len(text)
            /\ text[After(text, i, token)] = token
            /\ \A j \in i + 1 .. Len(text) : text[j] = token => After(text, i, token) <= j
  <1> DEFINE F == {j \in i + 1 .. Len(text) : text[j] = token}
  <1>1. After(text, i, token) = IF F = {} THEN 0 ELSE Min(F)
    BY DEF After
  <1>2. Len(text) \in Nat /\ F \subseteq Nat
    OBVIOUS
  <1>3. CASE F = {}
    BY <1>1, <1>3
  <1>4. CASE F # {}
    <2>1. Min(F) \in F /\ \A j \in F : Min(F) <= j
      <3> HIDE DEF F
      <3>1. QED
        BY <1>2, <1>4, MinIs
    <2>2. After(text, i, token) = Min(F)
      BY <1>1, <1>4
    <2>3. QED
      BY <2>1, <2>2
  <1>5. QED
    BY <1>3, <1>4

\* What is in the middle.
LEMMA PartMiddle ==
  ASSUME NEW K, NEW s \in Seq(K), NEW t \in Seq(K), NEW r \in Seq(K)
  PROVE  SubSeq(s \o (t \o r), Len(s) + 1, Len(s) + Len(t)) = t
  <1>1. t \o r \in Seq(K) /\ Len(t) \in Nat /\ Len(r) \in Nat /\ Len(t \o r) = Len(t) + Len(r)
    BY Behind
  <1>2. Len(t) <= Len(t \o r)
    BY <1>1
  <1>3. SubSeq(s \o (t \o r), Len(s) + 1, Len(s) + Len(t)) = SubSeq(t \o r, 1, Len(t))
    BY <1>1, <1>2, PartBehind
  <1>4. QED
    BY <1>3, PartBefore

\* The next token y stands behind t.
LEMMA AfterFound ==
  ASSUME NEW K, NEW s \in Seq(K), NEW t \in Seq(K), NEW y \in K, NEW r \in Seq(K), y \notin ToSet(t)
  PROVE  After(s \o (t \o (<<y>> \o r)), Len(s), y) = Len(s) + Len(t) + 1
  <1> DEFINE c == <<y>> \o r
             b == t \o c
             u == s \o b
             p == Len(s) + Len(t) + 1
             F == {j \in Len(s) + 1 .. Len(u) : u[j] = y}
  <1>1. <<y>> \in Seq(K) /\ Len(<<y>>) = 1 /\ <<y>>[1] = y
    OBVIOUS
  <1>2. c \in Seq(K) /\ Len(c) = 1 + Len(r) /\ c[1] = y /\ Len(r) \in Nat
    BY <1>1, Behind
  <1> HIDE DEF c
  <1>3. b \in Seq(K) /\ Len(b) = Len(t) + Len(c) /\ Len(t) \in Nat
        /\ (\A i \in 1 .. Len(t) : b[i] = t[i]) /\ \A i \in 1 .. Len(c) : b[Len(t) + i] = c[i]
    <2>1. c \in Seq(K)
      BY <1>2
    <2>2. b \in Seq(K) /\ Len(b) = Len(t) + Len(c)
          /\ (\A i \in 1 .. Len(t) : b[i] = t[i]) /\ \A i \in 1 .. Len(c) : b[Len(t) + i] = c[i]
      BY <2>1, Behind
    <2> HIDE DEF b
    <2>3. QED
      BY <2>2
  <1> HIDE DEF b
  <1>4. Len(u) = Len(s) + Len(b) /\ Len(s) \in Nat
        /\ \A i \in 1 .. Len(b) : u[Len(s) + i] = b[i]
    <2>1. b \in Seq(K)
      BY <1>3
    <2>2. Len(u) = Len(s) + Len(b) /\ \A i \in 1 .. Len(b) : u[Len(s) + i] = b[i]
      BY <2>1, Behind
    <2> HIDE DEF u
    <2>3. QED
      BY <2>2
  <1> HIDE DEF u
  <1>5. b[Len(t) + 1] = y /\ Len(t) + 1 \in 1 .. Len(b)
    BY <1>2, <1>3
  <1>6. u[p] = y
    <2>1. p = Len(s) + (Len(t) + 1)
      BY <1>3, <1>4
    <2>2. QED
      BY <1>4, <1>5, <2>1
  <1>7. p \in Len(s) + 1 .. Len(u) /\ p \in Nat
    BY <1>2, <1>3, <1>4
  <1>8. ASSUME NEW j \in Len(s) + 1 .. Len(u), u[j] = y PROVE p <= j
    <2> SUFFICES ASSUME j < p PROVE FALSE
      BY <1>7
    <2> DEFINE k == j - Len(s)
    <2>1. k \in 1 .. Len(t) /\ j = Len(s) + k /\ k \in 1 .. Len(b)
      BY <1>2, <1>3, <1>4
    <2> HIDE DEF k
    <2>2. u[j] = t[k]
      BY <1>3, <1>4, <2>1
    <2>3. t[k] \in ToSet(t)
      BY <2>1 DEF ToSet
    <2>4. QED
      BY <1>8, <2>2, <2>3
  <1>9. p \in F /\ F \subseteq Nat /\ \A j \in F : p <= j
    BY <1>4, <1>6, <1>7, <1>8
  <1>10. After(u, Len(s), y) = IF F = {} THEN 0 ELSE Min(F)
    BY DEF After
  <1>11. Min(F) = p /\ F # {}
    <2> HIDE DEF F, p
    <2>1. QED
      BY <1>9, LeastIs
  <1>12. QED
    BY <1>10, <1>11 DEF u, b, c

\* A part of a text.
LEMMA PartTyped ==
  ASSUME NEW K, NEW text \in Seq(K), NEW a \in Nat \ {0}, NEW b \in Int, b <= Len(text)
  PROVE  /\ SubSeq(text, a, b) \in Seq(K)
         /\ Len(SubSeq(text, a, b)) = IF a <= b THEN b - a + 1 ELSE 0
         /\ \A i \in 1 .. b - a + 1 : SubSeq(text, a, b)[i] = text[a + i - 1]
  <1>1. Len(text) \in Nat /\ \A i \in 1 .. Len(text) : text[i] \in K
    OBVIOUS
  <1>2. \A i \in a .. b : i \in 1 .. Len(text)
    BY <1>1
  <1>3. \A i \in a .. b : text[i] \in K
    BY <1>1, <1>2
  <1>4. QED
    BY <1>3, SubSeqProperties

\* Cutting something out that is longer than what is put in its place.
LEMMA SplicedShorter ==
  ASSUME NEW K, NEW text \in Seq(K), NEW a \in Nat \ {0}, NEW b \in Nat, a <= b, b <= Len(text),
         NEW part \in Seq(K), Len(part) <= b - a
  PROVE  Spliced(text, a, part, b) \in Seq(K) /\ Len(Spliced(text, a, part, b)) < Len(text)
  <1> DEFINE p == SubSeq(text, 1, a - 1)
             q == SubSeq(text, b + 1, Len(text))
  <1>1. Len(text) \in Nat /\ Len(part) \in Nat
    OBVIOUS
  <1>2. p \in Seq(K) /\ Len(p) = a - 1
    <2>1. a - 1 \in Int /\ a - 1 <= Len(text) /\ 1 \in Nat \ {0}
      BY <1>1
    <2>2. p \in Seq(K) /\ Len(p) = IF 1 <= a - 1 THEN (a - 1) - 1 + 1 ELSE 0
      BY <2>1, PartTyped
    <2> HIDE DEF p
    <2>3. QED
      BY <2>2
  <1>3. q \in Seq(K) /\ Len(q) = Len(text) - b
    <2>1. b + 1 \in Nat \ {0} /\ Len(text) \in Int /\ Len(text) <= Len(text)
      BY <1>1
    <2>2. q \in Seq(K) /\ Len(q) = IF b + 1 <= Len(text) THEN Len(text) - (b + 1) + 1 ELSE 0
      BY <2>1, PartTyped
    <2> HIDE DEF q
    <2>3. QED
      BY <1>1, <2>2
  <1>4. Spliced(text, a, part, b) = p \o part \o q
    BY DEF Spliced
  <1> HIDE DEF p, q
  <1>5. p \o part \in Seq(K) /\ Len(p \o part) = Len(p) + Len(part)
    BY <1>2, Behind
  <1> DEFINE pp == p \o part
  <1> HIDE DEF pp
  <1>6. pp \o q \in Seq(K) /\ Len(pp \o q) = Len(pp) + Len(q)
    BY <1>3, <1>5, Behind DEF pp
  <1>7. Len(pp \o q) < Len(text)
    BY <1>1, <1>2, <1>3, <1>5, <1>6 DEF pp
  <1>8. QED
    BY <1>4, <1>6, <1>7 DEF pp

\* It does not matter which of three texts are put together first.
Assoc(s, t, r) == (s \o t) \o r = s \o (t \o r)

LEMMA Regroup ==
  ASSUME NEW K
  PROVE  \A s, t, r \in Seq(K) : Assoc(s, t, r)
  BY ConcatAssociative DEF Assoc

\* What stands in front of it stays.
Stays(K, s, t, p, part, b) ==
  \E r \in Seq(K) : Spliced(s \o t, Len(s) + p, part, b) = s \o r

LEMMA SplicedBehind ==
  ASSUME NEW K, NEW s \in Seq(K), NEW t \in Seq(K), NEW p \in 1 .. Len(t), NEW b \in Nat,
         b <= Len(s) + Len(t), NEW part \in Seq(K)
  PROVE  Stays(K, s, t, p, part, b)
  <1> DEFINE u == s \o t
             v == SubSeq(t, 1, p - 1)
             q == SubSeq(u, b + 1, Len(u))
  <1>1. Len(s) \in Nat /\ Len(t) \in Nat /\ u \in Seq(K) /\ Len(u) = Len(s) + Len(t)
    BY Behind
  <1>r. \A x, y, z \in Seq(K) : Assoc(x, y, z)
    BY Regroup
  <1> HIDE DEF u
  <1>2. v \in Seq(K)
    <2>1. p - 1 \in Int /\ p - 1 <= Len(t) /\ 1 \in Nat \ {0}
      BY <1>1
    <2>2. QED
      BY <2>1, PartTyped
  <1>3. q \in Seq(K)
    <2>1. b + 1 \in Nat \ {0} /\ Len(u) \in Int /\ Len(u) <= Len(u)
      BY <1>1
    <2>2. QED
      BY <1>1, <2>1, PartTyped
  <1>4. SubSeq(u, 1, (Len(s) + p) - 1) = s \o v
    <2> DEFINE w == SubSeq(t, p, Len(t))
    <2>1. w \in Seq(K)
      <3>1. p \in Nat \ {0} /\ Len(t) \in Int /\ Len(t) <= Len(t)
        BY <1>1
      <3>2. QED
        BY <3>1, PartTyped
    <2>2. v \o w = t
      <3>1. 1 \in 1 .. Len(t) + 1 /\ p - 1 \in 1 - 1 .. Len(t) /\ Len(t) \in p - 1 .. Len(t)
            /\ (p - 1) + 1 = p
        BY <1>1
      <3>2. SubSeq(t, 1, p - 1) \o SubSeq(t, (p - 1) + 1, Len(t)) = SubSeq(t, 1, Len(t))
        BY <3>1, ConcatAdjacentSubSeq
      <3>3. SubSeq(t, 1, Len(t)) = t
        BY SubSeqFull
      <3>4. QED
        BY <3>1, <3>2, <3>3
    <2>3. Len(v) = p - 1
      <3>1. p - 1 \in Int /\ p - 1 <= Len(t) /\ 1 \in Nat \ {0}
        BY <1>1
      <3>2. Len(v) = IF 1 <= p - 1 THEN (p - 1) - 1 + 1 ELSE 0
        BY <3>1, PartTyped
      <3> HIDE DEF v
      <3>3. QED
        BY <1>1, <3>2
    <2> HIDE DEF v, w
    <2>4. s \o v \in Seq(K) /\ Len(s \o v) = Len(s) + (p - 1)
      BY <1>2, <2>3, Behind
    <2>5. u = (s \o v) \o w
      <3>1. Assoc(s, v, w)
        BY <1>2, <2>1, <1>r
      <3>2. QED
        BY <2>2, <3>1 DEF u, Assoc
    <2> DEFINE sv == s \o v
    <2> HIDE DEF sv
    <2>6. SubSeq(sv \o w, 1, Len(sv)) = sv
      BY <2>1, <2>4, PartBefore DEF sv
    <2>7. (Len(s) + p) - 1 = Len(s) + (p - 1)
      BY <1>1
    <2>8. QED
      BY <2>4, <2>5, <2>6, <2>7 DEF sv
  <1> HIDE DEF v, q
  <1>5. Spliced(u, Len(s) + p, part, b) = ((s \o v) \o part) \o q
    <2>1. Spliced(u, Len(s) + p, part, b)
          = (SubSeq(u, 1, (Len(s) + p) - 1) \o part) \o SubSeq(u, b + 1, Len(u))
      BY DEF Spliced
    <2>2. SubSeq(u, b + 1, Len(u)) = q
      BY DEF q
    <2>3. QED
      BY <1>4, <2>1, <2>2, Zenon
  <1>6. ((s \o v) \o part) \o q = s \o (v \o (part \o q))
    <2> DEFINE sv == s \o v
               pq == part \o q
    <2>1. sv \in Seq(K) /\ pq \in Seq(K)
      BY <1>2, <1>3, Behind
    <2> HIDE DEF sv, pq
    <2>2. Assoc(s, v, pq) /\ Assoc(sv, part, q)
      BY <1>2, <1>3, <2>1, <1>r
    <2>3. QED
      BY <2>2 DEF Assoc, sv, pq
  <1>7. v \o (part \o q) \in Seq(K)
    <2>1. part \o q \in Seq(K)
      BY <1>3, Behind
    <2>2. QED
      BY <1>2, <2>1, Behind
  <1>8. QED
    BY <1>5, <1>6, <1>7 DEF u, Stays

-----------------------------------------------------------------------------
\* The same for all texts at once, in words that stand for what they say.
Fits(K, s, t) ==
  /\ s \o t \in Seq(K) /\ Len(s \o t) = Len(s) + Len(t)
  /\ \A i \in 1 .. Len(s) : (s \o t)[i] = s[i]
  /\ \A i \in 1 .. Len(t) : (s \o t)[Len(s) + i] = t[i]

LEMMA AllFit ==
  ASSUME NEW K
  PROVE  \A s, t \in Seq(K) : Fits(K, s, t)
  BY Behind DEF Fits

NextIs(s, t, y, r) == After(s \o (t \o (<<y>> \o r)), Len(s), y) = Len(s) + Len(t) + 1

LEMMA AllNext ==
  ASSUME NEW K
  PROVE  \A s, t, r \in Seq(K), y \in K : y \notin ToSet(t) => NextIs(s, t, y, r)
  BY AfterFound DEF NextIs

MatchesAt(s, x, t, kinds) == Match(s \o (<<x>> \o t), kinds) = <<Len(s) + 1, Len(s) + 1>>

LEMMA AllMatch ==
  ASSUME NEW K, NEW kinds
  PROVE  \A s, t \in Seq(K), x \in K :
           Quiet(s, kinds) /\ x.kind \in kinds /\ x.kind \in Openers => MatchesAt(s, x, t, kinds)
  BY MatchAt DEF MatchesAt

-----------------------------------------------------------------------------
\* The turns of the three loops.

\* A turn that leaves the text s \o t as it is or replaces a part of t by less.
Cuts(K, s, t, r) ==
  \/ r = s \o t
  \/ \E p \in 1 .. Len(t) : \E b \in Nat : \E part \in Seq(K) :
       /\ Len(s) + p <= b /\ b <= Len(s) + Len(t) /\ Len(part) <= b - (Len(s) + p)
       /\ r = Spliced(s \o t, Len(s) + p, part, b)

\* What stands in front stays, and the whole gets no longer.
Follows(K, s, t, r) ==
  /\ r \in Seq(K) /\ \E z \in Seq(K) : r = s \o z
  /\ r = s \o t \/ Len(r) < Len(s \o t)

LEMMA CutsBehind ==
  ASSUME NEW K, NEW s \in Seq(K), NEW t \in Seq(K), NEW r, Cuts(K, s, t, r)
  PROVE  Follows(K, s, t, r)
  <1>0. Len(s) \in Nat /\ Len(t) \in Nat /\ s \o t \in Seq(K) /\ Len(s \o t) = Len(s) + Len(t)
    BY Behind
  <1>1. CASE r = s \o t
    BY <1>0, <1>1 DEF Follows
  <1>2. CASE r # s \o t
    <2>1. PICK p \in 1 .. Len(t), b \in Nat, part \in Seq(K) :
            /\ Len(s) + p <= b /\ b <= Len(s) + Len(t) /\ Len(part) <= b - (Len(s) + p)
            /\ r = Spliced(s \o t, Len(s) + p, part, b)
      BY <1>2 DEF Cuts
    <2>2. \E z \in Seq(K) : r = s \o z
      <3>1. Stays(K, s, t, p, part, b)
        BY <2>1, SplicedBehind
      <3>2. PICK z \in Seq(K) : Spliced(s \o t, Len(s) + p, part, b) = s \o z
        BY <3>1 DEF Stays
      <3>3. r = s \o z
        BY <2>1, <3>2, Zenon
      <3>4. QED
        BY <3>3, Zenon
    <2> DEFINE u == s \o t
               a == Len(s) + p
    <2>3. u \in Seq(K) /\ Len(u) = Len(s) + Len(t) /\ a \in Nat \ {0} /\ a <= b /\ b <= Len(u)
          /\ Len(part) <= b - a /\ r = Spliced(u, a, part, b)
      BY <1>0, <2>1
    <2> HIDE DEF u, a
    <2>4. r \in Seq(K) /\ Len(r) < Len(u)
      BY <2>3, SplicedShorter
    <2>5. QED
      BY <2>2, <2>4 DEF u, Follows
  <1>3. QED
    BY <1>1, <1>2

LEMMA IfThenElseCuts ==
  ASSUME NEW K, NEW s \in Seq(K), NEW t \in Seq(K), Quiet(s, {"then"}), NEW symbols
  PROVE  Cuts(K, s, t, IfThenElse(s \o t, symbols))
  <1> DEFINE u == s \o t
             m == Match(u, {"then"})
  <1>0. Len(s) \in Nat /\ Len(t) \in Nat /\ u \in Seq(K) /\ Len(u) = Len(s) + Len(t)
    BY Behind
  <1>1. CASE m = <<>> \/ m[1] # m[2]
    BY <1>1 DEF IfThenElse, Cuts
  <1>2. CASE ~(m = <<>> \/ m[1] # m[2])
    <2>1. PICK p \in 1 .. Len(t) : \E q \in p .. Len(t) : m = <<Len(s) + p, Len(s) + q>>
      BY <1>2, MatchBehind
    <2>q. PICK q \in p .. Len(t) : m = <<Len(s) + p, Len(s) + q>>
      BY <2>1
    <2> DEFINE a == Len(s) + p
               name == u[a].name
               e == After(u, a, Tok("else", name))
               f == IF e = 0 THEN 0 ELSE After(u, e, Tok("endif", name))
               part == IF Filled(symbols, name) THEN SubSeq(u, a + 1, e - 1)
                                                ELSE SubSeq(u, e + 1, f - 1)
    <2>2. m[1] = a /\ m[1] = m[2] /\ m # <<>>
      BY <1>2, <2>q
    <2>3. IfThenElse(u, symbols) = IF f = 0 THEN u ELSE Spliced(u, a, part, f)
      BY <2>2 DEF IfThenElse
    <2> HIDE DEF u, m, name
    <2>4. a \in Nat \ {0} /\ a <= Len(u)
      BY <1>0
    <2> HIDE DEF a
    <2>5. e = 0 \/ e \in a + 1 .. Len(u)
      BY <1>0, <2>4, AfterIs
    <2> HIDE DEF e
    <2>6. f = 0 \/ (e \in a + 1 .. Len(u) /\ f \in e + 1 .. Len(u))
      <3>1. CASE e = 0
        BY <3>1
      <3>2. CASE e # 0
        <4>1. e \in Nat /\ f = After(u, e, Tok("endif", name))
          BY <2>4, <2>5, <3>2
        <4>2. After(u, e, Tok("endif", name)) = 0 \/ After(u, e, Tok("endif", name)) \in e + 1 .. Len(u)
          BY <1>0, <4>1, AfterIs
        <4>3. QED
          BY <2>5, <3>2, <4>1, <4>2
      <3>3. QED
        BY <3>1, <3>2
    <2> HIDE DEF f
    <2>7. CASE f = 0
      BY <2>3, <2>7 DEF Cuts, u
    <2>8. CASE f # 0
      <3>1. /\ SubSeq(u, a + 1, e - 1) \in Seq(K) /\ Len(SubSeq(u, a + 1, e - 1)) <= f - a
        <4>1. a + 1 \in Nat \ {0} /\ e - 1 \in Int /\ e - 1 <= Len(u)
          BY <1>0, <2>4, <2>6, <2>8
        <4>2. /\ SubSeq(u, a + 1, e - 1) \in Seq(K)
              /\ Len(SubSeq(u, a + 1, e - 1)) = IF a + 1 <= e - 1 THEN (e - 1) - (a + 1) + 1 ELSE 0
          BY <1>0, <4>1, PartTyped
        <4>3. QED
          BY <1>0, <2>4, <2>6, <2>8, <4>2
      <3>2. /\ SubSeq(u, e + 1, f - 1) \in Seq(K) /\ Len(SubSeq(u, e + 1, f - 1)) <= f - a
        <4>1. e + 1 \in Nat \ {0} /\ f - 1 \in Int /\ f - 1 <= Len(u)
          BY <1>0, <2>4, <2>6, <2>8
        <4>2. /\ SubSeq(u, e + 1, f - 1) \in Seq(K)
              /\ Len(SubSeq(u, e + 1, f - 1)) = IF e + 1 <= f - 1 THEN (f - 1) - (e + 1) + 1 ELSE 0
          BY <1>0, <4>1, PartTyped
        <4>3. QED
          BY <1>0, <2>4, <2>6, <2>8, <4>2
      <3>3. part \in Seq(K) /\ Len(part) <= f - a
        BY <3>1, <3>2
      <3> HIDE DEF part
      <3>4. f \in Nat /\ a <= f /\ f <= Len(s) + Len(t)
        BY <1>0, <2>4, <2>6, <2>8
      <3>5. IfThenElse(u, symbols) = Spliced(u, a, part, f)
        BY <2>3, <2>8
      <3>6. QED
        BY <3>3, <3>4, <3>5 DEF Cuts, u, a
    <2>9. QED
      BY <2>7, <2>8 DEF u
  <1>3. QED
    BY <1>1, <1>2

LEMMA ConditionalBlockCuts ==
  ASSUME NEW K, NEW s \in Seq(K), NEW t \in Seq(K), Quiet(s, {"start", "dash"}), NEW symbols
  PROVE  Cuts(K, s, t, ConditionalBlock(s \o t, symbols))
  <1> DEFINE u == s \o t
             m == Match(u, {"start", "dash"})
  <1>0. Len(s) \in Nat /\ Len(t) \in Nat /\ u \in Seq(K) /\ Len(u) = Len(s) + Len(t)
    BY Behind
  <1>1. CASE m = <<>> \/ m[1] # m[2] \/ u[m[1]].kind = "dash"
    BY <1>1 DEF ConditionalBlock, Cuts
  <1>2. CASE ~(m = <<>> \/ m[1] # m[2] \/ u[m[1]].kind = "dash")
    <2>1. PICK p \in 1 .. Len(t) : \E q \in p .. Len(t) : m = <<Len(s) + p, Len(s) + q>>
      BY <1>2, MatchBehind
    <2>q. PICK q \in p .. Len(t) : m = <<Len(s) + p, Len(s) + q>>
      BY <2>1
    <2> DEFINE a == Len(s) + p
               name == u[a].name
               f == After(u, a, Tok("end", name))
               part == IF Filled(symbols, name) THEN SubSeq(u, a + 1, f - 1) ELSE <<>>
    <2>2. m[1] = a /\ ~(m = <<>> \/ m[1] # m[2] \/ u[m[1]].kind = "dash")
      BY <1>2, <2>q
    <2>3. ConditionalBlock(u, symbols) = IF f = 0 THEN u ELSE Spliced(u, a, part, f)
      BY <2>2 DEF ConditionalBlock
    <2> HIDE DEF u, m, name
    <2>4. a \in Nat \ {0} /\ a <= Len(u)
      BY <1>0
    <2> HIDE DEF a
    <2>5. f = 0 \/ f \in a + 1 .. Len(u)
      BY <1>0, <2>4, AfterIs
    <2> HIDE DEF f
    <2>7. CASE f = 0
      BY <2>3, <2>7 DEF Cuts, u
    <2>8. CASE f # 0
      <3>1. /\ SubSeq(u, a + 1, f - 1) \in Seq(K) /\ Len(SubSeq(u, a + 1, f - 1)) <= f - a
        <4>1. a + 1 \in Nat \ {0} /\ f - 1 \in Int /\ f - 1 <= Len(u)
          BY <1>0, <2>4, <2>5, <2>8
        <4>2. /\ SubSeq(u, a + 1, f - 1) \in Seq(K)
              /\ Len(SubSeq(u, a + 1, f - 1)) = IF a + 1 <= f - 1 THEN (f - 1) - (a + 1) + 1 ELSE 0
          BY <1>0, <4>1, PartTyped
        <4>3. QED
          BY <1>0, <2>4, <2>5, <2>8, <4>2
      <3>2. <<>> \in Seq(K) /\ Len(<<>>) <= f - a
        <4>1. <<>> \in Seq(K) /\ Len(<<>>) = 0
          OBVIOUS
        <4>2. QED
          BY <1>0, <2>4, <2>5, <2>8, <4>1
      <3>3. part \in Seq(K) /\ Len(part) <= f - a
        BY <3>1, <3>2
      <3> HIDE DEF part
      <3>4. f \in Nat /\ a <= f /\ f <= Len(s) + Len(t)
        BY <1>0, <2>4, <2>5, <2>8
      <3>5. ConditionalBlock(u, symbols) = Spliced(u, a, part, f)
        BY <2>3, <2>8
      <3>6. QED
        BY <3>3, <3>4, <3>5 DEF Cuts, u, a
    <2>9. QED
      BY <2>7, <2>8 DEF u
  <1>3. QED
    BY <1>1, <1>2

\* One turn of RemoveMatches.
RemoveMatch(text, kind) ==
  LET m == Match(text, {kind}) IN IF m = <<>> THEN text ELSE Spliced(text, m[1], <<>>, m[2])

LEMMA RemoveMatchCuts ==
  ASSUME NEW K, NEW s \in Seq(K), NEW t \in Seq(K), NEW kind, Quiet(s, {kind})
  PROVE  Cuts(K, s, t, RemoveMatch(s \o t, kind))
  <1> DEFINE u == s \o t
             m == Match(u, {kind})
  <1>0. Len(s) \in Nat /\ Len(t) \in Nat /\ u \in Seq(K) /\ Len(u) = Len(s) + Len(t)
    BY Behind
  <1>1. CASE m = <<>>
    BY <1>1 DEF RemoveMatch, Cuts
  <1>2. CASE m # <<>>
    <2>1. PICK p \in 1 .. Len(t) : \E q \in p .. Len(t) : m = <<Len(s) + p, Len(s) + q>>
      BY <1>2, MatchBehind
    <2>q. PICK q \in p .. Len(t) : m = <<Len(s) + p, Len(s) + q>>
      BY <2>1
    <2>2. RemoveMatch(u, kind) = Spliced(u, Len(s) + p, <<>>, Len(s) + q)
      BY <1>2, <2>q DEF RemoveMatch
    <2> HIDE DEF u, m
    <2> DEFINE b == Len(s) + q
    <2>3. <<>> \in Seq(K) /\ Len(<<>>) = 0
      OBVIOUS
    <2>4. b \in Nat /\ Len(s) + p <= b /\ b <= Len(s) + Len(t) /\ Len(<<>>) <= b - (Len(s) + p)
      BY <1>0, <2>3
    <2>5. QED
      <3> HIDE DEF b
      <3>1. RemoveMatch(u, kind) = Spliced(u, Len(s) + p, <<>>, b)
        BY <2>2 DEF b
      <3>2. QED
        BY <2>3, <2>4, <3>1 DEF Cuts, u
  <1>3. QED
    BY <1>1, <1>2

\* A condition right behind a quiet text becomes the branch that its name chooses.
ConditionGoes(s, x, b, y, c, z, r, n, symbols) ==
  IfThenElse(s \o (<<x>> \o (b \o (<<y>> \o (c \o (<<z>> \o r))))), symbols)
    = s \o ((IF Filled(symbols, n) THEN b ELSE c) \o r)

LEMMA ConditionTurn ==
  ASSUME NEW K, NEW s \in Seq(K), NEW b \in Seq(K), NEW c \in Seq(K), NEW r \in Seq(K), NEW n,
         Quiet(s, {"then"}), NEW x \in K, NEW y \in K, NEW z \in K,
         x = Tok("then", n), y = Tok("else", n), z = Tok("endif", n),
         y \notin ToSet(b), z \notin ToSet(c), NEW symbols
  PROVE  ConditionGoes(s, x, b, y, c, z, r, n, symbols)
  <1> DEFINE t3 == <<z>> \o r
             t2 == <<y>> \o (c \o t3)
             t1 == <<x>> \o (b \o t2)
             u == s \o t1
             s1 == s \o <<x>>
             s2 == (s1 \o b) \o <<y>>
             s3 == (s2 \o c) \o <<z>>
             p == Len(s) + 1
             e == Len(s1) + Len(b) + 1
             f == Len(s2) + Len(c) + 1
             part == IF Filled(symbols, n) THEN b ELSE c
  <1>k. x.kind = "then" /\ x.name = n
    BY DEF Tok
  <1>r. \A i, j, k \in Seq(K) : Assoc(i, j, k)
    BY Regroup
  <1>f. \A i, j \in Seq(K) : Fits(K, i, j)
    BY AllFit
  <1>0. /\ <<x>> \in Seq(K) /\ <<y>> \in Seq(K) /\ <<z>> \in Seq(K)
        /\ Len(<<x>>) = 1 /\ Len(<<y>>) = 1 /\ Len(<<z>>) = 1 /\ <<x>>[1] = x
    OBVIOUS
  <1>1. t3 \in Seq(K)
    BY <1>0, <1>f DEF Fits
  <1>2. c \o t3 \in Seq(K) /\ t2 \in Seq(K)
    <2> HIDE DEF t3
    <2>1. c \o t3 \in Seq(K)
      BY <1>1, <1>f DEF Fits
    <2>2. QED
      BY <1>0, <2>1, <1>f DEF Fits
  <1>3. b \o t2 \in Seq(K) /\ t1 \in Seq(K)
    <2> HIDE DEF t2
    <2>1. b \o t2 \in Seq(K)
      BY <1>2, <1>f DEF Fits
    <2>2. QED
      BY <1>0, <2>1, <1>f DEF Fits
  <1>4. s1 \in Seq(K) /\ Len(s1) = Len(s) + 1 /\ Len(s) \in Nat
    <2>1. Fits(K, s, <<x>>)
      BY <1>0, <1>f
    <2>2. QED
      BY <1>0, <2>1 DEF Fits
  <1>5. s1 \o b \in Seq(K) /\ s2 \in Seq(K) /\ Len(s2) = Len(s1) + Len(b) + 1 /\ Len(b) \in Nat
    <2> DEFINE v == s1 \o b
    <2> HIDE DEF s1
    <2>a. Fits(K, s1, b)
      BY <1>4, <1>f
    <2>1. v \in Seq(K) /\ Len(v) = Len(s1) + Len(b) /\ Len(b) \in Nat
      BY <2>a DEF Fits
    <2> HIDE DEF v
    <2>b. Fits(K, v, <<y>>)
      BY <1>0, <2>1, <1>f
    <2>2. v \o <<y>> \in Seq(K) /\ Len(v \o <<y>>) = Len(v) + 1
      BY <1>0, <2>b DEF Fits
    <2>3. QED
      BY <1>4, <2>1, <2>2 DEF v
  <1>6. s2 \o c \in Seq(K) /\ s3 \in Seq(K) /\ Len(s3) = Len(s2) + Len(c) + 1 /\ Len(c) \in Nat
    <2> DEFINE v == s2 \o c
    <2> HIDE DEF s2
    <2>a. Fits(K, s2, c)
      BY <1>5, <1>f
    <2>1. v \in Seq(K) /\ Len(v) = Len(s2) + Len(c) /\ Len(c) \in Nat
      BY <2>a DEF Fits
    <2> HIDE DEF v
    <2>b. Fits(K, v, <<z>>)
      BY <1>0, <2>1, <1>f
    <2>2. v \o <<z>> \in Seq(K) /\ Len(v \o <<z>>) = Len(v) + 1
      BY <1>0, <2>b DEF Fits
    <2>3. QED
      BY <1>5, <2>1, <2>2 DEF v
  <1>7. u = s1 \o (b \o t2)
    <2> DEFINE w == b \o t2
    <2> HIDE DEF t2, w
    <2>1. Assoc(s, <<x>>, w)
      BY <1>0, <1>3, <1>r DEF w
    <2>2. QED
      BY <2>1 DEF Assoc, w
  <1>8. u = s2 \o (c \o t3)
    <2> DEFINE w == c \o t3
               v == s1 \o b
    <2> HIDE DEF t3, w, s1, v
    <2>1. Assoc(s1, b, <<y>> \o w) /\ Assoc(v, <<y>>, w)
      <3>1. <<y>> \o w \in Seq(K)
        BY <1>2 DEF w
      <3>2. QED
        BY <1>0, <1>2, <1>4, <1>5, <1>r, <3>1 DEF w, v
    <2> HIDE DEF u
    <2>2. QED
      BY <1>7, <2>1 DEF Assoc, w, v
  <1>9. u = s3 \o r
    <2> DEFINE v == s2 \o c
    <2> HIDE DEF s2, v
    <2>1. Assoc(s2, c, <<z>> \o r) /\ Assoc(v, <<z>>, r)
      BY <1>0, <1>1, <1>5, <1>6, <1>r DEF v
    <2> HIDE DEF u
    <2>2. QED
      BY <1>8, <2>1 DEF Assoc, v
  <1>10. Match(u, {"then"}) = <<p, p>> /\ u[p] = x
    <2> DEFINE w == b \o t2
    <2> HIDE DEF t2, w
    <2>a. MatchesAt(s, x, w, {"then"})
      BY <1>3, <1>k, AllMatch DEF w, Openers
    <2>1. Match(s \o (<<x>> \o w), {"then"}) = <<p, p>>
      BY <2>a DEF MatchesAt
    <2>b. w \in Seq(K) /\ Len(w) \in Nat
      BY <1>3 DEF w
    <2>c. Fits(K, <<x>>, w)
      BY <1>0, <1>f, <2>b
    <2>2. (<<x>> \o w)[1] = x /\ Len(<<x>> \o w) = 1 + Len(w) /\ Len(w) \in Nat
      <3>1. 1 \in 1 .. Len(<<x>>)
        BY <1>0
      <3>2. QED
        BY <1>0, <2>b, <2>c, <3>1 DEF Fits
    <2>3. (s \o (<<x>> \o w))[Len(s) + 1] = x
      <3> DEFINE v == <<x>> \o w
      <3>1. v \in Seq(K) /\ v[1] = x /\ 1 \in 1 .. Len(v)
        BY <1>3, <2>2 DEF w
      <3> HIDE DEF v
      <3>a. Fits(K, s, v)
        BY <1>f, <3>1
      <3>2. (s \o v)[Len(s) + 1] = x
        BY <3>1, <3>a DEF Fits
      <3>3. QED
        BY <3>2 DEF v
    <2>4. QED
      BY <2>1, <2>3 DEF w
  <1> HIDE DEF u
  <1>11. After(u, p, y) = e /\ e # 0
    <2> HIDE DEF s1
    <2>1. c \o t3 \in Seq(K)
      BY <1>2
    <2> DEFINE w == c \o t3
    <2> HIDE DEF t3, w
    <2>a. NextIs(s1, b, y, w)
      BY <1>4, <2>1, AllNext DEF w
    <2>2. After(s1 \o (b \o (<<y>> \o w)), Len(s1), y) = Len(s1) + Len(b) + 1
      BY <2>a DEF NextIs
    <2>3. Len(s1) = p
      BY <1>4
    <2>4. e # 0
      BY <1>4, <1>5
    <2>5. QED
      BY <1>7, <2>2, <2>3, <2>4 DEF w
  <1>12. After(u, e, z) = f /\ f # 0
    <2> HIDE DEF s2
    <2>a. NextIs(s2, c, z, r)
      BY <1>5, AllNext
    <2>1. After(s2 \o (c \o (<<z>> \o r)), Len(s2), z) = Len(s2) + Len(c) + 1
      BY <2>a DEF NextIs
    <2>2. Len(s2) = e
      BY <1>5
    <2>3. f # 0
      BY <1>4, <1>5, <1>6
    <2>4. QED
      BY <1>8, <2>1, <2>2, <2>3
  <1>13. SubSeq(u, 1, p - 1) = s
    <2>1. p - 1 = Len(s)
      BY <1>4
    <2> HIDE DEF t1, p
    <2>2. SubSeq(s \o t1, 1, Len(s)) = s
      BY <1>3, PartBefore
    <2>3. QED
      BY <2>1, <2>2 DEF u
  <1>14. SubSeq(u, p + 1, e - 1) = b
    <2>1. p + 1 = Len(s1) + 1 /\ e - 1 = Len(s1) + Len(b)
      BY <1>4, <1>5
    <2> HIDE DEF s1, t2, p, e
    <2>2. SubSeq(s1 \o (b \o t2), Len(s1) + 1, Len(s1) + Len(b)) = b
      BY <1>2, <1>4, PartMiddle
    <2>3. QED
      BY <1>7, <2>1, <2>2
  <1>15. SubSeq(u, e + 1, f - 1) = c
    <2>1. e + 1 = Len(s2) + 1 /\ f - 1 = Len(s2) + Len(c)
      BY <1>4, <1>5, <1>6
    <2> HIDE DEF s2, t3, e, f
    <2>2. SubSeq(s2 \o (c \o t3), Len(s2) + 1, Len(s2) + Len(c)) = c
      BY <1>1, <1>5, PartMiddle
    <2>3. QED
      BY <1>8, <2>1, <2>2
  <1>16. SubSeq(u, f + 1, Len(u)) = r
    <2>1. f + 1 = Len(s3) + 1 /\ Len(u) = Len(s3) + Len(r)
      <3> HIDE DEF s3
      <3>a. Fits(K, s3, r)
        BY <1>6, <1>f
      <3>1. Len(s3 \o r) = Len(s3) + Len(r)
        BY <3>a DEF Fits
      <3>2. QED
        BY <1>6, <1>9, <3>1
    <2> HIDE DEF s3, f
    <2>2. Len(r) \in Nat /\ Len(r) <= Len(r)
      OBVIOUS
    <2>3. SubSeq(s3 \o r, Len(s3) + 1, Len(s3) + Len(r)) = SubSeq(r, 1, Len(r))
      BY <1>6, <2>2, PartBehind
    <2>4. SubSeq(r, 1, Len(r)) = r
      BY SubSeqFull
    <2>5. QED
      BY <1>9, <2>1, <2>3, <2>4
  <1> HIDE DEF p, e, f
  <1>17. IfThenElse(u, symbols) = Spliced(u, p, part, f)
    <2> DEFINE m == Match(u, {"then"})
    <2>1. m[1] = p /\ ~(m = <<>> \/ m[1] # m[2])
      BY <1>10
    <2>2. u[m[1]].name = n
      BY <1>10, <1>k, <2>1
    <2> HIDE DEF m
    <2> DEFINE ee == After(u, m[1], Tok("else", n))
               ff == IF ee = 0 THEN 0 ELSE After(u, ee, Tok("endif", n))
    <2>3. ee = e /\ ff = f
      BY <1>11, <1>12, <2>1
    <2>4. IfThenElse(u, symbols)
          = IF ff = 0 THEN u
            ELSE Spliced(u, m[1], IF Filled(symbols, n) THEN SubSeq(u, m[1] + 1, ee - 1)
                                                        ELSE SubSeq(u, ee + 1, ff - 1), ff)
      BY <2>1, <2>2 DEF IfThenElse, m
    <2> HIDE DEF ee, ff
    <2>5. QED
      BY <1>12, <1>14, <1>15, <2>1, <2>3, <2>4
  <1>18. Spliced(u, p, part, f) = (s \o part) \o r
    <2> HIDE DEF part
    <2>1. Spliced(u, p, part, f) = (SubSeq(u, 1, p - 1) \o part) \o SubSeq(u, f + 1, Len(u))
      BY DEF Spliced
    <2>2. QED
      BY <1>13, <1>16, <2>1
  <1>19. Assoc(s, part, r)
    BY <1>r
  <1>20. QED
    <2>1. IfThenElse(u, symbols) = s \o (part \o r)
      <3> HIDE DEF part
      <3>1. QED
        BY <1>17, <1>18, <1>19 DEF Assoc
    <2>2. QED
      BY <2>1 DEF ConditionGoes, u, t1, t2, t3

\* A block right behind a quiet text becomes what stands in it, or nothing.
BlockGoes(s, x, b, z, r, n, symbols) ==
  ConditionalBlock(s \o (<<x>> \o (b \o (<<z>> \o r))), symbols)
    = s \o ((IF Filled(symbols, n) THEN b ELSE <<>>) \o r)

LEMMA BlockTurn ==
  ASSUME NEW K, NEW s \in Seq(K), NEW b \in Seq(K), NEW r \in Seq(K), NEW n,
         Quiet(s, {"start", "dash"}), NEW x \in K, NEW z \in K,
         x = Tok("start", n), z = Tok("end", n), z \notin ToSet(b), NEW symbols
  PROVE  BlockGoes(s, x, b, z, r, n, symbols)
  <1> DEFINE t3 == <<z>> \o r
             t1 == <<x>> \o (b \o t3)
             u == s \o t1
             s1 == s \o <<x>>
             s3 == (s1 \o b) \o <<z>>
             p == Len(s) + 1
             f == Len(s1) + Len(b) + 1
             part == IF Filled(symbols, n) THEN b ELSE <<>>
  <1>k. x.kind = "start" /\ x.name = n
    BY DEF Tok
  <1>r. \A i, j, k \in Seq(K) : Assoc(i, j, k)
    BY Regroup
  <1>f. \A i, j \in Seq(K) : Fits(K, i, j)
    BY AllFit
  <1>0. /\ <<x>> \in Seq(K) /\ <<z>> \in Seq(K) /\ <<>> \in Seq(K)
        /\ Len(<<x>>) = 1 /\ Len(<<z>>) = 1 /\ <<x>>[1] = x
    OBVIOUS
  <1>1. t3 \in Seq(K)
    BY <1>0, <1>f DEF Fits
  <1>3. b \o t3 \in Seq(K) /\ t1 \in Seq(K)
    <2> HIDE DEF t3
    <2>1. b \o t3 \in Seq(K)
      BY <1>1, <1>f DEF Fits
    <2>2. QED
      BY <1>0, <2>1, <1>f DEF Fits
  <1>4. s1 \in Seq(K) /\ Len(s1) = Len(s) + 1 /\ Len(s) \in Nat
    <2>1. Fits(K, s, <<x>>)
      BY <1>0, <1>f
    <2>2. QED
      BY <1>0, <2>1 DEF Fits
  <1>5. s1 \o b \in Seq(K) /\ s3 \in Seq(K) /\ Len(s3) = Len(s1) + Len(b) + 1 /\ Len(b) \in Nat
    <2> DEFINE v == s1 \o b
    <2> HIDE DEF s1
    <2>a. Fits(K, s1, b)
      BY <1>4, <1>f
    <2>1. v \in Seq(K) /\ Len(v) = Len(s1) + Len(b) /\ Len(b) \in Nat
      BY <2>a DEF Fits
    <2> HIDE DEF v
    <2>b. Fits(K, v, <<z>>)
      BY <1>0, <2>1, <1>f
    <2>2. v \o <<z>> \in Seq(K) /\ Len(v \o <<z>>) = Len(v) + 1
      BY <1>0, <2>b DEF Fits
    <2>3. QED
      BY <1>4, <2>1, <2>2 DEF v
  <1>7. u = s1 \o (b \o t3)
    <2> DEFINE w == b \o t3
    <2> HIDE DEF t3, w
    <2>1. Assoc(s, <<x>>, w)
      BY <1>0, <1>3, <1>r DEF w
    <2>2. QED
      BY <2>1 DEF Assoc, w
  <1>9. u = s3 \o r
    <2> DEFINE v == s1 \o b
    <2> HIDE DEF s1, v
    <2>1. Assoc(s1, b, <<z>> \o r) /\ Assoc(v, <<z>>, r)
      BY <1>0, <1>1, <1>4, <1>5, <1>r DEF v
    <2> HIDE DEF u
    <2>2. QED
      BY <1>7, <2>1 DEF Assoc, v
  <1>10. Match(u, {"start", "dash"}) = <<p, p>> /\ u[p] = x
    <2> DEFINE w == b \o t3
    <2> HIDE DEF t3, w
    <2>a. MatchesAt(s, x, w, {"start", "dash"})
      BY <1>3, <1>k, AllMatch DEF w, Openers
    <2>1. Match(s \o (<<x>> \o w), {"start", "dash"}) = <<p, p>>
      BY <2>a DEF MatchesAt
    <2>b. w \in Seq(K) /\ Len(w) \in Nat
      BY <1>3 DEF w
    <2>c. Fits(K, <<x>>, w)
      BY <1>0, <1>f, <2>b
    <2>2. (<<x>> \o w)[1] = x /\ Len(<<x>> \o w) = 1 + Len(w) /\ Len(w) \in Nat
      <3>1. 1 \in 1 .. Len(<<x>>)
        BY <1>0
      <3>2. QED
        BY <1>0, <2>b, <2>c, <3>1 DEF Fits
    <2>3. (s \o (<<x>> \o w))[Len(s) + 1] = x
      <3> DEFINE v == <<x>> \o w
      <3>1. v \in Seq(K) /\ v[1] = x /\ 1 \in 1 .. Len(v)
        BY <1>3, <2>2 DEF w
      <3> HIDE DEF v
      <3>a. Fits(K, s, v)
        BY <1>f, <3>1
      <3>2. (s \o v)[Len(s) + 1] = x
        BY <3>1, <3>a DEF Fits
      <3>3. QED
        BY <3>2 DEF v
    <2>4. QED
      BY <2>1, <2>3 DEF w
  <1> HIDE DEF u
  <1>12. After(u, p, z) = f /\ f # 0
    <2> HIDE DEF s1
    <2>a. NextIs(s1, b, z, r)
      BY <1>4, AllNext
    <2>1. After(s1 \o (b \o (<<z>> \o r)), Len(s1), z) = Len(s1) + Len(b) + 1
      BY <2>a DEF NextIs
    <2>2. Len(s1) = p
      BY <1>4
    <2>3. f # 0
      BY <1>4, <1>5
    <2>4. QED
      BY <1>7, <2>1, <2>2, <2>3
  <1>13. SubSeq(u, 1, p - 1) = s
    <2>1. p - 1 = Len(s)
      BY <1>4
    <2> HIDE DEF t1, p
    <2>2. SubSeq(s \o t1, 1, Len(s)) = s
      BY <1>3, PartBefore
    <2>3. QED
      BY <2>1, <2>2 DEF u
  <1>14. SubSeq(u, p + 1, f - 1) = b
    <2>1. p + 1 = Len(s1) + 1 /\ f - 1 = Len(s1) + Len(b)
      BY <1>4, <1>5
    <2> HIDE DEF s1, t3, p, f
    <2>2. SubSeq(s1 \o (b \o t3), Len(s1) + 1, Len(s1) + Len(b)) = b
      BY <1>1, <1>4, PartMiddle
    <2>3. QED
      BY <1>7, <2>1, <2>2
  <1>16. SubSeq(u, f + 1, Len(u)) = r
    <2>1. f + 1 = Len(s3) + 1 /\ Len(u) = Len(s3) + Len(r)
      <3> HIDE DEF s3
      <3>a. Fits(K, s3, r)
        BY <1>5, <1>f
      <3>1. Len(s3 \o r) = Len(s3) + Len(r)
        BY <3>a DEF Fits
      <3>2. QED
        BY <1>5, <1>9, <3>1
    <2> HIDE DEF s3, f
    <2>2. Len(r) \in Nat /\ Len(r) <= Len(r)
      OBVIOUS
    <2>3. SubSeq(s3 \o r, Len(s3) + 1, Len(s3) + Len(r)) = SubSeq(r, 1, Len(r))
      BY <1>5, <2>2, PartBehind
    <2>4. SubSeq(r, 1, Len(r)) = r
      BY SubSeqFull
    <2>5. QED
      BY <1>9, <2>1, <2>3, <2>4
  <1> HIDE DEF p, f
  <1>17. ConditionalBlock(u, symbols) = Spliced(u, p, part, f)
    <2> DEFINE m == Match(u, {"start", "dash"})
    <2>1. m[1] = p /\ ~(m = <<>> \/ m[1] # m[2] \/ u[m[1]].kind = "dash")
      BY <1>10, <1>k
    <2>2. u[m[1]].name = n
      BY <1>10, <1>k, <2>1
    <2> HIDE DEF m
    <2> DEFINE ff == After(u, m[1], Tok("end", n))
    <2>3. ff = f
      BY <1>12, <2>1
    <2>4. ConditionalBlock(u, symbols)
          = IF ff = 0 THEN u
            ELSE Spliced(u, m[1], IF Filled(symbols, n) THEN SubSeq(u, m[1] + 1, ff - 1) ELSE <<>>, ff)
      BY <2>1, <2>2 DEF ConditionalBlock, m
    <2> HIDE DEF ff
    <2>5. QED
      BY <1>12, <1>14, <2>1, <2>3, <2>4
  <1>18. Spliced(u, p, part, f) = (s \o part) \o r
    <2> HIDE DEF part
    <2>1. Spliced(u, p, part, f) = (SubSeq(u, 1, p - 1) \o part) \o SubSeq(u, f + 1, Len(u))
      BY DEF Spliced
    <2>2. QED
      BY <1>13, <1>16, <2>1
  <1>19. Assoc(s, part, r)
    <2>1. part \in Seq(K)
      BY <1>0
    <2> HIDE DEF part
    <2>2. QED
      BY <1>r, <2>1
  <1>20. QED
    <2>1. ConditionalBlock(u, symbols) = s \o (part \o r)
      <3> HIDE DEF part
      <3>1. QED
        BY <1>17, <1>18, <1>19 DEF Assoc
    <2>2. QED
      BY <2>1 DEF BlockGoes, u, t1, t3

-----------------------------------------------------------------------------
\* The loops take all turns.

\* X holds what a fold over a comes to that takes the turns of a function.
TurnsOf(X, G, A, a) ==
  /\ X[{}] = a
  /\ \A S \in SUBSET DOMAIN a :
       S # {} /\ X[S \ {Max(S)}] \in A => X[S] = G[X[S \ {Max(S)}]]

TurnsFit(K, G, A, a) ==
  /\ \E X \in [SUBSET DOMAIN a -> A] :
       X = [S \in SUBSET DOMAIN a |-> IF S = {} THEN a ELSE G[X[S \ {Max(S)}]]]
  /\ \A S \in SUBSET DOMAIN a : S # {} => S \ {Max(S)} \in SUBSET DOMAIN a
  /\ \A X : TurnsOf(X, G, A, a) => X[DOMAIN a] = AllTurns(G, A, a)

LEMMA TurnsFold ==
  ASSUME NEW K, NEW A \in SUBSET Seq(K), NEW G \in [A -> A], NEW a \in A
  PROVE  TurnsFit(K, G, A, a)
  <1> DEFINE F == Turn(G, A, K)
  <1>1. F \in Stepper(A, K) /\ \A x \in A, e \in K : F[<<x, e>>] = G[x]
    BY DEF Turn, Stepper
  <1>2. a \in Seq(K) /\ DOMAIN a = 1 .. Len(a) /\ Len(a) \in Nat /\ \A i \in 1 .. Len(a) : a[i] \in K
    <2>1. a \in Seq(K)
      OBVIOUS
    <2>2. QED
      BY <2>1
  <1> HIDE DEF F
  <1>3. \A S \in SUBSET DOMAIN a :
          S # {} => S \ {Max(S)} \in SUBSET DOMAIN a /\ a[Max(S)] \in K
    <2> SUFFICES ASSUME NEW S \in SUBSET DOMAIN a, S # {}
                 PROVE  S \ {Max(S)} \in SUBSET DOMAIN a /\ a[Max(S)] \in K
      OBVIOUS
    <2>1. Max(S) \in 1 .. Len(a)
      BY <1>2, MaxInside
    <2>2. QED
      BY <1>2, <2>1
  <1>4. \E X \in [SUBSET DOMAIN a -> A] :
          X = [S \in SUBSET DOMAIN a |-> IF S = {} THEN a ELSE G[X[S \ {Max(S)}]]]
    <2>1. PICK X \in [SUBSET DOMAIN a -> A] : Folded(X, F, a, a)
      BY <1>1, <1>2, FoldExists
    <2>2. X = [S \in SUBSET DOMAIN a |-> IF S = {} THEN a ELSE F[<<X[S \ {Max(S)}], a[Max(S)]>>]]
      BY <2>1 DEF Folded
    <2>3. \A S \in SUBSET DOMAIN a : S # {} => F[<<X[S \ {Max(S)}], a[Max(S)]>>] = G[X[S \ {Max(S)}]]
      BY <1>1, <1>3, <2>1
    <2>4. X = [S \in SUBSET DOMAIN a |-> IF S = {} THEN a ELSE G[X[S \ {Max(S)}]]]
      BY <2>2, <2>3
    <2>5. QED
      BY <2>4
  <1>5. ASSUME NEW X, TurnsOf(X, G, A, a) PROVE X[DOMAIN a] = AllTurns(G, A, a)
    <2>1. Solves(X, F, a, A, a)
      BY <1>1, <1>3, <1>5 DEF Solves, TurnsOf
    <2>2. QED
      BY <1>2, <2>1, TurnedFold DEF F, AllTurns
  <1>6. QED
    BY <1>3, <1>4, <1>5 DEF TurnsFit

\* A function takes the turns of handle_if_then_else, and so on.
LEMMA HandleIfThenElseTurns ==
  ASSUME NEW K, NEW A \in SUBSET Seq(K), NEW symbols, NEW G \in [A -> A],
         \A t \in A : G[t] = IfThenElse(t, symbols), NEW a \in A
  PROVE  HandleIfThenElse(a, symbols) = AllTurns(G, A, a)
  <1> DEFINE Body(X, S) == IF S = {} THEN a ELSE IfThenElse(X[S \ {Max(S)}], symbols)
             Z == CHOOSE X : X = [S \in SUBSET DOMAIN a |-> Body(X, S)]
  <1>1. HandleIfThenElse(a, symbols) = Z[DOMAIN a]
    BY DEF HandleIfThenElse, FoldLeft, MapThenFoldSet
  <1>0. TurnsFit(K, G, A, a)
    BY TurnsFold
  <1>2. PICK X \in [SUBSET DOMAIN a -> A] :
          X = [S \in SUBSET DOMAIN a |-> IF S = {} THEN a ELSE G[X[S \ {Max(S)}]]]
    BY <1>0 DEF TurnsFit
  <1>3. \A S \in SUBSET DOMAIN a : S # {} => S \ {Max(S)} \in SUBSET DOMAIN a
    BY <1>0 DEF TurnsFit
  <1>4. X = [S \in SUBSET DOMAIN a |-> Body(X, S)]
    <2>1. \A S \in SUBSET DOMAIN a : S # {} => G[X[S \ {Max(S)}]] = IfThenElse(X[S \ {Max(S)}], symbols)
      BY <1>2, <1>3
    <2>2. QED
      BY <1>2, <2>1
  <1>5. Z = [S \in SUBSET DOMAIN a |-> Body(Z, S)]
    <2> HIDE DEF Body
    <2>1. QED
      BY <1>4
  <1> HIDE DEF Z
  <1>6. TurnsOf(Z, G, A, a)
    BY <1>5 DEF TurnsOf
  <1>7. QED
    BY <1>0, <1>1, <1>6 DEF TurnsFit

LEMMA HandleConditionalBlocksTurns ==
  ASSUME NEW K, NEW A \in SUBSET Seq(K), NEW symbols, NEW G \in [A -> A],
         \A t \in A : G[t] = ConditionalBlock(t, symbols), NEW a \in A
  PROVE  HandleConditionalBlocks(a, symbols) = AllTurns(G, A, a)
  <1> DEFINE Body(X, S) == IF S = {} THEN a ELSE ConditionalBlock(X[S \ {Max(S)}], symbols)
             Z == CHOOSE X : X = [S \in SUBSET DOMAIN a |-> Body(X, S)]
  <1>1. HandleConditionalBlocks(a, symbols) = Z[DOMAIN a]
    BY DEF HandleConditionalBlocks, FoldLeft, MapThenFoldSet
  <1>0. TurnsFit(K, G, A, a)
    BY TurnsFold
  <1>2. PICK X \in [SUBSET DOMAIN a -> A] :
          X = [S \in SUBSET DOMAIN a |-> IF S = {} THEN a ELSE G[X[S \ {Max(S)}]]]
    BY <1>0 DEF TurnsFit
  <1>3. \A S \in SUBSET DOMAIN a : S # {} => S \ {Max(S)} \in SUBSET DOMAIN a
    BY <1>0 DEF TurnsFit
  <1>4. X = [S \in SUBSET DOMAIN a |-> Body(X, S)]
    <2>1. \A S \in SUBSET DOMAIN a : S # {} => G[X[S \ {Max(S)}]] = ConditionalBlock(X[S \ {Max(S)}], symbols)
      BY <1>2, <1>3
    <2>2. QED
      BY <1>2, <2>1
  <1>5. Z = [S \in SUBSET DOMAIN a |-> Body(Z, S)]
    <2> HIDE DEF Body
    <2>1. QED
      BY <1>4
  <1> HIDE DEF Z
  <1>6. TurnsOf(Z, G, A, a)
    BY <1>5 DEF TurnsOf
  <1>7. QED
    BY <1>0, <1>1, <1>6 DEF TurnsFit

LEMMA RemoveMatchesTurns ==
  ASSUME NEW K, NEW A \in SUBSET Seq(K), NEW kind, NEW G \in [A -> A],
         \A t \in A : G[t] = RemoveMatch(t, kind), NEW a \in A
  PROVE  RemoveMatches(a, kind) = AllTurns(G, A, a)
  <1> DEFINE Body(X, S) ==
               IF S = {} THEN a
               ELSE IF Match(X[S \ {Max(S)}], {kind}) = <<>> THEN X[S \ {Max(S)}]
               ELSE Spliced(X[S \ {Max(S)}], Match(X[S \ {Max(S)}], {kind})[1], <<>>,
                            Match(X[S \ {Max(S)}], {kind})[2])
             Z == CHOOSE X : X = [S \in SUBSET DOMAIN a |-> Body(X, S)]
  <1>1. RemoveMatches(a, kind) = Z[DOMAIN a]
    BY DEF RemoveMatches, FoldLeft, MapThenFoldSet
  <1>0. TurnsFit(K, G, A, a)
    BY TurnsFold
  <1>2. PICK X \in [SUBSET DOMAIN a -> A] :
          X = [S \in SUBSET DOMAIN a |-> IF S = {} THEN a ELSE G[X[S \ {Max(S)}]]]
    BY <1>0 DEF TurnsFit
  <1>3. \A S \in SUBSET DOMAIN a : S # {} => S \ {Max(S)} \in SUBSET DOMAIN a
    BY <1>0 DEF TurnsFit
  <1>b. \A Y, S : Body(Y, S) = IF S = {} THEN a ELSE RemoveMatch(Y[S \ {Max(S)}], kind)
    BY DEF RemoveMatch
  <1>4. X = [S \in SUBSET DOMAIN a |-> Body(X, S)]
    <2>1. \A S \in SUBSET DOMAIN a : S # {} => G[X[S \ {Max(S)}]] = RemoveMatch(X[S \ {Max(S)}], kind)
      BY <1>2, <1>3
    <2> HIDE DEF Body
    <2>2. QED
      BY <1>2, <1>b, <2>1
  <1> HIDE DEF Body
  <1>5. Z = [S \in SUBSET DOMAIN a |-> Body(Z, S)]
    BY <1>4
  <1> HIDE DEF Z
  <1>6. TurnsOf(Z, G, A, a)
    BY <1>5, <1>b DEF TurnsOf
  <1>7. QED
    BY <1>0, <1>1, <1>6 DEF TurnsFit

\* What a loop L does that takes turns of g for markers of the kinds: a turn first
\* or not, it comes to the same; it ends where a turn changes nothing; and a quiet
\* text in front stays.
Runs(K, L, g, kinds) ==
  /\ \A t \in Seq(K) : L[t] \in Seq(K) /\ L[t] = L[g[t]] /\ g[L[t]] = L[t]
  /\ \A s, t \in Seq(K) : Quiet(s, kinds) => \E z \in Seq(K) : L[s \o t] = s \o z
  /\ \A s \in Seq(K) : Quiet(s, kinds) => L[s] = s

LEMMA LoopRuns ==
  ASSUME NEW K, NEW kinds, NEW L, NEW g \in [Seq(K) -> Seq(K)],
         \A A \in SUBSET Seq(K) : \A G \in [A -> A] :
           (\A t \in A : G[t] = g[t]) => \A a \in A : L[a] = AllTurns(G, A, a),
         \A s, t \in Seq(K) : Quiet(s, kinds) => Cuts(K, s, t, g[s \o t]),
         \A s \in Seq(K) : Quiet(s, kinds) => g[s] = s
  PROVE  Runs(K, L, g, kinds)
  <1>0. <<>> \in Seq(K) /\ Quiet(<<>>, kinds) /\ \A t \in Seq(K) : <<>> \o t = t
    <2>1. <<>> \in Seq(K) /\ Len(<<>>) = 0
      OBVIOUS
    <2>2. QED
      BY <2>1, ConcatEmptySeq DEF Quiet
  <1>1. Shortens(g, Seq(K))
    <2> SUFFICES ASSUME NEW t \in Seq(K) PROVE g[t] = t \/ Len(g[t]) < Len(t)
      BY DEF Shortens
    <2>1. Cuts(K, <<>>, t, g[t])
      BY <1>0
    <2> DEFINE r == g[t]
    <2> HIDE DEF r
    <2>2. Cuts(K, <<>>, t, r)
      BY <2>1 DEF r
    <2>3. r = <<>> \o t \/ Len(r) < Len(<<>> \o t)
      BY <1>0, <2>2, CutsBehind DEF Follows
    <2>4. QED
      BY <1>0, <2>3 DEF r
  <1>2. \A t \in Seq(K) : L[t] = AllTurns(g, Seq(K), t)
    <2> DEFINE A == Seq(K)
    <2>1. A \in SUBSET Seq(K) /\ g \in [A -> A]
      OBVIOUS
    <2> HIDE DEF A
    <2>2. \A a \in A : L[a] = AllTurns(g, A, a)
      BY <2>1
    <2>3. QED
      BY <2>2 DEF A
  <1>3. ASSUME NEW t \in Seq(K)
        PROVE  L[t] \in Seq(K) /\ L[t] = L[g[t]] /\ g[L[t]] = L[t] /\ (g[t] = t => L[t] = t)
    <2> DEFINE A == Seq(K)
    <2>0. g[t] \in Seq(K)
      OBVIOUS
    <2>1. /\ AllTurns(g, A, t) \in A /\ AllTurns(g, A, t) = AllTurns(g, A, g[t])
          /\ g[t] = t => AllTurns(g, A, t) = t
          /\ g[AllTurns(g, A, t)] = AllTurns(g, A, t)
      <3>1. A \in SUBSET Seq(K) /\ g \in [A -> A] /\ t \in A /\ Shortens(g, A)
        BY <1>1
      <3> HIDE DEF A
      <3>2. QED
        BY <3>1, TurnsRunOut
    <2>2. QED
      BY <1>2, <2>0, <2>1
  <1>4. ASSUME NEW s \in Seq(K), NEW t \in Seq(K), Quiet(s, kinds)
        PROVE  \E z \in Seq(K) : L[s \o t] = s \o z
    <2> DEFINE A == {s \o z : z \in Seq(K)}
               G == [u \in A |-> g[u]]
    <2>1. A \in SUBSET Seq(K)
      <3>1. ASSUME NEW z \in Seq(K) PROVE s \o z \in Seq(K)
        BY Behind
      <3>2. QED
        BY <3>1
    <2>2. ASSUME NEW u \in A PROVE g[u] \in A /\ (g[u] = u \/ Len(g[u]) < Len(u))
      <3>1. PICK z \in Seq(K) : u = s \o z
        OBVIOUS
      <3> DEFINE r == g[u]
      <3> HIDE DEF r
      <3>2. Cuts(K, s, z, r)
        BY <1>4, <3>1 DEF r
      <3>f. Follows(K, s, z, r)
        BY <3>2, CutsBehind
      <3>3. (\E y \in Seq(K) : r = s \o y) /\ (r = s \o z \/ Len(r) < Len(s \o z))
        BY <3>f DEF Follows
      <3>4. QED
        BY <3>1, <3>3 DEF r
    <2>3. G \in [A -> A] /\ Shortens(G, A) /\ (\A u \in A : G[u] = g[u]) /\ s \o t \in A
      BY <2>2 DEF Shortens
    <2>a. \A r \in A : \E z \in Seq(K) : r = s \o z
      OBVIOUS
    <2> HIDE DEF A, G
    <2>4. L[s \o t] = AllTurns(G, A, s \o t)
      BY <2>1, <2>3
    <2>5. AllTurns(G, A, s \o t) \in A
      BY <2>1, <2>3, TurnsRunOut
    <2>6. QED
      BY <2>4, <2>5, <2>a
  <1>5. QED
    BY <1>3, <1>4 DEF Runs

\* The three loops.
ConditionLoop(K, symbols) == [t \in Seq(K) |-> HandleIfThenElse(t, symbols)]
BlockLoop(K, symbols) == [t \in Seq(K) |-> HandleConditionalBlocks(t, symbols)]
CleaningLoop(K, kind) == [t \in Seq(K) |-> RemoveMatches(t, kind)]

LEMMA ConditionLoopRuns ==
  ASSUME NEW K, NEW symbols
  PROVE  Runs(K, ConditionLoop(K, symbols), [t \in Seq(K) |-> IfThenElse(t, symbols)], {"then"})
  <1> DEFINE L == ConditionLoop(K, symbols)
             g == [t \in Seq(K) |-> IfThenElse(t, symbols)]
             kinds == {"then"}
  <1>0. <<>> \in Seq(K) /\ Quiet(<<>>, kinds) /\ \A t \in Seq(K) : <<>> \o t = t
    <2>1. <<>> \in Seq(K) /\ Len(<<>>) = 0
      OBVIOUS
    <2>2. QED
      BY <2>1, ConcatEmptySeq DEF Quiet
  <1>1. ASSUME NEW s \in Seq(K), NEW t \in Seq(K), Quiet(s, kinds)
        PROVE  s \o t \in Seq(K) /\ Cuts(K, s, t, IfThenElse(s \o t, symbols))
    BY <1>1, IfThenElseCuts, Behind
  <1>2. g \in [Seq(K) -> Seq(K)]
    <2> SUFFICES ASSUME NEW t \in Seq(K) PROVE IfThenElse(t, symbols) \in Seq(K)
      OBVIOUS
    <2> DEFINE r == IfThenElse(t, symbols)
    <2>1. Cuts(K, <<>>, t, r)
      BY <1>0, <1>1
    <2> HIDE DEF r
    <2>2. r \in Seq(K)
      BY <1>0, <2>1, CutsBehind DEF Follows
    <2>3. QED
      BY <2>2 DEF r
  <1>3. \A s, t \in Seq(K) : Quiet(s, kinds) => Cuts(K, s, t, g[s \o t])
    BY <1>1
  <1>4. \A s \in Seq(K) : Quiet(s, kinds) => g[s] = s
    BY MatchNone DEF IfThenElse
  <1>5. ASSUME NEW A \in SUBSET Seq(K), NEW G \in [A -> A], \A t \in A : G[t] = g[t], NEW a \in A
        PROVE  L[a] = AllTurns(G, A, a)
    <2>1. \A t \in A : G[t] = IfThenElse(t, symbols)
      BY <1>5
    <2>2. L[a] = HandleIfThenElse(a, symbols)
      BY DEF ConditionLoop
    <2> HIDE DEF L, g
    <2>3. QED
      BY <2>1, <2>2, HandleIfThenElseTurns
  <1> HIDE DEF L, g, kinds
  <1>6. Runs(K, L, g, kinds)
    BY <1>2, <1>3, <1>4, <1>5, LoopRuns
  <1>7. QED
    BY <1>6 DEF L, g, kinds

LEMMA BlockLoopRuns ==
  ASSUME NEW K, NEW symbols
  PROVE  Runs(K, BlockLoop(K, symbols), [t \in Seq(K) |-> ConditionalBlock(t, symbols)],
              {"start", "dash"})
  <1> DEFINE L == BlockLoop(K, symbols)
             g == [t \in Seq(K) |-> ConditionalBlock(t, symbols)]
             kinds == {"start", "dash"}
  <1>0. <<>> \in Seq(K) /\ Quiet(<<>>, kinds) /\ \A t \in Seq(K) : <<>> \o t = t
    <2>1. <<>> \in Seq(K) /\ Len(<<>>) = 0
      OBVIOUS
    <2>2. QED
      BY <2>1, ConcatEmptySeq DEF Quiet
  <1>1. ASSUME NEW s \in Seq(K), NEW t \in Seq(K), Quiet(s, kinds)
        PROVE  s \o t \in Seq(K) /\ Cuts(K, s, t, ConditionalBlock(s \o t, symbols))
    BY <1>1, ConditionalBlockCuts, Behind
  <1>2. g \in [Seq(K) -> Seq(K)]
    <2> SUFFICES ASSUME NEW t \in Seq(K) PROVE ConditionalBlock(t, symbols) \in Seq(K)
      OBVIOUS
    <2> DEFINE r == ConditionalBlock(t, symbols)
    <2>1. Cuts(K, <<>>, t, r)
      BY <1>0, <1>1
    <2> HIDE DEF r
    <2>2. r \in Seq(K)
      BY <1>0, <2>1, CutsBehind DEF Follows
    <2>3. QED
      BY <2>2 DEF r
  <1>3. \A s, t \in Seq(K) : Quiet(s, kinds) => Cuts(K, s, t, g[s \o t])
    BY <1>1
  <1>4. \A s \in Seq(K) : Quiet(s, kinds) => g[s] = s
    BY MatchNone DEF ConditionalBlock
  <1>5. ASSUME NEW A \in SUBSET Seq(K), NEW G \in [A -> A], \A t \in A : G[t] = g[t], NEW a \in A
        PROVE  L[a] = AllTurns(G, A, a)
    <2>1. \A t \in A : G[t] = ConditionalBlock(t, symbols)
      BY <1>5
    <2>2. L[a] = HandleConditionalBlocks(a, symbols)
      BY DEF BlockLoop
    <2> HIDE DEF L, g
    <2>3. QED
      BY <2>1, <2>2, HandleConditionalBlocksTurns
  <1> HIDE DEF L, g, kinds
  <1>6. Runs(K, L, g, kinds)
    BY <1>2, <1>3, <1>4, <1>5, LoopRuns
  <1>7. QED
    BY <1>6 DEF L, g, kinds

LEMMA CleaningLoopRuns ==
  ASSUME NEW K, NEW kind
  PROVE  Runs(K, CleaningLoop(K, kind), [t \in Seq(K) |-> RemoveMatch(t, kind)], {kind})
  <1> DEFINE L == CleaningLoop(K, kind)
             g == [t \in Seq(K) |-> RemoveMatch(t, kind)]
             kinds == {kind}
  <1>0. <<>> \in Seq(K) /\ Quiet(<<>>, kinds) /\ \A t \in Seq(K) : <<>> \o t = t
    <2>1. <<>> \in Seq(K) /\ Len(<<>>) = 0
      OBVIOUS
    <2>2. QED
      BY <2>1, ConcatEmptySeq DEF Quiet
  <1>1. ASSUME NEW s \in Seq(K), NEW t \in Seq(K), Quiet(s, kinds)
        PROVE  s \o t \in Seq(K) /\ Cuts(K, s, t, RemoveMatch(s \o t, kind))
    BY <1>1, RemoveMatchCuts, Behind
  <1>2. g \in [Seq(K) -> Seq(K)]
    <2> SUFFICES ASSUME NEW t \in Seq(K) PROVE RemoveMatch(t, kind) \in Seq(K)
      OBVIOUS
    <2> DEFINE r == RemoveMatch(t, kind)
    <2>1. Cuts(K, <<>>, t, r)
      BY <1>0, <1>1
    <2> HIDE DEF r
    <2>2. r \in Seq(K)
      BY <1>0, <2>1, CutsBehind DEF Follows
    <2>3. QED
      BY <2>2 DEF r
  <1>3. \A s, t \in Seq(K) : Quiet(s, kinds) => Cuts(K, s, t, g[s \o t])
    BY <1>1
  <1>4. \A s \in Seq(K) : Quiet(s, kinds) => g[s] = s
    BY MatchNone DEF RemoveMatch
  <1>5. ASSUME NEW A \in SUBSET Seq(K), NEW G \in [A -> A], \A t \in A : G[t] = g[t], NEW a \in A
        PROVE  L[a] = AllTurns(G, A, a)
    <2>1. \A t \in A : G[t] = RemoveMatch(t, kind)
      BY <1>5
    <2>2. L[a] = RemoveMatches(a, kind)
      BY DEF CleaningLoop
    <2> HIDE DEF L, g
    <2>3. QED
      BY <2>1, <2>2, RemoveMatchesTurns
  <1> HIDE DEF L, g, kinds
  <1>6. Runs(K, L, g, kinds)
    BY <1>2, <1>3, <1>4, <1>5, LoopRuns
  <1>7. QED
    BY <1>6 DEF L, g, kinds

-----------------------------------------------------------------------------
\* What the loops make of a part of a text, whatever stands around it.

\* Behind a quiet text L makes the same of U as of S, which is quiet.
Yields(K, L, kinds, U, S) ==
  /\ S \in Seq(K) /\ Quiet(S, kinds)
  /\ \A A, Z \in Seq(K) : Quiet(A, kinds) => L[A \o (U \o Z)] = L[A \o (S \o Z)]

\* Four texts in a row.
Row(A, B, C, D) ==
  A \o ((B \o C) \o D) = A \o (B \o (C \o D)) /\ A \o (B \o (C \o D)) = (A \o B) \o (C \o D)

LEMMA RowsAre ==
  ASSUME NEW K
  PROVE  \A A, B, C, D \in Seq(K) : Row(A, B, C, D)
  <1> SUFFICES ASSUME NEW A \in Seq(K), NEW B \in Seq(K), NEW C \in Seq(K), NEW D \in Seq(K)
               PROVE  Row(A, B, C, D)
    OBVIOUS
  <1> DEFINE CD == C \o D
  <1>1. CD \in Seq(K)
    BY Behind
  <1> HIDE DEF CD
  <1>2. Assoc(B, C, D) /\ Assoc(A, B, CD)
    BY <1>1, Regroup
  <1>3. QED
    BY <1>2 DEF Row, Assoc, CD

LEMMA YieldsSame ==
  ASSUME NEW K, NEW L, NEW kinds, NEW S \in Seq(K), Quiet(S, kinds)
  PROVE  Yields(K, L, kinds, S, S)
  BY DEF Yields

LEMMA YieldsConcat ==
  ASSUME NEW K, NEW L, NEW kinds, NEW U \in Seq(K), NEW V \in Seq(K), NEW S, NEW T,
         Yields(K, L, kinds, U, S), Yields(K, L, kinds, V, T)
  PROVE  Yields(K, L, kinds, U \o V, S \o T)
  <1>1. S \in Seq(K) /\ Quiet(S, kinds) /\ T \in Seq(K) /\ Quiet(T, kinds)
    BY DEF Yields
  <1>2. S \o T \in Seq(K) /\ Quiet(S \o T, kinds)
    BY <1>1, Behind, QuietConcat
  <1>3. ASSUME NEW A \in Seq(K), NEW Z \in Seq(K), Quiet(A, kinds)
        PROVE  L[A \o ((U \o V) \o Z)] = L[A \o ((S \o T) \o Z)]
    <2> DEFINE VZ == V \o Z
               TZ == T \o Z
               AS == A \o S
    <2>1. VZ \in Seq(K) /\ TZ \in Seq(K) /\ AS \in Seq(K) /\ Quiet(AS, kinds)
      BY <1>1, <1>3, Behind, QuietConcat
    <2> HIDE DEF VZ, TZ, AS
    <2>2. L[A \o (U \o VZ)] = L[A \o (S \o VZ)]
      BY <1>3, <2>1 DEF Yields
    <2>3. L[AS \o (V \o Z)] = L[AS \o (T \o Z)]
      BY <2>1 DEF Yields
    <2>4. Row(A, U, V, Z) /\ Row(A, S, V, Z) /\ Row(A, S, T, Z)
      BY <1>1, RowsAre
    <2>5. QED
      BY <2>2, <2>3, <2>4 DEF Row, VZ, AS
  <1>4. QED
    BY <1>2, <1>3 DEF Yields

\* The elements of two texts.
Unites(s, t) == ToSet(s \o t) = ToSet(s) \cup ToSet(t)

LEMMA AllUnite ==
  ASSUME NEW K
  PROVE  \A s, t \in Seq(K) : Unites(s, t)
  <1> SUFFICES ASSUME NEW s \in Seq(K), NEW t \in Seq(K) PROVE Unites(s, t)
    OBVIOUS
  <1> DEFINE u == s \o t
  <1>1. Len(s) \in Nat /\ Len(t) \in Nat /\ Len(u) = Len(s) + Len(t) /\ DOMAIN u = 1 .. Len(s) + Len(t)
        /\ (\A i \in 1 .. Len(s) : u[i] = s[i])
        /\ (\A i \in 1 .. Len(t) : u[Len(s) + i] = t[i])
        /\ \A i \in Len(s) + 1 .. Len(s) + Len(t) :
             u[i] = t[i - Len(s)] /\ i - Len(s) \in 1 .. Len(t)
    BY Behind
  <1>2. DOMAIN s = 1 .. Len(s) /\ DOMAIN t = 1 .. Len(t)
    OBVIOUS
  <1> HIDE DEF u
  <1>3. ASSUME NEW x \in ToSet(u) PROVE x \in ToSet(s) \cup ToSet(t)
    <2>1. PICK i \in 1 .. Len(s) + Len(t) : u[i] = x
      BY <1>1 DEF ToSet
    <2>2. CASE i \in 1 .. Len(s)
      BY <1>1, <1>2, <2>1, <2>2 DEF ToSet
    <2>3. CASE i \in Len(s) + 1 .. Len(s) + Len(t)
      BY <1>1, <1>2, <2>1, <2>3 DEF ToSet
    <2>4. QED
      BY <1>1, <2>2, <2>3
  <1>4. ASSUME NEW x \in ToSet(s) PROVE x \in ToSet(u)
    <2>1. PICK i \in 1 .. Len(s) : s[i] = x
      BY <1>2 DEF ToSet
    <2>2. i \in DOMAIN u /\ u[i] = x
      BY <1>1, <2>1
    <2>3. QED
      BY <2>2 DEF ToSet
  <1>5. ASSUME NEW x \in ToSet(t) PROVE x \in ToSet(u)
    <2>1. PICK i \in 1 .. Len(t) : t[i] = x
      BY <1>2 DEF ToSet
    <2>2. Len(s) + i \in DOMAIN u /\ u[Len(s) + i] = x
      BY <1>1, <2>1
    <2>3. QED
      BY <2>2 DEF ToSet
  <1>6. QED
    BY <1>3, <1>4, <1>5 DEF Unites, u

\* The rest of a row of texts.
LEMMA ConditionYields ==
  ASSUME NEW K, NEW symbols, NEW n, NEW b \in Seq(K), NEW c \in Seq(K), NEW e \in Seq(K),
         NEW x \in K, NEW y \in K, NEW z \in K,
         x = Tok("then", n), y = Tok("else", n), z = Tok("endif", n),
         y \notin ToSet(b), z \notin ToSet(c), NEW S,
         Yields(K, ConditionLoop(K, symbols), {"then"},
                (IF Filled(symbols, n) THEN b ELSE c) \o e, S)
  PROVE  Yields(K, ConditionLoop(K, symbols), {"then"},
                <<x>> \o (b \o (<<y>> \o (c \o (<<z>> \o e)))), S)
  <1> DEFINE L == ConditionLoop(K, symbols)
             g == [t \in Seq(K) |-> IfThenElse(t, symbols)]
             part == IF Filled(symbols, n) THEN b ELSE c
             u1 == <<z>> \o e
             u2 == c \o u1
             u3 == <<y>> \o u2
             u4 == b \o u3
             U == <<x>> \o u4
  <1>f. \A i, j \in Seq(K) : Fits(K, i, j)
    BY AllFit
  <1>r. \A i, j, k \in Seq(K) : Assoc(i, j, k)
    BY Regroup
  <1>0. <<x>> \in Seq(K) /\ <<y>> \in Seq(K) /\ <<z>> \in Seq(K) /\ part \in Seq(K)
    OBVIOUS
  <1>1. u1 \in Seq(K)
    BY <1>0, <1>f DEF Fits
  <1>2. u2 \in Seq(K)
    <2> HIDE DEF u1
    <2>1. QED
      BY <1>1, <1>f DEF Fits
  <1>3. u3 \in Seq(K)
    <2> HIDE DEF u2
    <2>1. QED
      BY <1>0, <1>2, <1>f DEF Fits
  <1>4. u4 \in Seq(K)
    <2> HIDE DEF u3
    <2>1. QED
      BY <1>3, <1>f DEF Fits
  <1>5. ASSUME NEW A \in Seq(K), NEW Z \in Seq(K), Quiet(A, {"then"})
        PROVE  L[A \o (U \o Z)] = L[A \o (S \o Z)]
    <2> DEFINE r == e \o Z
               w1 == <<z>> \o r
               w2 == c \o w1
               w3 == <<y>> \o w2
               w4 == b \o w3
               W == <<x>> \o w4
    <2>1. r \in Seq(K)
      BY <1>f DEF Fits
    <2>a. u1 \o Z = w1
      <3>1. Assoc(<<z>>, e, Z)
        BY <1>0, <1>r
      <3>2. QED
        BY <3>1 DEF Assoc
    <2>b. u2 \o Z = w2
      <3> HIDE DEF u1, w1
      <3>1. Assoc(c, u1, Z)
        BY <1>1, <1>r
      <3>2. QED
        BY <2>a, <3>1 DEF Assoc
    <2>c. u3 \o Z = w3
      <3> HIDE DEF u2, w2
      <3>1. Assoc(<<y>>, u2, Z)
        BY <1>0, <1>2, <1>r
      <3>2. QED
        BY <2>b, <3>1 DEF Assoc
    <2>d. u4 \o Z = w4
      <3> HIDE DEF u3, w3
      <3>1. Assoc(b, u3, Z)
        BY <1>3, <1>r
      <3>2. QED
        BY <2>c, <3>1 DEF Assoc
    <2>e. U \o Z = W
      <3> HIDE DEF u4, w4
      <3>1. Assoc(<<x>>, u4, Z)
        BY <1>0, <1>4, <1>r
      <3>2. QED
        BY <2>d, <3>1 DEF Assoc
    <2> HIDE DEF r
    <2>2. IfThenElse(A \o W, symbols) = A \o (part \o r)
      <3>1. ConditionGoes(A, x, b, y, c, z, r, n, symbols)
        BY <1>5, <2>1, ConditionTurn
      <3>2. QED
        BY <3>1 DEF ConditionGoes
    <2>3. A \o W \in Seq(K)
      <3>1. U \in Seq(K)
        <4> HIDE DEF u4
        <4>1. QED
          BY <1>0, <1>4, <1>f DEF Fits
      <3> HIDE DEF U
      <3>2. U \o Z \in Seq(K)
        BY <3>1, <1>f DEF Fits
      <3> HIDE DEF W
      <3>3. W \in Seq(K)
        BY <2>e, <3>2
      <3>4. QED
        BY <3>3, <1>f DEF Fits
    <2> HIDE DEF W, U, part
    <2>4. L[A \o W] = L[A \o (part \o r)]
      <3>1. Runs(K, L, g, {"then"})
        BY ConditionLoopRuns
      <3> HIDE DEF L
      <3>2. L[A \o W] = L[g[A \o W]]
        BY <2>3, <3>1 DEF Runs
      <3>3. QED
        BY <2>2, <2>3, <3>2
    <2>5. L[A \o ((part \o e) \o Z)] = L[A \o (S \o Z)]
      <3> DEFINE pe == part \o e
      <3> HIDE DEF pe, L
      <3>1. Yields(K, L, {"then"}, pe, S)
        BY DEF pe, L, part
      <3>2. L[A \o (pe \o Z)] = L[A \o (S \o Z)]
        BY <1>5, <3>1 DEF Yields
      <3>3. QED
        BY <3>2 DEF pe
    <2>6. Assoc(part, e, Z)
      BY <1>0, <1>r DEF part
    <2>7. QED
      <3> HIDE DEF L
      <3>1. L[A \o W] = L[A \o (S \o Z)]
        BY <2>4, <2>5, <2>6 DEF Assoc, r
      <3>2. QED
        BY <2>e, <3>1
  <1>6. S \in Seq(K) /\ Quiet(S, {"then"})
    BY DEF Yields
  <1> HIDE DEF L, U
  <1>7. Yields(K, L, {"then"}, U, S)
    BY <1>5, <1>6 DEF Yields
  <1>8. QED
    BY <1>7 DEF L, U, u4, u3, u2, u1

LEMMA BlockYields ==
  ASSUME NEW K, NEW symbols, NEW n, NEW b \in Seq(K), NEW e \in Seq(K), NEW x \in K, NEW z \in K,
         x = Tok("start", n), z = Tok("end", n), z \notin ToSet(b), NEW S,
         Yields(K, BlockLoop(K, symbols), {"start", "dash"},
                (IF Filled(symbols, n) THEN b ELSE <<>>) \o e, S)
  PROVE  Yields(K, BlockLoop(K, symbols), {"start", "dash"}, <<x>> \o (b \o (<<z>> \o e)), S)
  <1> DEFINE L == BlockLoop(K, symbols)
             g == [t \in Seq(K) |-> ConditionalBlock(t, symbols)]
             part == IF Filled(symbols, n) THEN b ELSE <<>>
             kinds == {"start", "dash"}
             u1 == <<z>> \o e
             u4 == b \o u1
             U == <<x>> \o u4
  <1>f. \A i, j \in Seq(K) : Fits(K, i, j)
    BY AllFit
  <1>r. \A i, j, k \in Seq(K) : Assoc(i, j, k)
    BY Regroup
  <1>0. <<x>> \in Seq(K) /\ <<z>> \in Seq(K) /\ part \in Seq(K)
    OBVIOUS
  <1>1. u1 \in Seq(K)
    BY <1>0, <1>f DEF Fits
  <1>4. u4 \in Seq(K)
    <2> HIDE DEF u1
    <2>1. QED
      BY <1>1, <1>f DEF Fits
  <1>5. ASSUME NEW A \in Seq(K), NEW Z \in Seq(K), Quiet(A, kinds)
        PROVE  L[A \o (U \o Z)] = L[A \o (S \o Z)]
    <2> DEFINE r == e \o Z
               w1 == <<z>> \o r
               w4 == b \o w1
               W == <<x>> \o w4
    <2>1. r \in Seq(K)
      BY <1>f DEF Fits
    <2>a. u1 \o Z = w1
      <3>1. Assoc(<<z>>, e, Z)
        BY <1>0, <1>r
      <3>2. QED
        BY <3>1 DEF Assoc
    <2>d. u4 \o Z = w4
      <3> HIDE DEF u1, w1
      <3>1. Assoc(b, u1, Z)
        BY <1>1, <1>r
      <3>2. QED
        BY <2>a, <3>1 DEF Assoc
    <2>e. U \o Z = W
      <3> HIDE DEF u4, w4
      <3>1. Assoc(<<x>>, u4, Z)
        BY <1>0, <1>4, <1>r
      <3>2. QED
        BY <2>d, <3>1 DEF Assoc
    <2> HIDE DEF r
    <2>2. ConditionalBlock(A \o W, symbols) = A \o (part \o r)
      <3>1. BlockGoes(A, x, b, z, r, n, symbols)
        BY <1>5, <2>1, BlockTurn
      <3>2. QED
        BY <3>1 DEF BlockGoes
    <2>3. A \o W \in Seq(K)
      <3>1. U \in Seq(K)
        <4> HIDE DEF u4
        <4>1. QED
          BY <1>0, <1>4, <1>f DEF Fits
      <3> HIDE DEF U
      <3>2. U \o Z \in Seq(K)
        BY <3>1, <1>f DEF Fits
      <3> HIDE DEF W
      <3>3. W \in Seq(K)
        BY <2>e, <3>2
      <3>4. QED
        BY <3>3, <1>f DEF Fits
    <2> HIDE DEF W, U, part
    <2>4. L[A \o W] = L[A \o (part \o r)]
      <3>1. Runs(K, L, g, kinds)
        BY BlockLoopRuns
      <3> HIDE DEF L
      <3>2. L[A \o W] = L[g[A \o W]]
        BY <2>3, <3>1 DEF Runs
      <3>3. QED
        BY <2>2, <2>3, <3>2
    <2>5. L[A \o ((part \o e) \o Z)] = L[A \o (S \o Z)]
      <3> DEFINE pe == part \o e
      <3> HIDE DEF pe, L
      <3>1. Yields(K, L, kinds, pe, S)
        BY DEF pe, L, part
      <3>2. L[A \o (pe \o Z)] = L[A \o (S \o Z)]
        BY <1>5, <3>1 DEF Yields
      <3>3. QED
        BY <3>2 DEF pe
    <2>6. Assoc(part, e, Z)
      BY <1>0, <1>r DEF part
    <2>7. QED
      <3> HIDE DEF L
      <3>1. L[A \o W] = L[A \o (S \o Z)]
        BY <2>4, <2>5, <2>6 DEF Assoc, r
      <3>2. QED
        BY <2>e, <3>1
  <1>6. S \in Seq(K) /\ Quiet(S, kinds)
    BY DEF Yields
  <1> HIDE DEF L, U
  <1>7. Yields(K, L, kinds, U, S)
    <2> HIDE DEF kinds
    <2>1. QED
      BY <1>5, <1>6 DEF Yields
  <1>8. QED
    BY <1>7 DEF L, U, u4, u1

-----------------------------------------------------------------------------
\* What stays of a part of a text when both loops have run.

Unmarked(V) == \A t \in ToSet(V) : t.kind \notin Markers

Within(S, U) == ToSet(S) \subseteq ToSet(U)

\* After the first loop U has become some S, of its own tokens, and S becomes V.
First(K, symbols, U, S) == Yields(K, ConditionLoop(K, symbols), {"then"}, U, S) /\ Within(S, U)
Second(K, symbols, S, V) ==
  Yields(K, BlockLoop(K, symbols), {"start", "dash"}, S, V) /\ Unmarked(V)
Leaves(K, symbols, U, V) ==
  \E S \in Seq(K) : First(K, symbols, U, S) /\ Second(K, symbols, S, V)

LEMMA UnmarkedQuiet ==
  ASSUME NEW K, NEW V \in Seq(K), Unmarked(V), NEW kinds
  PROVE  Quiet(V, kinds)
  <1>1. \A i \in 1 .. Len(V) : V[i] \in ToSet(V)
    BY DEF ToSet
  <1>2. \A i \in 1 .. Len(V) : V[i].kind \notin Openers
    BY <1>1 DEF Unmarked, Openers, Markers
  <1>3. QED
    BY <1>2 DEF Quiet

LEMMA UnmarkedConcat ==
  ASSUME NEW K, NEW V \in Seq(K), NEW W \in Seq(K), Unmarked(V), Unmarked(W)
  PROVE  Unmarked(V \o W)
  <1>1. Unites(V, W)
    BY AllUnite
  <1>2. QED
    BY <1>1 DEF Unmarked, Unites

LEMMA WithinConcat ==
  ASSUME NEW K, NEW S \in Seq(K), NEW T \in Seq(K), NEW U \in Seq(K), NEW V \in Seq(K),
         Within(S, U), Within(T, V)
  PROVE  Within(S \o T, U \o V)
  <1>1. Unites(S, T) /\ Unites(U, V)
    BY AllUnite
  <1>2. QED
    BY <1>1 DEF Within, Unites

LEMMA OneToken ==
  ASSUME NEW K, NEW x \in K
  PROVE  <<x>> \in Seq(K) /\ ToSet(<<x>>) = {x}
  BY DEF ToSet

LEMMA LeavesNothing ==
  ASSUME NEW K, NEW symbols
  PROVE  Leaves(K, symbols, <<>>, <<>>)
  <1>1. <<>> \in Seq(K) /\ ToSet(<<>>) = {}
    BY DEF ToSet
  <1>2. Unmarked(<<>>) /\ Within(<<>>, <<>>)
    BY <1>1 DEF Unmarked, Within
  <1>3. Quiet(<<>>, {"then"}) /\ Quiet(<<>>, {"start", "dash"})
    BY <1>1, <1>2, UnmarkedQuiet
  <1>4. QED
    BY <1>1, <1>2, <1>3, YieldsSame DEF Leaves, First, Second

LEMMA LeavesToken ==
  ASSUME NEW K, NEW symbols, NEW x \in K, x.kind \notin Markers
  PROVE  Leaves(K, symbols, <<x>>, <<x>>)
  <1> DEFINE s == <<x>>
  <1>1. s \in Seq(K) /\ Unmarked(s) /\ Within(s, s)
    BY OneToken DEF Unmarked, Within
  <1> HIDE DEF s
  <1>3. Quiet(s, {"then"}) /\ Quiet(s, {"start", "dash"})
    BY <1>1, UnmarkedQuiet
  <1>4. Leaves(K, symbols, s, s)
    BY <1>1, <1>3, YieldsSame DEF Leaves, First, Second
  <1>5. QED
    BY <1>4 DEF s

LEMMA FirstConcat ==
  ASSUME NEW K, NEW symbols, NEW U \in Seq(K), NEW W \in Seq(K), NEW S \in Seq(K), NEW T \in Seq(K),
         First(K, symbols, U, S), First(K, symbols, W, T)
  PROVE  S \o T \in Seq(K) /\ First(K, symbols, U \o W, S \o T)
  BY YieldsConcat, WithinConcat, Behind DEF First

LEMMA SecondConcat ==
  ASSUME NEW K, NEW symbols, NEW S \in Seq(K), NEW T \in Seq(K), NEW V, NEW W,
         Second(K, symbols, S, V), Second(K, symbols, T, W)
  PROVE  V \in Seq(K) /\ W \in Seq(K) /\ V \o W \in Seq(K) /\ Second(K, symbols, S \o T, V \o W)
  <1>1. V \in Seq(K) /\ W \in Seq(K)
    BY DEF Second, Yields
  <1>2. QED
    BY <1>1, YieldsConcat, UnmarkedConcat, Behind DEF Second

LEMMA LeavesConcat ==
  ASSUME NEW K, NEW symbols, NEW U \in Seq(K), NEW W \in Seq(K), NEW V, NEW X,
         Leaves(K, symbols, U, V), Leaves(K, symbols, W, X)
  PROVE  Leaves(K, symbols, U \o W, V \o X)
  <1>1. PICK S \in Seq(K) : First(K, symbols, U, S) /\ Second(K, symbols, S, V)
    BY DEF Leaves
  <1>2. PICK T \in Seq(K) : First(K, symbols, W, T) /\ Second(K, symbols, T, X)
    BY DEF Leaves
  <1>3. S \o T \in Seq(K) /\ First(K, symbols, U \o W, S \o T)
    BY <1>1, <1>2, FirstConcat
  <1>4. Second(K, symbols, S \o T, V \o X)
    BY <1>1, <1>2, SecondConcat
  <1>5. QED
    BY <1>3, <1>4 DEF Leaves

LEMMA LeavesTyped ==
  ASSUME NEW K, NEW symbols, NEW U, NEW V, Leaves(K, symbols, U, V)
  PROVE  V \in Seq(K) /\ Unmarked(V)
  BY DEF Leaves, Second, Yields

\* A condition leaves the branch that its name chooses.
LEMMA LeavesBranch ==
  ASSUME NEW K, NEW symbols, NEW n, NEW b \in Seq(K), NEW c \in Seq(K), NEW e \in Seq(K),
         NEW x \in K, NEW y \in K, NEW z \in K,
         x = Tok("then", n), y = Tok("else", n), z = Tok("endif", n),
         y \notin ToSet(b), z \notin ToSet(c), NEW B, NEW C, NEW E,
         Leaves(K, symbols, b, B), Leaves(K, symbols, c, C), Leaves(K, symbols, e, E)
  PROVE  Leaves(K, symbols, <<x>> \o (b \o (<<y>> \o (c \o (<<z>> \o e)))),
                (IF Filled(symbols, n) THEN B ELSE C) \o E)
  <1> DEFINE part == IF Filled(symbols, n) THEN b ELSE c
             P == IF Filled(symbols, n) THEN B ELSE C
             U == <<x>> \o (b \o (<<y>> \o (c \o (<<z>> \o e))))
  <1>1. part \in Seq(K) /\ Leaves(K, symbols, part, P)
    OBVIOUS
  <1>2. ToSet(part) \subseteq ToSet(b) \cup ToSet(c)
    OBVIOUS
  <1>3. ToSet(part \o e) \subseteq ToSet(U)
    <2> DEFINE u1 == <<z>> \o e
               u2 == c \o u1
               u3 == <<y>> \o u2
               u4 == b \o u3
    <2>f. \A i, j \in Seq(K) : Fits(K, i, j)
      BY AllFit
    <2>g. \A i, j \in Seq(K) : Unites(i, j)
      BY AllUnite
    <2>0. <<x>> \in Seq(K) /\ <<y>> \in Seq(K) /\ <<z>> \in Seq(K)
      OBVIOUS
    <2>1. u1 \in Seq(K) /\ ToSet(e) \subseteq ToSet(u1)
      BY <2>0, <2>f, <2>g DEF Fits, Unites
    <2>2. u2 \in Seq(K) /\ ToSet(u1) \subseteq ToSet(u2) /\ ToSet(c) \subseteq ToSet(u2)
      <3> HIDE DEF u1
      <3>1. Fits(K, c, u1) /\ Unites(c, u1)
        BY <2>1, <2>f, <2>g
      <3>2. QED
        BY <3>1 DEF Fits, Unites
    <2>3. u3 \in Seq(K) /\ ToSet(u2) \subseteq ToSet(u3)
      <3> HIDE DEF u2
      <3>1. Fits(K, <<y>>, u2) /\ Unites(<<y>>, u2)
        BY <2>0, <2>2, <2>f, <2>g
      <3>2. QED
        BY <3>1 DEF Fits, Unites
    <2>4. u4 \in Seq(K) /\ ToSet(u3) \subseteq ToSet(u4) /\ ToSet(b) \subseteq ToSet(u4)
      <3> HIDE DEF u3
      <3>1. Fits(K, b, u3) /\ Unites(b, u3)
        BY <2>3, <2>f, <2>g
      <3>2. QED
        BY <3>1 DEF Fits, Unites
    <2>5. ToSet(u4) \subseteq ToSet(U)
      <3> HIDE DEF u4
      <3>1. Unites(<<x>>, u4)
        BY <2>0, <2>4, <2>g
      <3>2. QED
        BY <3>1 DEF Unites, u4
    <2>6. Unites(part, e)
      BY <1>1, <2>g
    <2>7. ToSet(part \o e) = ToSet(part) \cup ToSet(e)
      BY <2>6 DEF Unites
    <2> HIDE DEF u1, u2, u3, u4, U, part
    <2>8. QED
      BY <1>2, <2>1, <2>2, <2>3, <2>4, <2>5, <2>7
  <1> HIDE DEF P
  <1>4. Leaves(K, symbols, part \o e, P \o E)
    <2> HIDE DEF part
    <2>1. QED
      BY <1>1, LeavesConcat
  <1>5. PICK S \in Seq(K) : First(K, symbols, part \o e, S) /\ Second(K, symbols, S, P \o E)
    BY <1>4 DEF Leaves
  <1>6. Yields(K, ConditionLoop(K, symbols), {"then"}, part \o e, S) /\ Within(S, part \o e)
    BY <1>5 DEF First
  <1>7. Yields(K, ConditionLoop(K, symbols), {"then"}, U, S)
    BY <1>6, ConditionYields
  <1>8. Within(S, U)
    <2> HIDE DEF U, part
    <2>1. QED
      BY <1>3, <1>6 DEF Within
  <1>9. Leaves(K, symbols, U, P \o E)
    <2> HIDE DEF U, part
    <2>1. QED
      BY <1>5, <1>7, <1>8 DEF Leaves, First
  <1>10. QED
    BY <1>9 DEF P

\* A block and the two lines around what stands in it, put together in three ways.
Braced(x, w, Y, z, v, R) == <<x>> \o (<<w>> \o (Y \o (<<z>> \o (<<v>> \o R))))
Braces(x, w, Y, z, v, R) ==
  /\ Braced(x, w, Y, z, v, R) = (<<x>> \o <<w>>) \o (Y \o ((<<z>> \o <<v>>) \o R))
  /\ Braced(x, w, Y, z, v, R) = <<x>> \o ((<<w>> \o Y) \o (<<z>> \o (<<v>> \o R)))

LEMMA BracesAre ==
  ASSUME NEW K, NEW x \in K, NEW w \in K, NEW z \in K, NEW v \in K, NEW Y \in Seq(K), NEW R \in Seq(K)
  PROVE  Braces(x, w, Y, z, v, R) /\ Braced(x, w, Y, z, v, R) \in Seq(K)
  <1>f. \A i, j \in Seq(K) : Fits(K, i, j)
    BY AllFit
  <1>r. \A i, j, k \in Seq(K) : Assoc(i, j, k)
    BY Regroup
  <1>0. <<x>> \in Seq(K) /\ <<w>> \in Seq(K) /\ <<z>> \in Seq(K) /\ <<v>> \in Seq(K)
    OBVIOUS
  <1> DEFINE u1 == <<v>> \o R
             u2 == <<z>> \o u1
             u3 == Y \o u2
             u4 == <<w>> \o u3
  <1>1. u1 \in Seq(K)
    BY <1>0, <1>f DEF Fits
  <1>2. u2 \in Seq(K)
    <2> HIDE DEF u1
    <2>1. QED
      BY <1>0, <1>1, <1>f DEF Fits
  <1>3. u3 \in Seq(K)
    <2> HIDE DEF u2
    <2>1. QED
      BY <1>2, <1>f DEF Fits
  <1>4. u4 \in Seq(K)
    <2> HIDE DEF u3
    <2>1. QED
      BY <1>0, <1>3, <1>f DEF Fits
  <1>5. <<x>> \o u4 \in Seq(K)
    <2> HIDE DEF u4
    <2>1. QED
      BY <1>0, <1>4, <1>f DEF Fits
  <1>6. (<<z>> \o <<v>>) \o R = u2
    BY <1>0, <1>r DEF Assoc
  <1>7. (<<x>> \o <<w>>) \o u3 = <<x>> \o u4
    <2> HIDE DEF u3
    <2>1. QED
      BY <1>0, <1>3, <1>r DEF Assoc
  <1>8. (<<w>> \o Y) \o u2 = u4
    <2> HIDE DEF u2
    <2>1. QED
      BY <1>0, <1>2, <1>r DEF Assoc
  <1>9. Braced(x, w, Y, z, v, R) = <<x>> \o u4
    BY DEF Braced
  <1>10. Braced(x, w, Y, z, v, R) = (<<x>> \o <<w>>) \o (Y \o ((<<z>> \o <<v>>) \o R))
    <2> HIDE DEF u2, u4
    <2>1. QED
      BY <1>6, <1>7, <1>9
  <1>11. Braced(x, w, Y, z, v, R) = <<x>> \o ((<<w>> \o Y) \o (<<z>> \o (<<v>> \o R)))
    <2> HIDE DEF u4
    <2>1. QED
      BY <1>8, <1>9
  <1>12. QED
    BY <1>5, <1>9, <1>10, <1>11 DEF Braces

\* A marker that ends its line is quiet for the markers of other kinds.
LEMMA MarkerQuiet ==
  ASSUME NEW K, NEW x \in K, NEW w \in K, w.kind = "nl", NEW kinds, x.kind \notin kinds
  PROVE  <<x>> \o <<w>> \in Seq(K) /\ Quiet(<<x>> \o <<w>>, kinds)
  <1> DEFINE s == <<x>> \o <<w>>
  <1>1. <<x>> \in Seq(K) /\ <<w>> \in Seq(K) /\ Len(<<x>>) = 1 /\ Len(<<w>>) = 1
        /\ <<x>>[1] = x /\ <<w>>[1] = w
    OBVIOUS
  <1>2. Fits(K, <<x>>, <<w>>)
    BY <1>1, AllFit
  <1>3. s \in Seq(K) /\ Len(s) = 2 /\ s[1] = x /\ s[2] = w
    <2>1. 1 \in 1 .. Len(<<x>>) /\ 1 \in 1 .. Len(<<w>>) /\ Len(<<x>>) + 1 = 2 /\ Len(<<x>>) + Len(<<w>>) = 2
      BY <1>1
    <2>2. QED
      BY <1>1, <1>2, <2>1 DEF Fits
  <1> HIDE DEF s
  <1>4. ASSUME NEW i \in 1 .. Len(s), s[i].kind \in Openers
        PROVE  s[i].kind \notin kinds /\ i + 1 <= Len(s) /\ s[i + 1].kind = "nl"
    <2>1. CASE i = 1
      BY <1>3, <2>1
    <2>2. CASE i = 2
      BY <1>3, <1>4, <2>2 DEF Openers
    <2>3. QED
      BY <1>3, <2>1, <2>2
  <1>5. QED
    BY <1>3, <1>4 DEF Quiet, s

BlockLeaves(K, symbols, n, x, w, Y, z, v, R, V, Q) ==
  Leaves(K, symbols, Braced(x, w, Y, z, v, R),
         (IF Filled(symbols, n) THEN <<w>> \o V ELSE <<>>) \o (<<v>> \o Q))

\* A block leaves what stands in it, or nothing but the ends of its lines.
LEMMA LeavesBlock ==
  ASSUME NEW K, NEW symbols, NEW n, NEW x \in K, NEW w \in K, NEW z \in K, NEW v \in K,
         x = Tok("start", n), z = Tok("end", n), w.kind = "nl", v.kind = "nl",
         NEW Y \in Seq(K), NEW R \in Seq(K), z \notin ToSet(Y), NEW V, NEW Q,
         Leaves(K, symbols, Y, V), Leaves(K, symbols, R, Q)
  PROVE  BlockLeaves(K, symbols, n, x, w, Y, z, v, R, V, Q)
  <1>1. PICK S \in Seq(K) : First(K, symbols, Y, S) /\ Second(K, symbols, S, V)
    BY DEF Leaves
  <1>2. PICK T \in Seq(K) : First(K, symbols, R, T) /\ Second(K, symbols, T, Q)
    BY DEF Leaves
  <1> DEFINE p == <<x>> \o <<w>>
             q == <<z>> \o <<v>>
  <1>k. x.kind = "start" /\ z.kind = "end"
    BY DEF Tok
  <1>3. p \in Seq(K) /\ q \in Seq(K) /\ Quiet(p, {"then"}) /\ Quiet(q, {"then"})
    BY <1>k, MarkerQuiet
  <1> HIDE DEF p, q
  <1>4. First(K, symbols, p, p) /\ First(K, symbols, q, q)
    BY <1>3, YieldsSame DEF First, Within
  <1> DEFINE qR == q \o R
             qT == q \o T
             YqR == Y \o qR
             SqT == S \o qT
  <1>5. qR \in Seq(K) /\ qT \in Seq(K) /\ First(K, symbols, qR, qT)
    BY <1>2, <1>3, <1>4, FirstConcat, Behind
  <1> HIDE DEF qR, qT
  <1>6. YqR \in Seq(K) /\ SqT \in Seq(K) /\ First(K, symbols, YqR, SqT)
    BY <1>1, <1>5, FirstConcat, Behind
  <1> HIDE DEF YqR, SqT
  <1>7. First(K, symbols, p \o YqR, p \o SqT)
    BY <1>3, <1>4, <1>6, FirstConcat
  <1>8. /\ Braces(x, w, Y, z, v, R) /\ Braces(x, w, S, z, v, T)
        /\ Braced(x, w, S, z, v, T) \in Seq(K)
    BY BracesAre
  <1>9. First(K, symbols, Braced(x, w, Y, z, v, R), Braced(x, w, S, z, v, T))
    BY <1>7, <1>8 DEF Braces, p, q, qR, qT, YqR, SqT
  <1> DEFINE b == <<w>> \o S
             B == <<w>> \o V
             e == <<v>> \o T
             E == <<v>> \o Q
             part == IF Filled(symbols, n) THEN b ELSE <<>>
             P == IF Filled(symbols, n) THEN B ELSE <<>>
  <1>10. <<w>> \in Seq(K) /\ <<v>> \in Seq(K) /\ Second(K, symbols, <<w>>, <<w>>)
         /\ Second(K, symbols, <<v>>, <<v>>)
    <2> SUFFICES ASSUME NEW t \in K, t.kind = "nl"
                 PROVE  <<t>> \in Seq(K) /\ Second(K, symbols, <<t>>, <<t>>)
      OBVIOUS
    <2> DEFINE s == <<t>>
    <2>1. s \in Seq(K) /\ Unmarked(s)
      BY OneToken DEF Unmarked, Markers
    <2> HIDE DEF s
    <2>2. Quiet(s, {"start", "dash"})
      BY <2>1, UnmarkedQuiet
    <2>3. Second(K, symbols, s, s)
      BY <2>1, <2>2, YieldsSame DEF Second
    <2>4. QED
      BY <2>1, <2>3 DEF s
  <1>11. b \in Seq(K) /\ e \in Seq(K) /\ Second(K, symbols, b, B) /\ Second(K, symbols, e, E)
    BY <1>1, <1>2, <1>10, SecondConcat, Behind
  <1>12. <<>> \in Seq(K) /\ Second(K, symbols, <<>>, <<>>)
    <2>1. <<>> \in Seq(K) /\ ToSet(<<>>) = {}
      BY DEF ToSet
    <2>2. Unmarked(<<>>)
      BY <2>1 DEF Unmarked
    <2>3. Quiet(<<>>, {"start", "dash"})
      BY <2>1, <2>2, UnmarkedQuiet
    <2>4. QED
      BY <2>1, <2>2, <2>3, YieldsSame DEF Second
  <1>13. z \notin ToSet(b)
    <2>1. Unites(<<w>>, S) /\ ToSet(<<w>>) = {w}
      BY <1>10, AllUnite, OneToken
    <2>2. ToSet(S) \subseteq ToSet(Y)
      BY <1>1 DEF First, Within
    <2>3. z # w
      BY <1>k
    <2>4. QED
      BY <2>1, <2>2, <2>3 DEF Unites
  <1> HIDE DEF b, B, e, E
  <1>14. part \in Seq(K) /\ Second(K, symbols, part, P)
    BY <1>11, <1>12
  <1> HIDE DEF P
  <1>15. Second(K, symbols, part \o e, P \o E)
    <2> HIDE DEF part
    <2>1. QED
      BY <1>11, <1>14, SecondConcat
  <1>16. Yields(K, BlockLoop(K, symbols), {"start", "dash"}, part \o e, P \o E) /\ Unmarked(P \o E)
    BY <1>15 DEF Second
  <1>17. Yields(K, BlockLoop(K, symbols), {"start", "dash"}, <<x>> \o (b \o (<<z>> \o e)), P \o E)
    BY <1>11, <1>13, <1>16, BlockYields
  <1>18. Second(K, symbols, Braced(x, w, S, z, v, T), P \o E)
    BY <1>8, <1>16, <1>17 DEF Second, Braces, b, e
  <1>19. Leaves(K, symbols, Braced(x, w, Y, z, v, R), P \o E)
    BY <1>8, <1>9, <1>18 DEF Leaves
  <1>20. QED
    BY <1>19 DEF BlockLeaves, P, B, E

-----------------------------------------------------------------------------
\* What becomes of a whole template.

\* The text r begins with S, and is no more than that if Z is empty.
Starts(K, r, S, Z) == \E z \in Seq(K) : r = S \o z /\ (Z = <<>> => z = <<>>)

\* A loop leaves what a part yields, whatever it makes of the rest.
LEMMA LoopStarts ==
  ASSUME NEW K, NEW L, NEW g, NEW kinds, Runs(K, L, g, kinds), NEW U \in Seq(K), NEW S,
         Yields(K, L, kinds, U, S), NEW Z \in Seq(K)
  PROVE  U \o Z \in Seq(K) /\ Starts(K, L[U \o Z], S, Z)
  <1>0. <<>> \in Seq(K) /\ Len(<<>>) = 0 /\ \A t \in Seq(K) : <<>> \o t = t /\ t \o <<>> = t
    BY ConcatEmptySeq
  <1>1. S \in Seq(K) /\ Quiet(S, kinds) /\ Quiet(<<>>, kinds)
    BY <1>0 DEF Yields, Quiet
  <1>2. U \o Z \in Seq(K) /\ S \o Z \in Seq(K)
    BY <1>1, Behind
  <1>3. L[U \o Z] = L[S \o Z]
    <2> DEFINE UZ == U \o Z
               SZ == S \o Z
    <2>1. L[<<>> \o UZ] = L[<<>> \o SZ]
      BY <1>0, <1>1 DEF Yields
    <2>2. UZ \in Seq(K) /\ SZ \in Seq(K)
      BY <1>2
    <2> HIDE DEF UZ, SZ
    <2>3. L[UZ] = L[SZ]
      BY <1>0, <2>1, <2>2
    <2>4. QED
      BY <2>3 DEF UZ, SZ
  <1>4. CASE Z = <<>>
    <2>1. L[S \o Z] = S /\ S \o <<>> = S
      BY <1>0, <1>1, <1>4 DEF Runs
    <2>2. QED
      BY <1>0, <1>2, <1>3, <2>1 DEF Starts
  <1>5. CASE Z # <<>>
    <2>1. PICK z \in Seq(K) : L[S \o Z] = S \o z
      BY <1>1 DEF Runs
    <2>2. L[U \o Z] = S \o z
      BY <1>3, <2>1
    <2>3. QED
      BY <1>2, <1>5, <2>2 DEF Starts
  <1>6. QED
    BY <1>4, <1>5

\* A list of what is made of each element by itself is the sequence.
LEMMA CollectSame ==
  ASSUME NEW K, NEW T, K \subseteq T, NEW g \in Lister(T, T), \A x \in K : g[x] = <<x>>, NEW s \in Seq(K)
  PROVE  Collect(g, s) = s
  <1> DEFINE M == {u \in Seq(K) : Collect(g, u) = u}
  <1>1. <<>> \in M
    BY CollectEmpty
  <1>2. ASSUME NEW u \in Seq(K), NEW x \in K, u \in M PROVE Append(u, x) \in M
    <2>1. u \in Seq(T) /\ x \in T
      BY SeqMonotonic
    <2>2. Collect(g, Append(u, x)) = Collect(g, u) \o g[x]
      BY <2>1, CollectAppend
    <2>3. u \o <<x>> = Append(u, x) /\ Append(u, x) \in Seq(K)
      OBVIOUS
    <2>4. QED
      BY <1>2, <2>2, <2>3
  <1>3. Seq(K) \subseteq M
    <2> HIDE DEF M
    <2>1. QED
      BY <1>1, <1>2, SeqInduction
  <1>4. QED
    BY <1>3

\* Without, as a list.
Kept(K, kinds) == [t \in K |-> IF t.kind \in kinds THEN <<>> ELSE <<t>>]

LEMMA WithoutIs ==
  ASSUME NEW K, NEW kinds
  PROVE  Kept(K, kinds) \in Lister(K, K) /\ \A s \in Seq(K) : Without(s, kinds) = Collect(Kept(K, kinds), s)
  <1>1. Kept(K, kinds) \in Lister(K, K)
    <2>1. ASSUME NEW t \in K PROVE (IF t.kind \in kinds THEN <<>> ELSE <<t>>) \in Seq(K)
      OBVIOUS
    <2>2. QED
      BY <2>1 DEF Kept, Lister
  <1>2. ASSUME NEW s \in Seq(K) PROVE Without(s, kinds) = Collect(Kept(K, kinds), s)
    <2>1. DOMAIN s = 1 .. Len(s) /\ \A i \in 1 .. Len(s) : s[i] \in K
      OBVIOUS
    <2>2. \A i \in DOMAIN s : Kept(K, kinds)[s[i]] = IF s[i].kind \in kinds THEN <<>> ELSE <<s[i]>>
      BY <2>1 DEF Kept
    <2>3. [i \in DOMAIN s |-> Kept(K, kinds)[s[i]]] = [i \in DOMAIN s |-> IF s[i].kind \in kinds THEN <<>> ELSE <<s[i]>>]
      BY <2>2
    <2>4. QED
      BY <2>3 DEF Without, Collect
  <1>3. QED
    BY <1>1, <1>2

\* What has no tokens of the kinds stays, and so does what stands behind it if it
\* is nothing.
LEMMA WithoutStarts ==
  ASSUME NEW K, NEW kinds, NEW W \in Seq(K), \A t \in ToSet(W) : t.kind \notin kinds, NEW Z \in Seq(K)
  PROVE  Starts(K, Without(W \o Z, kinds), W, Z)
  <1> DEFINE h == Kept(K, kinds)
  <1>1. h \in Lister(K, K) /\ \A s \in Seq(K) : Without(s, kinds) = Collect(h, s)
    BY WithoutIs
  <1>2. Without(W \o Z, kinds) = Collect(h, W) \o Collect(h, Z)
    <2> DEFINE WZ == W \o Z
    <2>1. WZ \in Seq(K)
      BY Behind
    <2>2. Collect(h, WZ) = Collect(h, W) \o Collect(h, Z)
      BY <1>1, CollectConcat
    <2> HIDE DEF WZ, h
    <2>3. Without(WZ, kinds) = Collect(h, WZ)
      BY <1>1, <2>1
    <2>4. QED
      BY <2>2, <2>3 DEF WZ
  <1>3. Collect(h, W) = W
    <2> DEFINE M == {t \in K : t.kind \notin kinds}
    <2>1. W \in Seq(M)
      <3>1. DOMAIN W = 1 .. Len(W) /\ Len(W) \in Nat /\ \A i \in 1 .. Len(W) : W[i] \in K
        OBVIOUS
      <3>2. \A i \in 1 .. Len(W) : W[i] \in ToSet(W)
        BY <3>1 DEF ToSet
      <3>3. \A i \in 1 .. Len(W) : W[i] \in M
        BY <3>1, <3>2
      <3> HIDE DEF M
      <3>4. QED
        BY <3>1, <3>3, ElementOfSeq
    <2>2. M \subseteq K /\ \A t \in M : h[t] = <<t>>
      BY DEF Kept
    <2> HIDE DEF M, h
    <2>3. QED
      BY <1>1, <2>1, <2>2, CollectSame
  <1>4. Collect(h, Z) \in Seq(K) /\ (Z = <<>> => Collect(h, Z) = <<>>)
    BY <1>1, CollectTyped, CollectEmpty
  <1> HIDE DEF h
  <1>5. QED
    BY <1>2, <1>3, <1>4 DEF Starts

\* The value that a token gets.
Given(symbols, t) ==
  IF t.kind = "sym" /\ t.name \in DOMAIN symbols THEN Tok("text", symbols[t.name]) ELSE t

Substituted(T, symbols, V, Z) ==
  /\ Substitute(V, symbols) \in Seq(T) /\ Substitute(Z, symbols) \in Seq(T)
  /\ Substitute(V \o Z, symbols) = Substitute(V, symbols) \o Substitute(Z, symbols)
  /\ Z = <<>> => Substitute(Z, symbols) = <<>>

LEMMA SubstituteConcat ==
  ASSUME NEW K, NEW T, NEW symbols, \A t \in K : Given(symbols, t) \in T,
         NEW V \in Seq(K), NEW Z \in Seq(K)
  PROVE  Substituted(T, symbols, V, Z)
  <1>1. \A s \in Seq(K) : Substitute(s, symbols) = [i \in DOMAIN s |-> Given(symbols, s[i])]
    BY DEF Substitute, Given
  <1>2. ASSUME NEW s \in Seq(K)
        PROVE  /\ Substitute(s, symbols) \in Seq(T) /\ Len(Substitute(s, symbols)) = Len(s)
               /\ \A i \in 1 .. Len(s) : Substitute(s, symbols)[i] = Given(symbols, s[i])
    <2> DEFINE r == [i \in 1 .. Len(s) |-> Given(symbols, s[i])]
    <2>1. DOMAIN s = 1 .. Len(s) /\ Len(s) \in Nat /\ \A i \in 1 .. Len(s) : s[i] \in K
      OBVIOUS
    <2>2. \A i \in 1 .. Len(s) : r[i] = Given(symbols, s[i]) /\ r[i] \in T
      BY <2>1
    <2>3. Substitute(s, symbols) = r
      BY <1>1, <2>1
    <2>4. r \in [1 .. Len(s) -> T]
      BY <2>2
    <2> HIDE DEF r
    <2>5. r \in Seq(T) /\ Len(r) = Len(s)
      BY <2>1, <2>4
    <2>6. QED
      BY <2>2, <2>3, <2>5
  <1>3. Substitute(V \o Z, symbols) = Substitute(V, symbols) \o Substitute(Z, symbols)
    <2> DEFINE u == V \o Z
               a == Substitute(V, symbols)
               b == Substitute(Z, symbols)
               l == Substitute(u, symbols)
    <2>1. /\ u \in Seq(K) /\ Len(u) = Len(V) + Len(Z) /\ Len(V) \in Nat /\ Len(Z) \in Nat
          /\ \A i \in 1 .. Len(V) : u[i] = V[i]
          /\ \A i \in 1 .. Len(Z) : u[Len(V) + i] = Z[i]
      BY Behind
    <2> HIDE DEF u
    <2>2. /\ a \in Seq(T) /\ Len(a) = Len(V) /\ \A i \in 1 .. Len(V) : a[i] = Given(symbols, V[i])
      BY <1>2
    <2>3. /\ b \in Seq(T) /\ Len(b) = Len(Z) /\ \A i \in 1 .. Len(Z) : b[i] = Given(symbols, Z[i])
      BY <1>2
    <2>4. /\ l \in Seq(T) /\ Len(l) = Len(V) + Len(Z)
          /\ \A i \in 1 .. Len(V) + Len(Z) : l[i] = Given(symbols, u[i])
      BY <1>2, <2>1
    <2> HIDE DEF a, b, l
    <2>5. Fits(T, a, b)
      BY <2>2, <2>3, AllFit
    <2> DEFINE ab == a \o b
    <2>6. /\ ab \in Seq(T) /\ Len(ab) = Len(V) + Len(Z)
          /\ (\A i \in 1 .. Len(V) : ab[i] = a[i]) /\ \A i \in 1 .. Len(Z) : ab[Len(V) + i] = b[i]
      BY <2>2, <2>3, <2>5 DEF Fits
    <2> HIDE DEF ab
    <2>7. ASSUME NEW i \in 1 .. Len(V) + Len(Z) PROVE l[i] = ab[i]
      <3>1. CASE i <= Len(V)
        <4>1. i \in 1 .. Len(V)
          BY <2>1, <3>1
        <4>2. QED
          BY <2>1, <2>2, <2>4, <2>6, <4>1
      <3>2. CASE i > Len(V)
        <4> DEFINE j == i - Len(V)
        <4>1. j \in 1 .. Len(Z) /\ i = Len(V) + j
          BY <2>1, <3>2
        <4> HIDE DEF j
        <4>2. QED
          BY <2>1, <2>3, <2>4, <2>6, <4>1
      <3>3. QED
        BY <2>1, <3>1, <3>2
    <2>8. l = ab
      BY <2>1, <2>4, <2>6, <2>7, SeqEqual
    <2>9. QED
      BY <2>8 DEF l, ab, u, a, b
  <1>4. Z = <<>> => Substitute(Z, symbols) = <<>>
    BY DEF Substitute
  <1>5. QED
    BY <1>2, <1>3, <1>4 DEF Substituted

\* What a rendered page begins with.
LEMMA RenderStarts ==
  ASSUME NEW K, NEW T, NEW symbols, \A t \in K : Given(symbols, t) \in T,
         NEW U \in Seq(K), NEW Z \in Seq(K), NEW V, Leaves(K, symbols, U, V)
  PROVE  Starts(T, Render(U \o Z, symbols), Substitute(V, symbols), Z)
  <1> DEFINE A == HandleIfThenElse(U \o Z, symbols)
             B == HandleConditionalBlocks(A, symbols)
             C == Substitute(B, symbols)
             D == RemoveMatches(C, "then")
             E == Without(D, {"else", "endif"})
             F == RemoveMatches(E, "dash")
             G == RemoveMatches(F, "end")
             W == Substitute(V, symbols)
  <1>0. Render(U \o Z, symbols) = G
    BY DEF Render, RemoveRemainingMarkers
  <1>1. PICK S \in Seq(K) : First(K, symbols, U, S) /\ Second(K, symbols, S, V)
    BY DEF Leaves
  <1>2. V \in Seq(K) /\ Unmarked(V)
    BY LeavesTyped
  <1>3. Starts(K, A, S, Z)
    <2> DEFINE L == ConditionLoop(K, symbols)
    <2>1. Yields(K, L, {"then"}, U, S)
      BY <1>1 DEF First
    <2>2. PICK g : Runs(K, L, g, {"then"})
      BY ConditionLoopRuns
    <2> HIDE DEF L
    <2>3. U \o Z \in Seq(K) /\ Starts(K, L[U \o Z], S, Z)
      BY <2>1, <2>2, LoopStarts
    <2>4. L[U \o Z] = A
      BY <2>3 DEF L, ConditionLoop
    <2> HIDE DEF A
    <2>5. QED
      BY <2>3, <2>4
  <1> HIDE DEF A
  <1>4. PICK z1 \in Seq(K) : A = S \o z1 /\ (Z = <<>> => z1 = <<>>)
    BY <1>3 DEF Starts
  <1>5. Starts(K, B, V, z1)
    <2> DEFINE L == BlockLoop(K, symbols)
               kinds == {"start", "dash"}
    <2>1. Yields(K, L, kinds, S, V)
      BY <1>1 DEF Second
    <2>2. PICK g : Runs(K, L, g, kinds)
      BY BlockLoopRuns
    <2> HIDE DEF L, kinds
    <2>3. S \o z1 \in Seq(K) /\ Starts(K, L[S \o z1], V, z1)
      BY <2>1, <2>2, LoopStarts
    <2>4. L[S \o z1] = B
      BY <1>4, <2>3 DEF L, BlockLoop
    <2> HIDE DEF B
    <2>5. QED
      BY <2>3, <2>4
  <1> HIDE DEF B
  <1>6. PICK z2 \in Seq(K) : B = V \o z2 /\ (z1 = <<>> => z2 = <<>>)
    BY <1>5 DEF Starts
  <1>7. /\ W \in Seq(T) /\ Substitute(z2, symbols) \in Seq(T) /\ C = W \o Substitute(z2, symbols)
        /\ z2 = <<>> => Substitute(z2, symbols) = <<>>
    <2>1. Substituted(T, symbols, V, z2)
      BY <1>2, SubstituteConcat
    <2>2. QED
      BY <1>6, <2>1 DEF Substituted
  <1>8. Unmarked(W)
    <2>1. ASSUME NEW t \in ToSet(W) PROVE t.kind \notin Markers
      <3>1. DOMAIN W = DOMAIN V /\ \A i \in DOMAIN V : W[i] = Given(symbols, V[i])
        BY DEF Substitute, Given
      <3>2. PICK i \in DOMAIN V : t = Given(symbols, V[i])
        BY <3>1 DEF ToSet
      <3>3. V[i].kind \notin Markers
        BY <1>2 DEF Unmarked, ToSet
      <3>4. QED
        BY <3>2, <3>3 DEF Given, Tok, Markers
    <2>2. QED
      BY <2>1 DEF Unmarked
  <1> HIDE DEF C, W
  <1>9. PICK z3 \in Seq(T) : C = W \o z3 /\ (z2 = <<>> => z3 = <<>>)
    BY <1>7
  <1>c. ASSUME NEW kind, NEW z \in Seq(T) PROVE Starts(T, RemoveMatches(W \o z, kind), W, z)
    <2> DEFINE L == CleaningLoop(T, kind)
    <2>1. Quiet(W, {kind})
      BY <1>7, <1>8, UnmarkedQuiet
    <2>2. PICK g : Runs(T, L, g, {kind})
      BY CleaningLoopRuns
    <2>3. Yields(T, L, {kind}, W, W)
      BY <1>7, <2>1, YieldsSame
    <2> HIDE DEF L
    <2>4. W \o z \in Seq(T) /\ Starts(T, L[W \o z], W, z)
      BY <1>7, <2>2, <2>3, LoopStarts
    <2>5. L[W \o z] = RemoveMatches(W \o z, kind)
      BY <2>4 DEF L, CleaningLoop
    <2>6. QED
      BY <2>4, <2>5
  <1>10. PICK z4 \in Seq(T) : D = W \o z4 /\ (z3 = <<>> => z4 = <<>>)
    BY <1>9, <1>c DEF Starts
  <1> HIDE DEF D
  <1>11. PICK z5 \in Seq(T) : E = W \o z5 /\ (z4 = <<>> => z5 = <<>>)
    <2>1. \A t \in ToSet(W) : t.kind \notin {"else", "endif"}
      BY <1>8 DEF Unmarked, Markers
    <2>2. Starts(T, Without(W \o z4, {"else", "endif"}), W, z4)
      BY <1>7, <2>1, WithoutStarts
    <2>3. QED
      BY <1>10, <2>2 DEF Starts
  <1> HIDE DEF E
  <1>12. PICK z6 \in Seq(T) : F = W \o z6 /\ (z5 = <<>> => z6 = <<>>)
    BY <1>11, <1>c DEF Starts
  <1> HIDE DEF F
  <1>13. PICK z7 \in Seq(T) : G = W \o z7 /\ (z6 = <<>> => z7 = <<>>)
    BY <1>12, <1>c DEF Starts
  <1> HIDE DEF G
  <1>14. Z = <<>> => z7 = <<>>
    BY <1>4, <1>6, <1>9, <1>10, <1>11, <1>12, <1>13
  <1>15. QED
    BY <1>0, <1>13, <1>14 DEF Starts, W

-----------------------------------------------------------------------------
\* Conditions and blocks that make sense.

\* The first n tokens of a text make sense, and each marker among them ends its line.
Sense(K, text, n) ==
  /\ text \in Seq(K) /\ n \in 0 .. Len(text) /\ MakesSense(text, n)
  /\ \A i \in 1 .. n : IsMarker(text[i]) => i + 1 \in 1 .. n /\ text[i + 1].kind = "nl"

\* What is known of a condition or a block: the order of its markers, and that its
\* branches do not hold the marker that they end at.
Fork(text, n, f) ==
  /\ f.from \in 1 .. n /\ f.else \in 1 .. n /\ f.to \in 1 .. n
  /\ f.from < f.else /\ f.else <= f.to
  /\ IsMarker(text[f.from]) /\ IsMarker(text[f.else]) /\ IsMarker(text[f.to])
  /\ text[f.from].kind \in {"then", "start"} /\ text[f.else].kind \notin {"then", "start"}
  /\ text[f.from].kind = "then" =>
       /\ f.else < f.to
       /\ text[f.else] = Tok("else", text[f.from].name)
       /\ text[f.to] = Tok("endif", text[f.from].name)
       /\ \A i \in f.from + 1 .. f.else - 1 : text[i] # Tok("else", text[f.from].name)
       /\ \A i \in f.else + 1 .. f.to - 1 : text[i] # Tok("endif", text[f.from].name)
  /\ text[f.from].kind = "start" =>
       /\ f.else = f.to
       /\ text[f.to] = Tok("end", text[f.from].name)
       /\ \A i \in f.from + 1 .. f.to - 1 : text[i] # Tok("end", text[f.from].name)

LEMMA ForkIs ==
  ASSUME NEW K, NEW text, NEW n, Sense(K, text, n), NEW f \in Forks(text, n)
  PROVE  Fork(text, n, f) /\ f = ForkAt(text, f.from)
  <1> DEFINE i == f.from
             name == text[i].name
             else == After(text, i, Tok("else", name))
             endif == After(text, else, Tok("endif", name))
             end == After(text, i, Tok("end", name))
  <1>0. text \in Seq(K) /\ n \in Nat /\ n <= Len(text) /\ Len(text) \in Nat
    BY DEF Sense
  <1>1. PICK j \in 1 .. n : text[j].kind \in {"then", "start"} /\ f = ForkAt(text, j)
    BY DEF Forks
  <1>2. i = j /\ f = ForkAt(text, i)
    BY <1>1 DEF ForkAt
  <1>3. f.to \in 1 .. n
    BY DEF Sense, MakesSense
  <1> HIDE DEF i
  <1>4. i \in 1 .. n /\ i \in Nat
    BY <1>1, <1>2
  <1>5. CASE text[i].kind = "start"
    <2>1. f = [from |-> i, else |-> end, to |-> end]
      BY <1>2, <1>5 DEF ForkAt
    <2>2. end \in i + 1 .. Len(text) /\ text[end] = Tok("end", name)
          /\ \A k \in i + 1 .. Len(text) : text[k] = Tok("end", name) => end <= k
      BY <1>0, <1>3, <1>4, <2>1, AfterIs
    <2> HIDE DEF end
    <2>3. f.from = i /\ f.else = end /\ f.to = end /\ end \in 1 .. n /\ i < end
      BY <1>3, <1>4, <2>1, <2>2
    <2>4. \A k \in i + 1 .. end - 1 : text[k] # Tok("end", name)
      BY <1>0, <1>4, <2>2, <2>3
    <2>5. IsMarker(text[i]) /\ IsMarker(text[end]) /\ text[end].kind = "end"
      BY <1>5, <2>2 DEF IsMarker, Markers, Tok
    <2>6. Fork(text, n, f)
      BY <1>4, <1>5, <2>2, <2>3, <2>4, <2>5 DEF Fork
    <2>7. QED
      BY <1>2, <2>6 DEF i
  <1>6. CASE text[i].kind = "then"
    <2>1. f = [from |-> i, else |-> else, to |-> IF else = 0 THEN 0 ELSE endif]
      BY <1>2, <1>6 DEF ForkAt
    <2>2. else # 0 /\ f.to = endif /\ endif # 0
      BY <1>3, <2>1
    <2>3. else \in i + 1 .. Len(text) /\ text[else] = Tok("else", name)
          /\ \A k \in i + 1 .. Len(text) : text[k] = Tok("else", name) => else <= k
      BY <1>0, <1>4, <2>2, AfterIs
    <2> HIDE DEF else
    <2>4. else \in Nat
      BY <1>0, <1>4, <2>3
    <2>5. endif \in else + 1 .. Len(text) /\ text[endif] = Tok("endif", name)
          /\ \A k \in else + 1 .. Len(text) : text[k] = Tok("endif", name) => endif <= k
      BY <1>0, <2>2, <2>4, AfterIs
    <2> HIDE DEF endif
    <2>6. f.from = i /\ f.else = else /\ f.to = endif /\ endif \in 1 .. n /\ else \in 1 .. n
          /\ i < else /\ else < endif
      BY <1>0, <1>3, <1>4, <2>1, <2>2, <2>3, <2>5
    <2>7. \A k \in i + 1 .. else - 1 : text[k] # Tok("else", name)
      BY <1>0, <1>4, <2>3, <2>6
    <2>8. \A k \in else + 1 .. endif - 1 : text[k] # Tok("endif", name)
      BY <1>0, <1>4, <2>5, <2>6
    <2>9. IsMarker(text[i]) /\ IsMarker(text[else]) /\ IsMarker(text[endif]) /\ text[else].kind = "else"
      BY <1>6, <2>3, <2>5 DEF IsMarker, Markers, Tok
    <2>10. Fork(text, n, f)
      BY <1>4, <1>6, <2>3, <2>5, <2>6, <2>7, <2>8, <2>9 DEF Fork
    <2>11. QED
      BY <1>2, <2>10 DEF i
  <1>7. QED
    BY <1>1, <1>2, <1>5, <1>6

\* Two of them, of which one begins later.
Apart(f, g) == f = g \/ f.to < g.from \/ g.to < f.from \/ InBranch(f, g) \/ InBranch(g, f)

LEMMA ForksApart ==
  ASSUME NEW K, NEW text, NEW n, Sense(K, text, n)
  PROVE  /\ \A f \in Forks(text, n) : Fork(text, n, f)
         /\ \A f, g \in Forks(text, n) : Apart(f, g) /\ (f.from = g.from => f = g)
         /\ \A i \in 1 .. n : IsMarker(text[i]) => \E f \in Forks(text, n) : i \in {f.from, f.else, f.to}
  <1>1. \A f \in Forks(text, n) : Fork(text, n, f) /\ f = ForkAt(text, f.from)
    BY ForkIs
  <1>2. \A f, g \in Forks(text, n) : Apart(f, g)
    BY DEF Sense, MakesSense, Apart
  <1>3. \A i \in 1 .. n : IsMarker(text[i]) => \E f \in Forks(text, n) : i \in {f.from, f.else, f.to}
    BY DEF Sense, MakesSense
  <1>4. \A f, g \in Forks(text, n) : f.from = g.from => f = g
    BY <1>1
  <1>5. QED
    BY <1>1, <1>2, <1>3, <1>4

\* The tokens from a to b hold all markers of a condition or block or none, and the
\* last of them ends a line if it is a marker's.
Balanced(text, n, a, b) ==
  /\ a \in Nat \ {0} /\ b \in Nat /\ a <= b + 1 /\ b <= n
  /\ a <= b => ~ IsMarker(text[b])
  /\ \A f \in Forks(text, n) :
       f.from \in a .. b \/ f.else \in a .. b \/ f.to \in a .. b => a <= f.from /\ f.to <= b

\* So do its branches, and what stands behind it.
LEMMA BranchBalanced ==
  ASSUME NEW K, NEW text, NEW n, Sense(K, text, n), NEW f \in Forks(text, n),
         NEW l \in Nat, NEW h \in Nat, (l = f.from /\ h = f.else) \/ (l = f.else /\ h = f.to),
         NEW a \in l + 1 .. h, \A i \in l + 1 .. a - 1 : ~ IsMarker(text[i])
  PROVE  Balanced(text, n, a, h - 1)
  <1> DEFINE b == h - 1
  <1>0. n \in Nat /\ Fork(text, n, f)
    BY ForksApart DEF Sense
  <1>1. f.from \in 1 .. n /\ f.else \in 1 .. n /\ f.to \in 1 .. n /\ f.from < f.else /\ f.else <= f.to
        /\ IsMarker(text[h])
    BY <1>0 DEF Fork
  <1>2. l \in 1 .. n /\ h \in 1 .. n /\ f.from <= l /\ l < h /\ h <= f.to
    BY <1>1
  <1>3. a \in Nat \ {0} /\ b \in Nat /\ a <= b + 1 /\ b <= n
    BY <1>0, <1>2
  <1>4. a <= b => ~ IsMarker(text[b])
    <2> SUFFICES ASSUME a <= b, IsMarker(text[b]) PROVE FALSE
      OBVIOUS
    <2>1. b \in 1 .. n /\ b + 1 = h
      BY <1>2, <1>3
    <2>2. text[h].kind = "nl"
      BY <2>1 DEF Sense
    <2>3. QED
      BY <1>1, <2>2 DEF IsMarker, Markers
  <1>5. ASSUME NEW g \in Forks(text, n), NEW p \in {g.from, g.else, g.to}, p \in a .. b
        PROVE  a <= g.from /\ g.to <= b
    <2>1. Fork(text, n, g) /\ Apart(f, g)
      BY ForksApart
    <2>2. g.from \in 1 .. n /\ g.else \in 1 .. n /\ g.to \in 1 .. n /\ g.from < g.else /\ g.else <= g.to
          /\ IsMarker(text[g.from])
      BY <2>1 DEF Fork
    <2>3. g.from <= p /\ p <= g.to /\ l < p /\ p < h
      BY <1>2, <1>3, <1>5, <2>2
    <2> DEFINE gf == g.from
               ge == g.else
               gt == g.to
               ff == f.from
               fe == f.else
               ft == f.to
    <2>4. /\ p \in {gf, ge, gt} /\ gf < ge /\ ge <= gt /\ ff < fe /\ fe <= ft
          /\ gf \in Nat /\ ge \in Nat /\ gt \in Nat /\ ff \in Nat /\ fe \in Nat /\ ft \in Nat /\ p \in Nat
          /\ (l = ff /\ h = fe) \/ (l = fe /\ h = ft)
      BY <1>1, <1>3, <1>5, <2>2
    <2>5. f = g \/ ft < gf \/ gt < ff \/ (gf < ff /\ ft < ge) \/ (ge < ff /\ ft < gt)
          \/ (ff < gf /\ gt < fe) \/ (fe < gf /\ gt < ft)
      BY <2>1 DEF Apart, InBranch
    <2>6. f # g
      BY <2>3, <2>4
    <2> HIDE DEF gf, ge, gt, ff, fe, ft
    <2>7. l < gf /\ gt < h
      BY <2>3, <2>4, <2>5, <2>6
    <2>8. a <= gf
      <3>1. gf \in l + 1 .. a - 1 \/ a <= gf
        BY <1>3, <2>4, <2>7
      <3>2. IsMarker(text[gf])
        BY <2>2 DEF gf
      <3>3. QED
        BY <3>1, <3>2
    <2>9. gt <= b
      BY <2>4, <2>7
    <2>10. QED
      BY <2>8, <2>9 DEF gf, gt
  <1>6. QED
    BY <1>3, <1>4, <1>5 DEF Balanced

LEMMA RestBalanced ==
  ASSUME NEW K, NEW text, NEW n, Sense(K, text, n), NEW a, NEW b, Balanced(text, n, a, b),
         NEW f \in Forks(text, n), f.from = a, f.to <= b,
         NEW c \in f.to + 1 .. b + 1, \A i \in f.to + 1 .. c - 1 : ~ IsMarker(text[i])
  PROVE  Balanced(text, n, c, b)
  <1>0. n \in Nat /\ Fork(text, n, f) /\ a \in Nat \ {0} /\ b \in Nat /\ b <= n
    BY ForksApart DEF Sense, Balanced
  <1>1. f.from \in 1 .. n /\ f.else \in 1 .. n /\ f.to \in 1 .. n /\ f.from < f.else /\ f.else <= f.to
    BY <1>0 DEF Fork
  <1>2. c \in Nat \ {0} /\ c <= b + 1 /\ a < c /\ f.to < c
    BY <1>0, <1>1
  <1>3. c <= b => ~ IsMarker(text[b])
    BY <1>0, <1>2 DEF Balanced
  <1>4. ASSUME NEW g \in Forks(text, n), NEW p \in {g.from, g.else, g.to}, p \in c .. b
        PROVE  c <= g.from /\ g.to <= b
    <2>1. Fork(text, n, g) /\ Apart(f, g) /\ a <= g.from /\ g.to <= b
      <3>1. p \in a .. b
        BY <1>0, <1>2, <1>4
      <3>2. QED
        BY <1>4, <3>1, ForksApart DEF Balanced
    <2>2. g.from \in 1 .. n /\ g.else \in 1 .. n /\ g.to \in 1 .. n /\ g.from < g.else /\ g.else <= g.to
          /\ IsMarker(text[g.from])
      BY <2>1 DEF Fork
    <2> DEFINE gf == g.from
               ge == g.else
               gt == g.to
               ff == f.from
               fe == f.else
               ft == f.to
    <2>3. /\ p <= gt /\ ft < p /\ gf < ge /\ ge <= gt /\ ff < fe /\ fe <= ft /\ a <= gf /\ ff = a
          /\ gf \in Nat /\ ge \in Nat /\ gt \in Nat /\ ff \in Nat /\ fe \in Nat /\ ft \in Nat /\ p \in Nat
      BY <1>0, <1>1, <1>2, <1>4, <2>1, <2>2
    <2>4. f = g \/ ft < gf \/ gt < ff \/ (gf < ff /\ ft < ge) \/ (ge < ff /\ ft < gt)
          \/ (ff < gf /\ gt < fe) \/ (fe < gf /\ gt < ft)
      BY <2>1 DEF Apart, InBranch
    <2>5. f # g
      BY <2>3
    <2>6. IsMarker(text[gf])
      BY <2>2
    <2>7. gt <= b
      BY <2>1
    <2> HIDE DEF gf, ge, gt, ff, fe
    <2>8. ft < gf
      BY <2>3, <2>4, <2>5
    <2>9. gf \in ft + 1 .. c - 1 \/ c <= gf
      BY <1>2, <2>3, <2>8
    <2>10. QED
      BY <2>6, <2>7, <2>9 DEF gf, gt
  <1>5. QED
    BY <1>0, <1>2, <1>3, <1>4 DEF Balanced

-----------------------------------------------------------------------------
\* What the tokens from a to b say, of which only the conditions and blocks that
\* begin there decide.

Shown(text, n, symbols, a, i) ==
  \A f \in Forks(text, n) :
    a <= f.from /\ f.from < i /\ i < f.to => (i < f.else <=> Filled(symbols, text[f.from].name))

Gives(text, n, symbols, a) ==
  [i \in 1 .. n |-> IF Shown(text, n, symbols, a, i) /\ text[i].kind \in {"sym", "text"}
                    THEN <<Given(symbols, text[i])>> ELSE <<>>]

Places(a, b) == [k \in 1 .. (b + 1) - a |-> (a + k) - 1]
Gather(g, a, b) == Collect(g, Places(a, b))

\* Two of them in a row of two.
SameAbove(text, n, a, c, i) ==
  \A g \in Forks(text, n) : a <= g.from /\ g.from < i /\ i < g.to <=> c <= g.from /\ g.from < i /\ i < g.to

LEMMA ShownSame ==
  ASSUME NEW text, NEW n, NEW symbols, NEW a, NEW c, NEW i, SameAbove(text, n, a, c, i)
  PROVE  Shown(text, n, symbols, a, i) <=> Shown(text, n, symbols, c, i)
  BY DEF Shown, SameAbove

\* A token that is no marker begins nothing.
LEMMA ShownNext ==
  ASSUME NEW K, NEW text, NEW n, Sense(K, text, n), NEW symbols, NEW a \in 1 .. n, ~ IsMarker(text[a]), NEW i
  PROVE  Shown(text, n, symbols, a, i) <=> Shown(text, n, symbols, a + 1, i)
  <1>1. ASSUME NEW g \in Forks(text, n) PROVE a <= g.from <=> a + 1 <= g.from
    <2>1. g.from \in 1 .. n /\ IsMarker(text[g.from]) /\ n \in Nat
      BY ForksApart DEF Fork, Sense
    <2>2. g.from # a
      BY <2>1
    <2>3. QED
      BY <2>1, <2>2
  <1>2. SameAbove(text, n, a, a + 1, i)
    BY <1>1 DEF SameAbove
  <1>3. QED
    BY <1>2, ShownSame

\* A branch is shown if its name says so.
LEMMA ShownBranch ==
  ASSUME NEW K, NEW text, NEW n, Sense(K, text, n), NEW symbols, NEW f \in Forks(text, n),
         NEW l \in Nat, NEW h \in Nat, (l = f.from /\ h = f.else) \/ (l = f.else /\ h = f.to),
         NEW a \in l + 1 .. h, (\A i \in l + 1 .. a - 1 : ~ IsMarker(text[i])),
         NEW i \in a .. h - 1
  PROVE  Shown(text, n, symbols, f.from, i)
           <=> (l = f.from <=> Filled(symbols, text[f.from].name)) /\ Shown(text, n, symbols, a, i)
  <1>0. n \in Nat /\ Fork(text, n, f)
    BY ForksApart DEF Sense
  <1>1. f.from \in 1 .. n /\ f.else \in 1 .. n /\ f.to \in 1 .. n /\ f.from < f.else /\ f.else <= f.to
        /\ i \in Nat
    BY <1>0 DEF Fork
  <1>2. f.from < i /\ i < f.to /\ (i < f.else <=> l = f.from)
    BY <1>1
  <1>3. ASSUME NEW g \in Forks(text, n), g # f
        PROVE  f.from <= g.from /\ g.from < i /\ i < g.to <=> a <= g.from /\ g.from < i /\ i < g.to
    <2>1. Fork(text, n, g) /\ Apart(f, g)
      BY ForksApart
    <2>2. g.from \in 1 .. n /\ g.else \in 1 .. n /\ g.to \in 1 .. n /\ g.from < g.else /\ g.else <= g.to
          /\ IsMarker(text[g.from]) /\ text[g.from].kind \in {"then", "start"}
      BY <2>1 DEF Fork
    <2>3. g.from # f.else
      BY <1>0, <2>2 DEF Fork
    <2>q. g.from # f.from
      BY <1>3, ForksApart
    <2> DEFINE gf == g.from
               ge == g.else
               gt == g.to
               ff == f.from
               fe == f.else
               ft == f.to
    <2>4. /\ gf < ge /\ ge <= gt /\ ff < fe /\ fe <= ft /\ gf # fe /\ gf # ff
          /\ gf \in Nat /\ ge \in Nat /\ gt \in Nat /\ ff \in Nat /\ fe \in Nat /\ ft \in Nat /\ i \in Nat
          /\ (l = ff /\ h = fe) \/ (l = fe /\ h = ft)
      BY <1>1, <2>2, <2>3, <2>q
    <2>5. ft < gf \/ gt < ff \/ (gf < ff /\ ft < ge) \/ (ge < ff /\ ft < gt)
          \/ (ff < gf /\ gt < fe) \/ (fe < gf /\ gt < ft)
      BY <1>3, <2>1 DEF Apart, InBranch
    <2>6. IsMarker(text[gf])
      BY <2>2
    <2> HIDE DEF gf, ge, gt, ff, fe, ft
    <2>7. ASSUME ff <= gf, gf < i, i < gt PROVE a <= gf
      <3>1. l < gf
        BY <2>4, <2>5, <2>7
      <3>2. gf \in l + 1 .. a - 1 \/ a <= gf
        BY <2>4, <3>1
      <3>3. QED
        BY <2>6, <3>2
    <2>8. ASSUME a <= gf PROVE ff <= gf
      BY <2>4, <2>8
    <2>9. ff <= gf /\ gf < i /\ i < gt <=> a <= gf /\ gf < i /\ i < gt
      BY <2>7, <2>8
    <2>10. QED
      BY <2>9 DEF gf, ff, gt
  <1>4. ~ (a <= f.from)
    BY <1>1
  <1>5. f.from <= f.from
    BY <1>1
  <1>6. QED
    BY <1>2, <1>3, <1>4, <1>5 DEF Shown

\* What stands behind it does not depend on it.
LEMMA ShownRest ==
  ASSUME NEW K, NEW text, NEW n, Sense(K, text, n), NEW symbols, NEW f \in Forks(text, n),
         NEW c \in Nat, f.to < c, (\A i \in f.to + 1 .. c - 1 : ~ IsMarker(text[i])), NEW i \in Nat, c <= i
  PROVE  Shown(text, n, symbols, f.from, i) <=> Shown(text, n, symbols, c, i)
  <1>0. n \in Nat /\ Fork(text, n, f)
    BY ForksApart DEF Sense
  <1>1. f.from \in 1 .. n /\ f.else \in 1 .. n /\ f.to \in 1 .. n /\ f.from < f.else /\ f.else <= f.to
    BY <1>0 DEF Fork
  <1>3. ASSUME NEW g \in Forks(text, n)
        PROVE  f.from <= g.from /\ g.from < i /\ i < g.to <=> c <= g.from /\ g.from < i /\ i < g.to
    <2>1. Fork(text, n, g) /\ Apart(f, g)
      BY ForksApart
    <2>2. g.from \in 1 .. n /\ g.else \in 1 .. n /\ g.to \in 1 .. n /\ g.from < g.else /\ g.else <= g.to
          /\ IsMarker(text[g.from])
      BY <2>1 DEF Fork
    <2> DEFINE gf == g.from
               ge == g.else
               gt == g.to
               ff == f.from
               fe == f.else
               ft == f.to
    <2>4. /\ gf < ge /\ ge <= gt /\ ff < fe /\ fe <= ft /\ ft < c
          /\ gf \in Nat /\ ge \in Nat /\ gt \in Nat /\ ff \in Nat /\ fe \in Nat /\ ft \in Nat
      BY <1>1, <2>2
    <2>5. g = f \/ ft < gf \/ gt < ff \/ (gf < ff /\ ft < ge) \/ (ge < ff /\ ft < gt)
          \/ (ff < gf /\ gt < fe) \/ (fe < gf /\ gt < ft)
      BY <2>1 DEF Apart, InBranch
    <2>6. IsMarker(text[gf])
      BY <2>2
    <2>p. g = f => gt = ft
      OBVIOUS
    <2>7. \A k \in ft + 1 .. c - 1 : ~ IsMarker(text[k])
      OBVIOUS
    <2> HIDE DEF gf, ge, gt, ff, fe, ft
    <2>8. ASSUME ff <= gf, gf < i, i < gt PROVE c <= gf
      <3>1. ft < gf
        BY <2>4, <2>5, <2>8, <2>p
      <3>2. gf \in ft + 1 .. c - 1 \/ c <= gf
        BY <2>4, <3>1
      <3>3. QED
        BY <2>6, <2>7, <3>2
    <2>9. ASSUME c <= gf PROVE ff <= gf
      BY <2>4, <2>9
    <2>10. ff <= gf /\ gf < i /\ i < gt <=> c <= gf /\ gf < i /\ i < gt
      BY <2>8, <2>9
    <2>11. QED
      BY <2>10 DEF gf, ff, gt
  <1>4. SameAbove(text, n, f.from, c, i)
    BY <1>3 DEF SameAbove
  <1>5. QED
    BY <1>4, ShownSame

-----------------------------------------------------------------------------
LEMMA PlacesTyped ==
  ASSUME NEW n \in Nat, NEW a \in Nat \ {0}, NEW b \in Nat, a <= b + 1, b <= n
  PROVE  /\ Places(a, b) \in Seq(1 .. n) /\ Len(Places(a, b)) = (b + 1) - a
         /\ DOMAIN Places(a, b) = 1 .. (b + 1) - a
         /\ \A k \in 1 .. (b + 1) - a : Places(a, b)[k] = (a + k) - 1 /\ (a + k) - 1 \in a .. b
  <1> DEFINE m == (b + 1) - a
             s == [k \in 1 .. m |-> (a + k) - 1]
  <1>1. m \in Nat
    OBVIOUS
  <1>2. \A k \in 1 .. m : (a + k) - 1 \in 1 .. n /\ (a + k) - 1 \in a .. b
    OBVIOUS
  <1>3. Places(a, b) = s
    BY DEF Places
  <1> HIDE DEF m
  <1>4. s \in [1 .. m -> 1 .. n] /\ \A k \in 1 .. m : s[k] = (a + k) - 1
    BY <1>2
  <1> HIDE DEF s
  <1>5. s \in Seq(1 .. n) /\ Len(s) = m /\ DOMAIN s = 1 .. m
    BY <1>1, <1>4
  <1>6. QED
    BY <1>2, <1>3, <1>4, <1>5 DEF m

LEMMA PlacesSplit ==
  ASSUME NEW n \in Nat, NEW a \in Nat \ {0}, NEW m \in Nat, NEW b \in Nat,
         a <= m + 1, m <= b, b <= n
  PROVE  Places(a, m) \o Places(m + 1, b) = Places(a, b)
  <1> DEFINE s == Places(a, m)
             t == Places(m + 1, b)
             r == Places(a, b)
             u == s \o t
  <1>0. a <= b + 1 /\ m <= n /\ m + 1 \in Nat \ {0} /\ m + 1 <= b + 1
    OBVIOUS
  <1>1. /\ s \in Seq(1 .. n) /\ Len(s) = (m + 1) - a
        /\ \A k \in 1 .. (m + 1) - a : s[k] = (a + k) - 1
    BY <1>0, PlacesTyped
  <1>2. /\ t \in Seq(1 .. n) /\ Len(t) = (b + 1) - (m + 1)
        /\ \A k \in 1 .. (b + 1) - (m + 1) : t[k] = ((m + 1) + k) - 1
    BY <1>0, PlacesTyped
  <1>3. /\ r \in Seq(1 .. n) /\ Len(r) = (b + 1) - a
        /\ \A k \in 1 .. (b + 1) - a : r[k] = (a + k) - 1
    BY <1>0, PlacesTyped
  <1> HIDE DEF s, t, r
  <1>4. Fits(1 .. n, s, t)
    BY <1>1, <1>2, AllFit
  <1>5. /\ u \in Seq(1 .. n) /\ Len(u) = Len(s) + Len(t)
        /\ (\A i \in 1 .. Len(s) : u[i] = s[i])
        /\ \A i \in 1 .. Len(t) : u[Len(s) + i] = t[i]
    BY <1>4 DEF Fits
  <1> HIDE DEF u
  <1>6. ASSUME NEW i \in 1 .. Len(r) PROVE u[i] = r[i]
    <2>1. CASE i <= Len(s)
      <3>1. i \in 1 .. (m + 1) - a /\ i \in 1 .. Len(s) /\ i \in 1 .. (b + 1) - a
        BY <1>1, <1>3, <2>1
      <3>2. QED
        BY <1>1, <1>3, <1>5, <3>1
    <2>2. CASE i > Len(s)
      <3> DEFINE j == i - Len(s)
      <3>1. j \in 1 .. (b + 1) - (m + 1) /\ j \in 1 .. Len(t) /\ i = Len(s) + j /\ i \in 1 .. (b + 1) - a
        BY <1>1, <1>2, <1>3, <2>2
      <3> HIDE DEF j
      <3>2. u[i] = ((m + 1) + j) - 1
        BY <1>2, <1>5, <3>1
      <3>3. r[i] = (a + i) - 1
        BY <1>3, <3>1
      <3>4. (a + i) - 1 = ((m + 1) + j) - 1
        BY <1>1, <3>1
      <3>5. QED
        BY <3>2, <3>3, <3>4
    <2>3. QED
      BY <1>1, <2>1, <2>2
  <1>7. Len(u) = Len(r)
    BY <1>1, <1>2, <1>3, <1>5
  <1>8. u = r
    BY <1>3, <1>5, <1>6, <1>7, SeqEqual
  <1>9. QED
    BY <1>8 DEF u, s, t, r

GatherCut(g, a, m, b) == Gather(g, a, b) = Gather(g, a, m) \o Gather(g, m + 1, b)

LEMMA GatherSplit ==
  ASSUME NEW T, NEW n \in Nat, NEW g \in Lister(1 .. n, T), NEW a \in Nat \ {0}, NEW m \in Nat,
         NEW b \in Nat, a <= m + 1, m <= b, b <= n
  PROVE  GatherCut(g, a, m, b)
  <1> DEFINE s == Places(a, m)
             t == Places(m + 1, b)
  <1>1. s \in Seq(1 .. n)
    <2>1. m <= n
      OBVIOUS
    <2>2. QED
      BY <2>1, PlacesTyped
  <1>2. t \in Seq(1 .. n)
    <2>1. m + 1 \in Nat \ {0} /\ m + 1 <= b + 1
      OBVIOUS
    <2>2. QED
      BY <2>1, PlacesTyped
  <1>3. s \o t = Places(a, b)
    BY PlacesSplit, ZenonT(60)
  <1> HIDE DEF s, t
  <1>4. Collect(g, s \o t) = Collect(g, s) \o Collect(g, t)
    BY <1>1, <1>2, CollectConcat
  <1>5. QED
    BY <1>3, <1>4 DEF GatherCut, Gather, s, t

LEMMA GatherTyped ==
  ASSUME NEW T, NEW n \in Nat, NEW g \in Lister(1 .. n, T), NEW a \in Nat \ {0}, NEW b \in Nat,
         a <= b + 1, b <= n
  PROVE  Gather(g, a, b) \in Seq(T)
  BY PlacesTyped, CollectTyped DEF Gather

LEMMA GatherSame ==
  ASSUME NEW g, NEW h, NEW a \in Nat \ {0}, NEW b \in Nat, a <= b + 1,
         \A i \in a .. b : g[i] = h[i]
  PROVE  Gather(g, a, b) = Gather(h, a, b)
  <1> DEFINE s == Places(a, b)
  <1>0. s \in Seq(1 .. b) /\ Len(s) = (b + 1) - a /\ \A k \in 1 .. (b + 1) - a : s[k] = (a + k) - 1
    BY PlacesTyped
  <1> HIDE DEF s
  <1>1. \A k \in DOMAIN s : s[k] \in a .. b
    <2>1. DOMAIN s = 1 .. (b + 1) - a
      BY <1>0
    <2>2. \A k \in 1 .. (b + 1) - a : (a + k) - 1 \in a .. b
      OBVIOUS
    <2>3. QED
      BY <1>0, <2>1, <2>2
  <1>2. [k \in DOMAIN s |-> g[s[k]]] = [k \in DOMAIN s |-> h[s[k]]]
    BY <1>1
  <1>3. QED
    BY <1>2 DEF Gather, Collect, s

LEMMA GatherNone ==
  ASSUME NEW n \in Nat, NEW g, NEW a \in Nat \ {0}, NEW b \in Nat, a <= b + 1, b <= n,
         \A i \in a .. b : g[i] = <<>>
  PROVE  Gather(g, a, b) = <<>>
  <1> DEFINE h == [i \in 1 .. n |-> <<>>]
  <1>1. \A i \in a .. b : g[i] = h[i]
    OBVIOUS
  <1>2. h \in Lister(1 .. n, {})
    <2>1. <<>> \in Seq({})
      OBVIOUS
    <2>2. QED
      BY <2>1 DEF Lister
  <1> HIDE DEF h
  <1>3. Gather(h, a, b) \in Seq({})
    BY <1>2, GatherTyped
  <1>4. \A s \in Seq({}) : s = <<>>
    OBVIOUS
  <1>5. Gather(g, a, b) = Gather(h, a, b)
    BY <1>1, GatherSame
  <1>6. QED
    BY <1>3, <1>4, <1>5

LEMMA GatherOne ==
  ASSUME NEW T, NEW n \in Nat, NEW g \in Lister(1 .. n, T), NEW a \in 1 .. n
  PROVE  Gather(g, a, a) = g[a]
  <1>1. Places(a, a) = <<a>>
    <2>1. a \in Nat \ {0} /\ a \in Nat /\ a <= a + 1 /\ a <= n /\ (a + 1) - a = 1 /\ (a + 1) - 1 = a
      OBVIOUS
    <2> DEFINE s == Places(a, a)
    <2>2. s \in Seq(1 .. n) /\ Len(s) = 1 /\ s[1] = a
      <3>1. Len(s) = (a + 1) - a /\ s \in Seq(1 .. n) /\ \A k \in 1 .. (a + 1) - a : s[k] = (a + k) - 1
        BY <2>1, PlacesTyped
      <3> HIDE DEF s
      <3>2. QED
        BY <2>1, <3>1
    <2> HIDE DEF s
    <2>3. s = <<a>>
      BY <2>2
    <2>4. QED
      BY <2>3 DEF s
  <1>2. Collect(g, <<a>>) = g[a]
    BY CollectOne
  <1>3. QED
    BY <1>1, <1>2 DEF Gather

\* The first of several places.
GatherHead(g, a, b) ==
  /\ Gather(g, a, b) = g[a] \o Gather(g, a + 1, b)
  /\ g[a] = <<>> => Gather(g, a, b) = Gather(g, a + 1, b)

LEMMA GatherFirst ==
  ASSUME NEW T, NEW n \in Nat, NEW g \in Lister(1 .. n, T), NEW a \in 1 .. n, NEW b \in Nat,
         a <= b, b <= n
  PROVE  GatherHead(g, a, b)
  <1>1. Gather(g, a, b) = Gather(g, a, a) \o Gather(g, a + 1, b)
    <2>1. a \in Nat \ {0} /\ a \in Nat /\ a <= a + 1
      OBVIOUS
    <2>2. GatherCut(g, a, a, b)
      BY <2>1, GatherSplit
    <2>3. QED
      BY <2>2 DEF GatherCut
  <1>2. Gather(g, a, a) = g[a]
    BY GatherOne
  <1>3. Gather(g, a + 1, b) \in Seq(T)
    <2>1. a + 1 \in Nat \ {0} /\ a + 1 <= b + 1
      OBVIOUS
    <2>2. QED
      BY <2>1, GatherTyped
  <1>4. \A s \in Seq(T) : <<>> \o s = s
    BY ConcatEmptySeq
  <1> DEFINE G == Gather(g, a + 1, b)
  <1> HIDE DEF G
  <1>5. Gather(g, a, b) = g[a] \o G /\ G \in Seq(T)
    BY <1>1, <1>2, <1>3 DEF G
  <1>6. g[a] = <<>> => Gather(g, a, b) = G
    BY <1>4, <1>5
  <1>7. QED
    BY <1>5, <1>6 DEF GatherHead, G

-----------------------------------------------------------------------------
\* What a part of the text that is balanced leaves is what it says.

Spoken(K, symbols) == {Given(symbols, t) : t \in K}
Telling(K, symbols) == [t \in K |-> IF t.kind = "nl" THEN <<>> ELSE <<Given(symbols, t)>>]

Says(K, text, n, symbols, a, b) ==
  \E V : /\ Leaves(K, symbols, SubSeq(text, a, b), V)
         /\ Collect(Telling(K, symbols), V) = Gather(Gives(text, n, symbols, a), a, b)

\* The tokens there are.
Kinds(K) == \A t \in K : t = Tok(t.kind, t.name) /\ t.kind \in {"text", "sym", "nl"} \cup Markers

LEMMA TellingIs ==
  ASSUME NEW K, NEW symbols
  PROVE  Telling(K, symbols) \in Lister(K, Spoken(K, symbols))
  <1>1. ASSUME NEW t \in K
        PROVE  (IF t.kind = "nl" THEN <<>> ELSE <<Given(symbols, t)>>) \in Seq(Spoken(K, symbols))
    <2>1. Given(symbols, t) \in Spoken(K, symbols)
      BY DEF Spoken
    <2>2. QED
      BY <2>1
  <1>2. QED
    BY <1>1 DEF Telling, Lister

LEMMA GivesIs ==
  ASSUME NEW K, NEW text, NEW n, Sense(K, text, n), NEW symbols, NEW a
  PROVE  Gives(text, n, symbols, a) \in Lister(1 .. n, Spoken(K, symbols))
  <1>1. ASSUME NEW i \in 1 .. n
        PROVE  (IF Shown(text, n, symbols, a, i) /\ text[i].kind \in {"sym", "text"}
                THEN <<Given(symbols, text[i])>> ELSE <<>>) \in Seq(Spoken(K, symbols))
    <2>1. Given(symbols, text[i]) \in Spoken(K, symbols)
      <3>1. text[i] \in K
        BY DEF Sense
      <3>2. QED
        BY <3>1 DEF Spoken
    <2>2. QED
      BY <2>1
  <1>2. QED
    BY <1>1 DEF Gives, Lister

\* A part of a text is cut in two.
Cut(text, a, m, b) == SubSeq(text, a, b) = SubSeq(text, a, m) \o SubSeq(text, m + 1, b)

LEMMA CutIs ==
  ASSUME NEW K, NEW text \in Seq(K), NEW a \in Nat \ {0}, NEW m \in Nat, NEW b \in Nat,
         a <= m + 1, m <= b, b <= Len(text)
  PROVE  Cut(text, a, m, b)
  <1>1. a \in 1 .. Len(text) + 1 /\ m \in a - 1 .. Len(text) /\ b \in m .. Len(text)
    OBVIOUS
  <1>2. QED
    BY <1>1, ConcatAdjacentSubSeq DEF Cut

PartOf(text, a, b) == \A x \in ToSet(SubSeq(text, a, b)) : \E i \in a .. b : x = text[i]

LEMMA PartIs ==
  ASSUME NEW K, NEW text \in Seq(K), NEW a \in Nat \ {0}, NEW b \in Nat, a <= b + 1, b <= Len(text)
  PROVE  /\ SubSeq(text, a, b) \in Seq(K) /\ Len(SubSeq(text, a, b)) = (b + 1) - a
         /\ \A i \in 1 .. (b + 1) - a : SubSeq(text, a, b)[i] = text[(a + i) - 1]
         /\ PartOf(text, a, b)
  <1> DEFINE s == SubSeq(text, a, b)
  <1>1. \A i \in a .. b : text[i] \in K
    OBVIOUS
  <1>2. s \in Seq(K) /\ Len(s) = (b + 1) - a /\ \A i \in 1 .. (b + 1) - a : s[i] = text[(a + i) - 1]
    BY <1>1, SubSeqProperties
  <1> HIDE DEF s
  <1>3. ASSUME NEW x \in ToSet(s) PROVE \E i \in a .. b : x = text[i]
    <2>1. DOMAIN s = 1 .. (b + 1) - a
      BY <1>2
    <2>2. PICK i \in 1 .. (b + 1) - a : x = s[i]
      BY <2>1 DEF ToSet
    <2>3. (a + i) - 1 \in a .. b
      OBVIOUS
    <2>4. QED
      BY <1>2, <2>2, <2>3
  <1>4. QED
    BY <1>2, <1>3 DEF PartOf, s

LEMMA PartOne ==
  ASSUME NEW K, NEW text \in Seq(K), NEW a \in 1 .. Len(text)
  PROVE  SubSeq(text, a, a) = <<text[a]>>
  <1> DEFINE s == SubSeq(text, a, a)
  <1>1. a \in Nat \ {0} /\ a \in Nat /\ a <= a + 1 /\ a <= Len(text) /\ (a + 1) - a = 1 /\ (a + 1) - 1 = a
    OBVIOUS
  <1>2. s \in Seq(K) /\ Len(s) = 1 /\ s[1] = text[a]
    <2>1. s \in Seq(K) /\ Len(s) = (a + 1) - a /\ \A i \in 1 .. (a + 1) - a : s[i] = text[(a + i) - 1]
      BY <1>1, PartIs
    <2> HIDE DEF s
    <2>2. QED
      BY <1>1, <2>1
  <1> HIDE DEF s
  <1>3. s = <<text[a]>>
    BY <1>2
  <1>4. QED
    BY <1>3 DEF s

\* The first token and the rest.
LEMMA CutFirst ==
  ASSUME NEW K, NEW text \in Seq(K), NEW a \in 1 .. Len(text), NEW b \in Nat, a <= b, b <= Len(text)
  PROVE  SubSeq(text, a, b) = <<text[a]>> \o SubSeq(text, a + 1, b)
  <1>1. Cut(text, a, a, b)
    <2>1. a \in Nat \ {0} /\ a \in Nat /\ a <= a + 1
      OBVIOUS
    <2>2. QED
      BY <2>1, CutIs
  <1>2. SubSeq(text, a, a) = <<text[a]>>
    BY PartOne
  <1>3. QED
    BY <1>1, <1>2 DEF Cut

\* What a row of tokens tells.
Tells(g, s, t) == Collect(g, s \o t) = Collect(g, s) \o Collect(g, t)

LEMMA AllTell ==
  ASSUME NEW K, NEW symbols
  PROVE  /\ \A s, t \in Seq(K) : Tells(Telling(K, symbols), s, t)
         /\ \A s \in Seq(K) : Collect(Telling(K, symbols), s) \in Seq(Spoken(K, symbols))
         /\ \A x \in K : Collect(Telling(K, symbols), <<x>>) = Telling(K, symbols)[x]
         /\ Collect(Telling(K, symbols), <<>>) = <<>>
  <1> DEFINE g == Telling(K, symbols)
             T == Spoken(K, symbols)
  <1>1. g \in Lister(K, T)
    BY TellingIs
  <1> HIDE DEF g, T
  <1>2. \A s, t \in Seq(K) : Tells(g, s, t)
    BY <1>1, CollectConcat DEF Tells
  <1>3. \A s \in Seq(K) : Collect(g, s) \in Seq(T)
    BY <1>1, CollectTyped
  <1>4. \A x \in K : Collect(g, <<x>>) = g[x]
    BY <1>1, CollectOne
  <1>5. QED
    BY <1>2, <1>3, <1>4, CollectEmpty DEF g, T

\* Nothing says nothing.
LEMMA SaysNothing ==
  ASSUME NEW K, NEW text, NEW n, Sense(K, text, n), NEW symbols, NEW a \in Nat \ {0}, NEW b \in Nat,
         b + 1 = a, b <= n
  PROVE  Says(K, text, n, symbols, a, b)
  <1>1. SubSeq(text, a, b) = <<>>
    <2>1. text \in Seq(K) /\ b <= Len(text) /\ a <= b + 1 /\ (b + 1) - a = 0
      BY DEF Sense
    <2>2. SubSeq(text, a, b) \in Seq(K) /\ Len(SubSeq(text, a, b)) = 0
      BY <2>1, PartIs
    <2>3. QED
      BY <2>2, EmptySeq
  <1>2. Gather(Gives(text, n, symbols, a), a, b) = <<>>
    <2>1. n \in Nat /\ a <= b + 1 /\ a .. b = {}
      BY DEF Sense
    <2>2. QED
      BY <2>1, GatherNone
  <1>3. QED
    BY <1>1, <1>2, LeavesNothing, CollectEmpty DEF Says

\* A token that is no marker.
LEMMA SaysToken ==
  ASSUME NEW K, Kinds(K), NEW text, NEW n, Sense(K, text, n), NEW symbols, NEW a \in 1 .. n, NEW b \in Nat,
         a <= b, b <= n, ~ IsMarker(text[a]), Says(K, text, n, symbols, a + 1, b)
  PROVE  Says(K, text, n, symbols, a, b)
  <1> DEFINE x == text[a]
             R == SubSeq(text, a + 1, b)
             g == Gives(text, n, symbols, a)
             h == Gives(text, n, symbols, a + 1)
             W == Telling(K, symbols)
  <1>0. text \in Seq(K) /\ n \in Nat /\ n <= Len(text) /\ a \in 1 .. Len(text) /\ b <= Len(text)
        /\ a + 1 \in Nat \ {0} /\ a + 1 <= b + 1 /\ x \in K
    BY DEF Sense
  <1>1. PICK V : Leaves(K, symbols, R, V) /\ Collect(W, V) = Gather(h, a + 1, b)
    BY DEF Says
  <1>2. SubSeq(text, a, b) = <<x>> \o R
    BY <1>0, CutFirst
  <1>3. R \in Seq(K)
    BY <1>0, PartIs
  <1>4. g \in Lister(1 .. n, Spoken(K, symbols))
    BY GivesIs
  <1>5. g[a] = W[x]
    <2>1. Shown(text, n, symbols, a, a)
      <3>1. \A f \in Forks(text, n) : ~ (a <= f.from /\ f.from < a)
        <4>1. \A f \in Forks(text, n) : f.from \in Nat
          BY ForksApart DEF Fork
        <4>2. QED
          BY <4>1
      <3>2. QED
        BY <3>1 DEF Shown
    <2>2. x.kind \in {"text", "sym", "nl"}
      BY <1>0 DEF Kinds, IsMarker
    <2>3. QED
      BY <1>0, <2>1, <2>2 DEF Gives, Telling
  <1>6. \A i \in a + 1 .. b : g[i] = h[i]
    <2>1. ASSUME NEW i \in a + 1 .. b PROVE g[i] = h[i]
      <3>1. i \in 1 .. n
        BY <1>0
      <3>2. Shown(text, n, symbols, a, i) <=> Shown(text, n, symbols, a + 1, i)
        BY ShownNext
      <3>3. QED
        BY <3>1, <3>2 DEF Gives
    <2>2. QED
      BY <2>1
  <1> HIDE DEF x, R, g, h, W
  <1>7. Gather(g, a + 1, b) = Gather(h, a + 1, b)
    BY <1>0, <1>6, GatherSame
  <1>8. Gather(g, a, b) = g[a] \o Gather(g, a + 1, b)
    <2>1. GatherHead(g, a, b)
      BY <1>0, <1>4, GatherFirst
    <2>2. QED
      BY <2>1 DEF GatherHead
  <1>9. V \in Seq(K)
    BY <1>1, LeavesTyped
  <1>10. Leaves(K, symbols, <<x>> \o R, <<x>> \o V)
    <2>1. Leaves(K, symbols, <<x>>, <<x>>)
      BY <1>0, LeavesToken DEF IsMarker, x
    <2>2. <<x>> \in Seq(K)
      BY <1>0
    <2> DEFINE X == <<x>>
    <2> HIDE DEF X
    <2>3. Leaves(K, symbols, X, X) /\ X \in Seq(K)
      BY <2>1, <2>2 DEF X
    <2>4. Leaves(K, symbols, X \o R, X \o V)
      BY <1>1, <1>3, <2>3, LeavesConcat
    <2>5. QED
      BY <2>4 DEF X
  <1>11. Collect(W, <<x>> \o V) = W[x] \o Collect(W, V)
    <2>1. Tells(W, <<x>>, V) /\ Collect(W, <<x>>) = W[x]
      <3>1. <<x>> \in Seq(K)
        BY <1>0
      <3>2. QED
        BY <1>0, <1>9, <3>1, AllTell DEF W
    <2>2. QED
      BY <2>1 DEF Tells
  <1> DEFINE XV == <<x>> \o V
             XR == <<x>> \o R
  <1>12. Collect(W, XV) = Gather(g, a, b) /\ Leaves(K, symbols, XR, XV) /\ SubSeq(text, a, b) = XR
    BY <1>1, <1>2, <1>5, <1>7, <1>8, <1>10, <1>11
  <1> HIDE DEF XV, XR
  <1>13. QED
    BY <1>12 DEF Says, W, g

-----------------------------------------------------------------------------
\* Conditions and blocks.

LEMMA GivesNothing ==
  ASSUME NEW text, NEW n, NEW symbols, NEW a, NEW i \in 1 .. n, IsMarker(text[i]) \/ text[i].kind = "nl"
  PROVE  Gives(text, n, symbols, a)[i] = <<>>
  BY DEF Gives, IsMarker, Markers

\* Around a place that gives nothing.
GatherRound(g, a, m, b) == Gather(g, a, b) = Gather(g, a, m - 1) \o Gather(g, m + 1, b)
CutRound(text, a, m, b) ==
  SubSeq(text, a, b) = SubSeq(text, a, m - 1) \o (<<text[m]>> \o SubSeq(text, m + 1, b))

LEMMA GatherAround ==
  ASSUME NEW T, NEW n \in Nat, NEW g \in Lister(1 .. n, T), NEW a \in Nat \ {0}, NEW m \in Nat,
         NEW b \in Nat, a <= m, m <= b, b <= n, g[m] = <<>>
  PROVE  GatherRound(g, a, m, b)
  <1>1. m - 1 \in Nat /\ a <= (m - 1) + 1 /\ m - 1 <= b /\ (m - 1) + 1 = m /\ m \in 1 .. n
    OBVIOUS
  <1>2. GatherCut(g, a, m - 1, b)
    BY <1>1, GatherSplit
  <1>3. GatherHead(g, m, b)
    BY <1>1, GatherFirst
  <1>4. QED
    BY <1>1, <1>2, <1>3 DEF GatherCut, GatherHead, GatherRound

LEMMA CutAround ==
  ASSUME NEW K, NEW text \in Seq(K), NEW a \in Nat \ {0}, NEW m \in Nat, NEW b \in Nat,
         a <= m, m <= b, b <= Len(text)
  PROVE  CutRound(text, a, m, b)
  <1>1. m - 1 \in Nat /\ a <= (m - 1) + 1 /\ m - 1 <= b /\ (m - 1) + 1 = m /\ m \in 1 .. Len(text)
    OBVIOUS
  <1>2. Cut(text, a, m - 1, b)
    BY <1>1, CutIs
  <1>3. SubSeq(text, m, b) = <<text[m]>> \o SubSeq(text, m + 1, b)
    BY <1>1, CutFirst
  <1>4. QED
    BY <1>1, <1>2, <1>3 DEF Cut, CutRound

\* What a branch gives, and what gives what stands behind.
BranchGives(text, n, symbols, f, l, a, h) ==
  LET used == l = f.from <=> Filled(symbols, text[f.from].name)
      g == Gives(text, n, symbols, f.from)
  IN /\ used => Gather(g, a, h - 1) = Gather(Gives(text, n, symbols, a), a, h - 1)
     /\ ~ used => Gather(g, a, h - 1) = <<>>

LEMMA GatherBranch ==
  ASSUME NEW K, NEW text, NEW n, Sense(K, text, n), NEW symbols, NEW f \in Forks(text, n),
         NEW l \in Nat, NEW h \in Nat, (l = f.from /\ h = f.else) \/ (l = f.else /\ h = f.to),
         NEW a \in l + 1 .. h, (\A i \in l + 1 .. a - 1 : ~ IsMarker(text[i]))
  PROVE  BranchGives(text, n, symbols, f, l, a, h)
  <1> DEFINE F == (l = f.from <=> Filled(symbols, text[f.from].name))
             g == Gives(text, n, symbols, f.from)
             k == Gives(text, n, symbols, a)
  <1>0. n \in Nat /\ Fork(text, n, f)
    BY ForksApart DEF Sense
  <1>1. h \in 1 .. n /\ a \in Nat \ {0} /\ h - 1 \in Nat /\ a <= (h - 1) + 1 /\ h - 1 <= n
    BY <1>0 DEF Fork
  <1>2. ASSUME NEW i \in a .. h - 1 PROVE g[i] = IF F THEN k[i] ELSE <<>>
    <2>1. i \in 1 .. n
      BY <1>0, <1>1
    <2>2. Shown(text, n, symbols, f.from, i) <=> F /\ Shown(text, n, symbols, a, i)
      BY ShownBranch
    <2> HIDE DEF F
    <2>3. QED
      BY <2>1, <2>2 DEF Gives
  <1> HIDE DEF F, g, k
  <1>3. CASE F
    <2>1. \A i \in a .. h - 1 : g[i] = k[i]
      BY <1>2, <1>3
    <2>2. Gather(g, a, h - 1) = Gather(k, a, h - 1)
      BY <1>1, <2>1, GatherSame
    <2>3. QED
      BY <1>3, <2>2 DEF BranchGives, F, g, k
  <1>4. CASE ~ F
    <2>1. \A i \in a .. h - 1 : g[i] = <<>>
      BY <1>2, <1>4
    <2>2. Gather(g, a, h - 1) = <<>>
      BY <1>0, <1>1, <2>1, GatherNone
    <2>3. QED
      BY <1>4, <2>2 DEF BranchGives, F, g, k
  <1>5. QED
    BY <1>3, <1>4

RestGives(text, n, symbols, f, c, b) ==
  Gather(Gives(text, n, symbols, f.from), c, b) = Gather(Gives(text, n, symbols, c), c, b)

LEMMA GatherRest ==
  ASSUME NEW K, NEW text, NEW n, Sense(K, text, n), NEW symbols, NEW f \in Forks(text, n),
         NEW c \in Nat, f.to < c, (\A i \in f.to + 1 .. c - 1 : ~ IsMarker(text[i])),
         NEW b \in Nat, c <= b + 1, b <= n
  PROVE  RestGives(text, n, symbols, f, c, b)
  <1> DEFINE g == Gives(text, n, symbols, f.from)
             k == Gives(text, n, symbols, c)
  <1>0. n \in Nat /\ Fork(text, n, f)
    BY ForksApart DEF Sense
  <1>1. c \in Nat \ {0}
    BY <1>0 DEF Fork
  <1>2. ASSUME NEW i \in c .. b PROVE g[i] = k[i]
    <2>1. i \in 1 .. n /\ i \in Nat /\ c <= i
      BY <1>0, <1>1
    <2>2. Shown(text, n, symbols, f.from, i) <=> Shown(text, n, symbols, c, i)
      BY <2>1, ShownRest
    <2>3. QED
      BY <2>1, <2>2 DEF Gives
  <1> HIDE DEF g, k
  <1>3. Gather(g, c, b) = Gather(k, c, b)
    BY <1>1, <1>2, GatherSame
  <1>4. QED
    BY <1>3 DEF RestGives, g, k

LEMMA Spots ==
  ASSUME NEW L \in Nat, NEW n \in Nat, n <= L, NEW a \in 1 .. n, NEW e \in 1 .. n, NEW t \in 1 .. n,
         a < e, e < t, NEW b \in Nat, t < b, b <= n
  PROVE  /\ a + 1 \in Nat \ {0} /\ e - 1 \in Nat /\ a + 1 <= (e - 1) + 1 /\ e - 1 <= L
         /\ e + 1 \in Nat \ {0} /\ t - 1 \in Nat /\ e + 1 <= (t - 1) + 1 /\ t - 1 <= L
         /\ t + 1 \in Nat \ {0} /\ t + 1 <= b + 1 /\ b <= L
         /\ a \in 1 .. L /\ a <= b /\ a + 1 <= e /\ e <= b /\ e \in Nat
         /\ e + 1 <= t /\ t <= b /\ t \in Nat
  OBVIOUS

\* A condition whose branches and what stands behind it leave what they say.
LEMMA SaysCondition ==
  ASSUME NEW K, Kinds(K), NEW text, NEW n, Sense(K, text, n), NEW symbols, NEW f \in Forks(text, n),
         NEW a, NEW e, NEW t, a = f.from, e = f.else, t = f.to,
         text[a].kind = "then", NEW b \in Nat, t < b, b <= n,
         Says(K, text, n, symbols, a + 1, e - 1), Says(K, text, n, symbols, e + 1, t - 1),
         Says(K, text, n, symbols, t + 1, b)
  PROVE  Says(K, text, n, symbols, a, b)
  <1> DEFINE name == text[a].name
             x == text[a]
             y == text[e]
             z == text[t]
             p == SubSeq(text, a + 1, e - 1)
             q == SubSeq(text, e + 1, t - 1)
             r == SubSeq(text, t + 1, b)
             W == Telling(K, symbols)
             g == Gives(text, n, symbols, a)
             F == Filled(symbols, name)
  <1>0. text \in Seq(K) /\ n \in Nat /\ n <= Len(text) /\ Len(text) \in Nat /\ Fork(text, n, f)
    BY ForksApart DEF Sense
  <1>1. /\ a \in 1 .. n /\ e \in 1 .. n /\ t \in 1 .. n /\ a < e /\ e < t
        /\ IsMarker(x) /\ IsMarker(y) /\ IsMarker(z) /\ y = Tok("else", name) /\ z = Tok("endif", name)
        /\ (\A i \in a + 1 .. e - 1 : text[i] # y) /\ (\A i \in e + 1 .. t - 1 : text[i] # z)
    BY <1>0 DEF Fork
  <1>2. PICK B : Leaves(K, symbols, p, B) /\ Collect(W, B) = Gather(Gives(text, n, symbols, a + 1), a + 1, e - 1)
    BY DEF Says
  <1>3. PICK C : Leaves(K, symbols, q, C) /\ Collect(W, C) = Gather(Gives(text, n, symbols, e + 1), e + 1, t - 1)
    BY DEF Says
  <1>4. PICK E : Leaves(K, symbols, r, E) /\ Collect(W, E) = Gather(Gives(text, n, symbols, t + 1), t + 1, b)
    BY DEF Says
  <1>5. x \in K /\ y \in K /\ z \in K
    BY <1>0, <1>1, SMTT(30)
  <1>6. x = Tok("then", name)
    BY <1>5 DEF Kinds
  <1>7. /\ a + 1 \in Nat \ {0} /\ e - 1 \in Nat /\ a + 1 <= (e - 1) + 1 /\ e - 1 <= Len(text)
        /\ e + 1 \in Nat \ {0} /\ t - 1 \in Nat /\ e + 1 <= (t - 1) + 1 /\ t - 1 <= Len(text)
        /\ t + 1 \in Nat \ {0} /\ t + 1 <= b + 1 /\ b <= Len(text)
        /\ a \in 1 .. Len(text) /\ a <= b /\ a + 1 <= e /\ e <= b /\ e \in Nat
        /\ e + 1 <= t /\ t <= b /\ t \in Nat
    <2>1. a \in 1 .. n /\ e \in 1 .. n /\ t \in 1 .. n /\ a < e /\ e < t /\ n \in Nat /\ n <= Len(text)
          /\ Len(text) \in Nat
      BY <1>0, <1>1
    <2> DEFINE L == Len(text)
    <2> HIDE DEF L, x, y, z, p, q, r, W, g, F
    <2>2. a \in 1 .. n /\ e \in 1 .. n /\ t \in 1 .. n /\ a < e /\ e < t /\ n \in Nat /\ n <= L /\ L \in Nat
      BY <2>1 DEF L
    <2>3. /\ a + 1 \in Nat \ {0} /\ e - 1 \in Nat /\ a + 1 <= (e - 1) + 1 /\ e - 1 <= L
          /\ e + 1 \in Nat \ {0} /\ t - 1 \in Nat /\ e + 1 <= (t - 1) + 1 /\ t - 1 <= L
          /\ t + 1 \in Nat \ {0} /\ t + 1 <= b + 1 /\ b <= L
          /\ a \in 1 .. L /\ a <= b /\ a + 1 <= e /\ e <= b /\ e \in Nat
          /\ e + 1 <= t /\ t <= b /\ t \in Nat
      BY <2>2, Spots
    <2>4. QED
      BY <2>3 DEF L
  <1>8. p \in Seq(K) /\ q \in Seq(K) /\ r \in Seq(K)
    BY <1>0, <1>7, PartIs
  <1>9. y \notin ToSet(p) /\ z \notin ToSet(q)
    <2>1. PartOf(text, a + 1, e - 1) /\ PartOf(text, e + 1, t - 1)
      BY <1>0, <1>7, PartIs
    <2>2. QED
      BY <1>1, <2>1 DEF PartOf
  <1>10. SubSeq(text, a, b) = <<x>> \o (p \o (<<y>> \o (q \o (<<z>> \o r))))
    <2>1. SubSeq(text, a, b) = <<x>> \o SubSeq(text, a + 1, b)
      BY <1>0, <1>7, CutFirst
    <2>2. CutRound(text, a + 1, e, b) /\ CutRound(text, e + 1, t, b)
      BY <1>0, <1>7, CutAround
    <2>3. QED
      BY <2>1, <2>2 DEF CutRound
  <1>11. /\ Gather(g, a + 1, e - 1) = IF F THEN Gather(Gives(text, n, symbols, a + 1), a + 1, e - 1) ELSE <<>>
         /\ Gather(g, e + 1, t - 1) = IF F THEN <<>> ELSE Gather(Gives(text, n, symbols, e + 1), e + 1, t - 1)
         /\ Gather(g, t + 1, b) = Gather(Gives(text, n, symbols, t + 1), t + 1, b)
    <2>1. BranchGives(text, n, symbols, f, a, a + 1, e)
      <3>1. a + 1 \in a + 1 .. e /\ a \in Nat /\ e \in Nat /\ \A i \in a + 1 .. (a + 1) - 1 : ~ IsMarker(text[i])
        BY <1>1
      <3>2. QED
        BY <3>1, GatherBranch
    <2>2. BranchGives(text, n, symbols, f, e, e + 1, t)
      <3>1. e + 1 \in e + 1 .. t /\ e \in Nat /\ t \in Nat /\ \A i \in e + 1 .. (e + 1) - 1 : ~ IsMarker(text[i])
        BY <1>1
      <3>2. QED
        BY <3>1, GatherBranch
    <2>3. Gather(g, t + 1, b) = Gather(Gives(text, n, symbols, t + 1), t + 1, b)
      <3>1. t + 1 \in Nat /\ t < t + 1 /\ (\A i \in t + 1 .. (t + 1) - 1 : ~ IsMarker(text[i])) /\ t + 1 <= b + 1
        BY <1>1, <1>7
      <3>2. RestGives(text, n, symbols, f, t + 1, b)
        BY <3>1, GatherRest
      <3>3. QED
        BY <3>2 DEF RestGives
    <2>4. a = f.from /\ e # f.from
      BY <1>1
    <2>5. /\ (F => Gather(g, a + 1, e - 1) = Gather(Gives(text, n, symbols, a + 1), a + 1, e - 1))
          /\ ~ F => Gather(g, a + 1, e - 1) = <<>>
      BY <2>1, <2>4 DEF BranchGives
    <2>6. /\ (~ F => Gather(g, e + 1, t - 1) = Gather(Gives(text, n, symbols, e + 1), e + 1, t - 1))
          /\ F => Gather(g, e + 1, t - 1) = <<>>
      BY <2>2, <2>4 DEF BranchGives
    <2> HIDE DEF F, g
    <2>7. QED
      BY <2>3, <2>5, <2>6
  <1>12. Gather(g, a, b) = Gather(g, a + 1, e - 1) \o (Gather(g, e + 1, t - 1) \o Gather(g, t + 1, b))
    <2>1. g \in Lister(1 .. n, Spoken(K, symbols))
      BY GivesIs
    <2>2. g[a] = <<>> /\ g[e] = <<>> /\ g[t] = <<>>
      BY <1>1, GivesNothing
    <2> HIDE DEF g, x, y, z, p, q, r
    <2>3. GatherHead(g, a, b)
      BY <1>0, <1>1, <1>7, <2>1, GatherFirst
    <2>4. GatherRound(g, a + 1, e, b) /\ GatherRound(g, e + 1, t, b)
      BY <1>0, <1>7, <2>1, <2>2, GatherAround
    <2>5. QED
      BY <2>2, <2>3, <2>4 DEF GatherHead, GatherRound
  <1> DEFINE P == IF F THEN B ELSE C
             U == <<x>> \o (p \o (<<y>> \o (q \o (<<z>> \o r))))
             G == Gather(g, a, b)
  <1>13. Leaves(K, symbols, U, P \o E)
    <2> HIDE DEF p, q, r, x, y, z, name
    <2>1. QED
      BY <1>1, <1>2, <1>3, <1>4, <1>5, <1>6, <1>8, <1>9, LeavesBranch
  <1>14. B \in Seq(K) /\ C \in Seq(K) /\ E \in Seq(K)
    BY <1>2, <1>3, <1>4, LeavesTyped
  <1>15. Collect(W, P \o E) = Collect(W, P) \o Collect(W, E)
    <2>1. P \in Seq(K)
      BY <1>14
    <2> HIDE DEF P
    <2>2. Tells(W, P, E)
      BY <1>14, <2>1, AllTell
    <2>3. QED
      BY <2>2 DEF Tells
  <1>16. Collect(W, P) \o Collect(W, E) = G
    <2> DEFINE CB == Collect(W, B)
               CC == Collect(W, C)
               CE == Collect(W, E)
    <2>1. CB \in Seq(Spoken(K, symbols)) /\ CC \in Seq(Spoken(K, symbols)) /\ CE \in Seq(Spoken(K, symbols))
      BY <1>14, AllTell
    <2>2. \A s \in Seq(Spoken(K, symbols)) : <<>> \o s = s
      BY ConcatEmptySeq
    <2>3. G = (IF F THEN CB ELSE <<>>) \o ((IF F THEN <<>> ELSE CC) \o CE)
      <3> HIDE DEF F, g, W
      <3>1. QED
        BY <1>2, <1>3, <1>4, <1>11, <1>12
    <2>4. Collect(W, P) = IF F THEN CB ELSE CC
      OBVIOUS
    <2> DEFINE CP == Collect(W, P)
    <2> HIDE DEF CB, CC, CE, CP, G, P, F
    <2>5. CASE F
      <3>1. CP = CB /\ G = CB \o (<<>> \o CE) /\ <<>> \o CE = CE
        BY <2>1, <2>2, <2>3, <2>4, <2>5 DEF CP
      <3>2. QED
        BY <3>1 DEF CP, CE
    <2>6. CASE ~ F
      <3>1. CP = CC /\ G = <<>> \o (CC \o CE)
        BY <2>3, <2>4, <2>6 DEF CP
      <3>2. Fits(Spoken(K, symbols), CC, CE)
        BY <2>1, AllFit
      <3>3. CC \o CE \in Seq(Spoken(K, symbols))
        BY <3>2 DEF Fits
      <3> DEFINE D == CC \o CE
      <3>4. <<>> \o D = D
        <4> HIDE DEF D
        <4>1. D \in Seq(Spoken(K, symbols))
          BY <3>3 DEF D
        <4>2. QED
          BY <2>2, <4>1
      <3>5. QED
        BY <3>1, <3>4 DEF CP, CE
    <2>7. QED
      BY <2>5, <2>6
  <1> DEFINE PE == P \o E
  <1>17. Collect(W, PE) = G /\ Leaves(K, symbols, U, PE) /\ SubSeq(text, a, b) = U
    BY <1>10, <1>13, <1>15, <1>16
  <1> HIDE DEF PE, U
  <1>18. QED
    BY <1>17 DEF Says, G, W, g

LEMMA BlockSpots ==
  ASSUME NEW L \in Nat, NEW n \in Nat, n <= L, NEW a \in 1 .. n, NEW t \in 1 .. n,
         a + 1 < t, NEW b \in Nat, t < b, b <= n
  PROVE  /\ a + 2 \in Nat \ {0} /\ t - 1 \in Nat /\ a + 2 <= (t - 1) + 1 /\ t - 1 <= L
         /\ t + 2 \in Nat \ {0} /\ t + 2 <= b + 1 /\ b <= L /\ a + 2 <= t /\ t <= b
         /\ a \in 1 .. L /\ a <= b /\ a + 1 \in 1 .. L /\ a + 1 <= b /\ a + 1 \in 1 .. n
         /\ t + 1 \in 1 .. L /\ t + 1 <= b /\ t + 1 \in 1 .. n /\ a \in Nat /\ t \in Nat
         /\ (a + 1) + 1 = a + 2 /\ (t + 1) + 1 = t + 2 /\ a + 2 \in a + 1 .. t
         /\ (a + 2) - 1 = a + 1 /\ (t + 2) - 1 = t + 1 /\ t < t + 2 /\ t + 2 \in Nat /\ t \in 1 .. L
  OBVIOUS

\* A block of which what stands in it and behind it leaves what it says.
LEMMA SaysBlock ==
  ASSUME NEW K, Kinds(K), NEW text, NEW n, Sense(K, text, n), NEW symbols, NEW f \in Forks(text, n),
         NEW a, NEW t, a = f.from, t = f.to,
         text[a].kind = "start", NEW b \in Nat, t < b, b <= n,
         Says(K, text, n, symbols, a + 2, t - 1), Says(K, text, n, symbols, t + 2, b)
  PROVE  /\ Says(K, text, n, symbols, a, b)
  <1> DEFINE name == text[a].name
             x == text[a]
             w == text[a + 1]
             z == text[t]
             v == text[t + 1]
             p == SubSeq(text, a + 2, t - 1)
             r == SubSeq(text, t + 2, b)
             W == Telling(K, symbols)
             g == Gives(text, n, symbols, a)
             F == Filled(symbols, name)
  <1>0. text \in Seq(K) /\ n \in Nat /\ n <= Len(text) /\ Len(text) \in Nat /\ Fork(text, n, f)
    BY ForksApart DEF Sense
  <1>1. /\ a \in 1 .. n /\ t \in 1 .. n /\ a < t /\ f.else = t
        /\ IsMarker(x) /\ IsMarker(z) /\ z = Tok("end", name)
        /\ \A i \in a + 1 .. t - 1 : text[i] # z
    BY <1>0 DEF Fork
  <1>2. w.kind = "nl" /\ v.kind = "nl" /\ a + 1 < t
    <2>1. a + 1 \in 1 .. n /\ w.kind = "nl" /\ v.kind = "nl"
      BY <1>1 DEF Sense
    <2>2. z.kind = "end"
      BY <1>1 DEF Tok
    <2>3. a + 1 # t
      BY <2>1, <2>2
    <2>4. QED
      BY <1>1, <2>1, <2>3
  <1>3. /\ a + 2 \in Nat \ {0} /\ t - 1 \in Nat /\ a + 2 <= (t - 1) + 1 /\ t - 1 <= Len(text)
        /\ t + 2 \in Nat \ {0} /\ t + 2 <= b + 1 /\ b <= Len(text) /\ a + 2 <= t /\ t <= b
        /\ a \in 1 .. Len(text) /\ a <= b /\ a + 1 \in 1 .. Len(text) /\ a + 1 <= b /\ a + 1 \in 1 .. n
        /\ t + 1 \in 1 .. Len(text) /\ t + 1 <= b /\ t + 1 \in 1 .. n /\ a \in Nat /\ t \in Nat
        /\ (a + 1) + 1 = a + 2 /\ (t + 1) + 1 = t + 2 /\ a + 2 \in a + 1 .. t
        /\ (a + 2) - 1 = a + 1 /\ (t + 2) - 1 = t + 1 /\ t < t + 2 /\ t + 2 \in Nat /\ t \in 1 .. Len(text)
    <2>1. a \in 1 .. n /\ t \in 1 .. n /\ a + 1 < t /\ n \in Nat /\ n <= Len(text) /\ Len(text) \in Nat
      BY <1>0, <1>1, <1>2
    <2> DEFINE L == Len(text)
    <2> HIDE DEF L, x, w, z, v, p, r, W, g, F
    <2>2. a \in 1 .. n /\ t \in 1 .. n /\ a + 1 < t /\ n \in Nat /\ n <= L /\ L \in Nat
      BY <2>1 DEF L
    <2>3. /\ a + 2 \in Nat \ {0} /\ t - 1 \in Nat /\ a + 2 <= (t - 1) + 1 /\ t - 1 <= L
          /\ t + 2 \in Nat \ {0} /\ t + 2 <= b + 1 /\ b <= L /\ a + 2 <= t /\ t <= b
          /\ a \in 1 .. L /\ a <= b /\ a + 1 \in 1 .. L /\ a + 1 <= b /\ a + 1 \in 1 .. n
          /\ t + 1 \in 1 .. L /\ t + 1 <= b /\ t + 1 \in 1 .. n /\ a \in Nat /\ t \in Nat
          /\ (a + 1) + 1 = a + 2 /\ (t + 1) + 1 = t + 2 /\ a + 2 \in a + 1 .. t
          /\ (a + 2) - 1 = a + 1 /\ (t + 2) - 1 = t + 1 /\ t < t + 2 /\ t + 2 \in Nat /\ t \in 1 .. L
      BY <2>2, BlockSpots
    <2>4. QED
      BY <2>3 DEF L
  <1>4. PICK V : Leaves(K, symbols, p, V) /\ Collect(W, V) = Gather(Gives(text, n, symbols, a + 2), a + 2, t - 1)
    BY DEF Says
  <1>5. PICK Q : Leaves(K, symbols, r, Q) /\ Collect(W, Q) = Gather(Gives(text, n, symbols, t + 2), t + 2, b)
    BY DEF Says
  <1>6. x \in K /\ w \in K /\ z \in K /\ v \in K /\ x = Tok("start", name)
    <2>1. x \in K /\ w \in K /\ z \in K /\ v \in K
      <3>1. \A i \in 1 .. Len(text) : text[i] \in K
        BY <1>0
      <3>2. QED
        BY <1>3, <3>1
    <2>2. QED
      BY <2>1 DEF Kinds
  <1>8. p \in Seq(K) /\ r \in Seq(K)
    BY <1>0, <1>3, PartIs
  <1>9. z \notin ToSet(p)
    <2>1. PartOf(text, a + 2, t - 1)
      BY <1>0, <1>3, PartIs
    <2>2. \A i \in a + 2 .. t - 1 : text[i] # z
      BY <1>1, <1>3
    <2>3. QED
      BY <2>1, <2>2 DEF PartOf
  <1>10. SubSeq(text, a, b) = Braced(x, w, p, z, v, r)
    <2>1. SubSeq(text, a, b) = <<x>> \o SubSeq(text, a + 1, b)
      BY <1>0, <1>3, CutFirst
    <2>2. SubSeq(text, a + 1, b) = <<w>> \o SubSeq(text, a + 2, b)
      <3>1. SubSeq(text, a + 1, b) = <<w>> \o SubSeq(text, (a + 1) + 1, b)
        BY <1>0, <1>3, CutFirst
      <3>2. QED
        BY <1>3, <3>1
    <2>3. CutRound(text, a + 2, t, b)
      BY <1>0, <1>3, CutAround
    <2>4. SubSeq(text, t + 1, b) = <<v>> \o r
      <3>1. SubSeq(text, t + 1, b) = <<v>> \o SubSeq(text, (t + 1) + 1, b)
        BY <1>0, <1>3, CutFirst
      <3>2. QED
        BY <1>3, <3>1
    <2>5. QED
      BY <2>1, <2>2, <2>3, <2>4 DEF CutRound, Braced
  <1>11. /\ F => Gather(g, a + 2, t - 1) = Gather(Gives(text, n, symbols, a + 2), a + 2, t - 1)
         /\ ~ F => Gather(g, a + 2, t - 1) = <<>>
         /\ Gather(g, t + 2, b) = Gather(Gives(text, n, symbols, t + 2), t + 2, b)
    <2>1. BranchGives(text, n, symbols, f, a, a + 2, t)
      <3>1. \A i \in a + 1 .. (a + 2) - 1 : i = a + 1
        BY <1>3
      <3>2. \A i \in a + 1 .. (a + 2) - 1 : ~ IsMarker(text[i])
        BY <1>2, <3>1 DEF IsMarker, Markers
      <3>3. QED
        BY <1>1, <1>3, <3>2, GatherBranch
    <2>2. Gather(g, t + 2, b) = Gather(Gives(text, n, symbols, t + 2), t + 2, b)
      <3>1. \A i \in t + 1 .. (t + 2) - 1 : i = t + 1
        BY <1>3
      <3>2. \A i \in t + 1 .. (t + 2) - 1 : ~ IsMarker(text[i])
        BY <1>2, <3>1 DEF IsMarker, Markers
      <3>3. \A i \in f.to + 1 .. (t + 2) - 1 : ~ IsMarker(text[i])
        BY <3>2
      <3>4. f.to < t + 2 /\ t + 2 \in Nat /\ t + 2 <= b + 1
        BY <1>3
      <3>5. RestGives(text, n, symbols, f, t + 2, b)
        BY <3>3, <3>4, GatherRest
      <3>6. QED
        BY <3>5 DEF RestGives
    <2>3. /\ (F => Gather(g, a + 2, t - 1) = Gather(Gives(text, n, symbols, a + 2), a + 2, t - 1))
          /\ ~ F => Gather(g, a + 2, t - 1) = <<>>
      BY <2>1 DEF BranchGives
    <2>4. QED
      BY <2>2, <2>3
  <1>12. Gather(g, a, b) = Gather(g, a + 2, t - 1) \o Gather(g, t + 2, b)
    <2>1. g \in Lister(1 .. n, Spoken(K, symbols))
      BY GivesIs
    <2>2. g[a] = <<>> /\ g[a + 1] = <<>> /\ g[t] = <<>> /\ g[t + 1] = <<>>
      <3>1. \A i \in 1 .. n : IsMarker(text[i]) \/ text[i].kind = "nl" => g[i] = <<>>
        BY GivesNothing
      <3> HIDE DEF g
      <3>2. QED
        BY <1>1, <1>2, <1>3, <3>1
    <2> HIDE DEF g, x, w, z, v, p, r
    <2>3. GatherHead(g, a, b) /\ GatherHead(g, a + 1, b) /\ GatherHead(g, t + 1, b)
      <3>1. b <= n
        OBVIOUS
      <3>2. QED
        BY <1>0, <1>1, <1>3, <2>1, <3>1, GatherFirst
    <2>4. GatherRound(g, a + 2, t, b)
      BY <1>0, <1>3, <2>1, <2>2, GatherAround
    <2>5. Gather(g, a, b) = Gather(g, a + 1, b) /\ Gather(g, a + 1, b) = Gather(g, (a + 1) + 1, b)
          /\ Gather(g, t + 1, b) = Gather(g, (t + 1) + 1, b)
      BY <2>2, <2>3 DEF GatherHead
    <2>6. QED
      BY <1>3, <2>4, <2>5 DEF GatherRound
  <1> DEFINE P == IF F THEN <<w>> \o V ELSE <<>>
             E == <<v>> \o Q
             U == Braced(x, w, p, z, v, r)
             G == Gather(g, a, b)
  <1>13. Leaves(K, symbols, U, P \o E)
    <2> HIDE DEF p, r, x, w, z, v, name
    <2>1. BlockLeaves(K, symbols, name, x, w, p, z, v, r, V, Q)
      BY <1>1, <1>2, <1>4, <1>5, <1>6, <1>8, <1>9, LeavesBlock
    <2>2. QED
      BY <2>1 DEF BlockLeaves
  <1>14. V \in Seq(K) /\ Q \in Seq(K)
    BY <1>4, <1>5, LeavesTyped
  <1>15. ASSUME NEW y \in K, y.kind = "nl", NEW s \in Seq(K)
         PROVE  <<y>> \o s \in Seq(K) /\ Collect(W, <<y>> \o s) = Collect(W, s)
    <2> DEFINE Y == <<y>>
    <2>1. Y \in Seq(K)
      OBVIOUS
    <2>2. Collect(W, Y) = <<>>
      <3>1. Collect(W, <<y>>) = W[y]
        BY AllTell
      <3>2. QED
        BY <1>15, <3>1 DEF Telling
    <2>3. Tells(W, Y, s) /\ Collect(W, s) \in Seq(Spoken(K, symbols)) /\ Fits(K, Y, s)
      BY <2>1, AllTell, AllFit
    <2>4. <<>> \o Collect(W, s) = Collect(W, s)
      BY <2>3, ConcatEmptySeq
    <2> HIDE DEF Y
    <2>5. Y \o s \in Seq(K) /\ Collect(W, Y \o s) = Collect(W, s)
      BY <2>2, <2>3, <2>4 DEF Tells, Fits
    <2>6. QED
      BY <2>5 DEF Y
  <1>16. /\ E \in Seq(K) /\ Collect(W, E) = Collect(W, Q)
         /\ P \in Seq(K) /\ Collect(W, P) = IF F THEN Collect(W, V) ELSE <<>>
    <2>1. E \in Seq(K) /\ Collect(W, E) = Collect(W, Q)
      BY <1>2, <1>6, <1>14, <1>15
    <2> DEFINE wV == <<w>> \o V
    <2>2. wV \in Seq(K) /\ Collect(W, wV) = Collect(W, V)
      BY <1>2, <1>6, <1>14, <1>15
    <2> HIDE DEF wV
    <2>3. Collect(W, <<>>) = <<>> /\ <<>> \in Seq(K)
      BY AllTell
    <2>4. P = IF F THEN wV ELSE <<>>
      BY DEF wV
    <2> HIDE DEF P, E, F, W
    <2>5. QED
      BY <2>1, <2>2, <2>3, <2>4
  <1> DEFINE PE == P \o E
  <1>17. Collect(W, PE) = Collect(W, P) \o Collect(W, E)
    <2> HIDE DEF P, E
    <2>1. Tells(W, P, E)
      BY <1>16, AllTell
    <2>2. QED
      BY <2>1 DEF Tells
  <1> HIDE DEF P, E, PE, U
  <1>18. Collect(W, PE) = G
    <2> HIDE DEF F, g, W
    <2>1. QED
      BY <1>4, <1>5, <1>11, <1>12, <1>16, <1>17
  <1>19. Leaves(K, symbols, U, PE) /\ SubSeq(text, a, b) = U
    BY <1>10, <1>13 DEF U, PE
  <1>20. QED
    BY <1>18, <1>19 DEF Says, G, W, g

-----------------------------------------------------------------------------
\* Every balanced part leaves what it says, by induction on its length.

LEMMA NextBalanced ==
  ASSUME NEW K, NEW text, NEW n, Sense(K, text, n), NEW a \in Nat, NEW b \in Nat, a <= b,
         Balanced(text, n, a, b), ~ IsMarker(text[a])
  PROVE  Balanced(text, n, a + 1, b)
  <1>1. a + 1 \in Nat \ {0} /\ a + 1 <= b + 1 /\ b <= n /\ (a + 1 <= b => ~ IsMarker(text[b]))
    BY DEF Balanced
  <1>2. ASSUME NEW g \in Forks(text, n), NEW p \in {g.from, g.else, g.to}, p \in a + 1 .. b
        PROVE  a + 1 <= g.from /\ g.to <= b
    <2>1. g.from \in Nat /\ IsMarker(text[g.from])
      BY ForksApart DEF Fork
    <2>2. p \in a .. b
      BY <1>2
    <2>3. a <= g.from /\ g.to <= b
      BY <1>2, <2>2 DEF Balanced
    <2>4. g.from # a
      BY <2>1
    <2>5. QED
      BY <2>1, <2>3, <2>4
  <1>3. QED
    BY <1>1, <1>2 DEF Balanced

\* A marker at which a balanced part begins is the first of its kind.
LEMMA FirstMarker ==
  ASSUME NEW K, NEW text, NEW n, Sense(K, text, n), NEW a \in 1 .. n, NEW b \in Nat, a <= b,
         Balanced(text, n, a, b), IsMarker(text[a])
  PROVE  \E f \in Forks(text, n) : Fork(text, n, f) /\ f.from = a /\ f.to < b
  <1>1. PICK f \in Forks(text, n) : a \in {f.from, f.else, f.to}
    BY ForksApart
  <1>2. Fork(text, n, f)
    BY ForksApart
  <1>3. f.from \in Nat /\ f.else \in Nat /\ f.to \in Nat /\ f.from < f.else /\ f.else <= f.to
        /\ IsMarker(text[f.to])
    BY <1>2 DEF Fork
  <1>4. a \in a .. b /\ ~ IsMarker(text[b])
    BY DEF Balanced
  <1>5. a <= f.from /\ f.to <= b
    BY <1>1, <1>4 DEF Balanced
  <1>6. f.to # b
    BY <1>3, <1>4
  <1>7. f.from = a /\ f.to < b
    BY <1>1, <1>3, <1>5, <1>6
  <1>8. QED
    BY <1>2, <1>7

LEMMA AllSay ==
  ASSUME NEW K, Kinds(K), NEW text, NEW n, Sense(K, text, n), NEW symbols,
         NEW a \in Nat \ {0}, NEW b \in Nat, Balanced(text, n, a, b)
  PROVE  Says(K, text, n, symbols, a, b)
  <1> DEFINE S == {k \in Nat : \A l \in Nat \ {0}, h \in Nat :
                     Balanced(text, n, l, h) /\ (h + 1) - l <= k => Says(K, text, n, symbols, l, h)}
  <1>0. n \in Nat
    BY DEF Sense
  <1>1. ASSUME NEW l \in Nat \ {0}, NEW h \in Nat, Balanced(text, n, l, h), ~ (l <= h)
        PROVE  Says(K, text, n, symbols, l, h)
    <2>1. h + 1 = l /\ h <= n
      BY <1>1 DEF Balanced
    <2>2. QED
      BY <2>1, SaysNothing
  <1>2. 0 \in S
    <2>1. ASSUME NEW l \in Nat \ {0}, NEW h \in Nat, Balanced(text, n, l, h), (h + 1) - l <= 0
          PROVE  Says(K, text, n, symbols, l, h)
      <3>1. ~ (l <= h)
        BY <2>1
      <3>2. QED
        BY <1>1, <2>1, <3>1
    <2>2. QED
      BY <2>1
  <1>3. ASSUME NEW k \in Nat, k \in S PROVE k + 1 \in S
    <2> SUFFICES ASSUME NEW l \in Nat \ {0}, NEW h \in Nat, Balanced(text, n, l, h), (h + 1) - l <= k + 1
                 PROVE  Says(K, text, n, symbols, l, h)
      OBVIOUS
    <2>0. \A c \in Nat \ {0}, d \in Nat :
            Balanced(text, n, c, d) /\ (d + 1) - c <= k => Says(K, text, n, symbols, c, d)
      BY <1>3
    <2> HIDE DEF S
    <2>1. CASE ~ (l <= h)
      BY <1>1, <2>1
    <2>2. CASE l <= h /\ ~ IsMarker(text[l])
      <3>1. l \in 1 .. n /\ h <= n
        BY <1>0, <2>2 DEF Balanced
      <3>2. Balanced(text, n, l + 1, h)
        BY <2>2, NextBalanced
      <3>3. l + 1 \in Nat \ {0} /\ (h + 1) - (l + 1) <= k
        OBVIOUS
      <3>4. Says(K, text, n, symbols, l + 1, h)
        BY <2>0, <3>2, <3>3
      <3>5. QED
        BY <2>2, <3>1, <3>4, SaysToken
    <2>3. CASE l <= h /\ IsMarker(text[l])
      <3>1. l \in 1 .. n /\ h <= n
        BY <1>0, <2>3 DEF Balanced
      <3>2. PICK f \in Forks(text, n) : Fork(text, n, f) /\ f.from = l /\ f.to < h
        BY <2>3, <3>1, FirstMarker
      <3> DEFINE e == f.else
                 t == f.to
      <3>3. /\ e \in 1 .. n /\ t \in 1 .. n /\ l < e /\ e <= t /\ t < h /\ f.from = l /\ f.else = e /\ f.to = t
            /\ text[l].kind \in {"then", "start"}
        BY <3>2 DEF Fork
      <3> HIDE DEF e, t
      <3>4. CASE text[l].kind = "then"
        <4>1. e < t
          BY <3>2, <3>4 DEF Fork, e, t
        <4>2. /\ l \in Nat /\ e \in Nat /\ t \in Nat /\ l + 1 \in l + 1 .. e /\ e + 1 \in e + 1 .. t
              /\ t + 1 \in t + 1 .. h + 1
              /\ (\A i \in l + 1 .. (l + 1) - 1 : ~ IsMarker(text[i]))
              /\ (\A i \in e + 1 .. (e + 1) - 1 : ~ IsMarker(text[i]))
              /\ (\A i \in t + 1 .. (t + 1) - 1 : ~ IsMarker(text[i]))
          BY <3>3, <4>1
        <4>3. Balanced(text, n, l + 1, e - 1) /\ Balanced(text, n, e + 1, t - 1)
          BY <3>3, <4>2, BranchBalanced
        <4>4. Balanced(text, n, t + 1, h)
          <5>1. t <= h
            BY <3>3
          <5>2. QED
            BY <3>3, <4>2, <5>1, RestBalanced
        <4>5. /\ l + 1 \in Nat \ {0} /\ e - 1 \in Nat /\ ((e - 1) + 1) - (l + 1) <= k
              /\ e + 1 \in Nat \ {0} /\ t - 1 \in Nat /\ ((t - 1) + 1) - (e + 1) <= k
              /\ t + 1 \in Nat \ {0} /\ (h + 1) - (t + 1) <= k
          BY <3>3, <4>1
        <4>6. Says(K, text, n, symbols, l + 1, e - 1)
          BY <2>0, <4>3, <4>5
        <4>7. Says(K, text, n, symbols, e + 1, t - 1)
          BY <2>0, <4>3, <4>5
        <4>8. Says(K, text, n, symbols, t + 1, h)
          BY <2>0, <4>4, <4>5
        <4>9. QED
          BY <3>1, <3>3, <3>4, <4>6, <4>7, <4>8, SaysCondition
      <3>5. CASE text[l].kind = "start"
        <4>1. e = t
          BY <3>2, <3>5 DEF Fork, e, t
        <4>a. IsMarker(text[t]) /\ text[t].kind = "end"
          <5>1. IsMarker(text[f.to]) /\ text[f.to] = Tok("end", text[f.from].name)
            BY <3>2, <3>5 DEF Fork
          <5>2. QED
            BY <5>1 DEF Tok, t
        <4>b. text[l + 1].kind = "nl" /\ text[t + 1].kind = "nl"
          BY <2>3, <3>1, <3>3, <4>a DEF Sense
        <4>c. l + 1 # t /\ ~ IsMarker(text[l + 1]) /\ ~ IsMarker(text[t + 1])
          BY <4>a, <4>b DEF IsMarker, Markers
        <4>2. /\ l \in Nat /\ t \in Nat /\ l + 2 \in l + 1 .. t /\ t + 2 \in t + 1 .. h + 1 /\ t <= h
              /\ (\A i \in l + 1 .. (l + 2) - 1 : i = l + 1) /\ (\A i \in t + 1 .. (t + 2) - 1 : i = t + 1)
          BY <3>3, <4>1, <4>c
        <4>3. Balanced(text, n, l + 2, t - 1)
          <5>1. \A i \in l + 1 .. (l + 2) - 1 : ~ IsMarker(text[i])
            BY <4>2, <4>c
          <5>2. l = f.from /\ t = f.else
            BY <3>3, <4>1
          <5>3. QED
            BY <4>2, <5>1, <5>2, BranchBalanced
        <4>4. Balanced(text, n, t + 2, h)
          <5>1. \A i \in f.to + 1 .. (t + 2) - 1 : ~ IsMarker(text[i])
            BY <3>3, <4>2, <4>c
          <5>2. f.to <= h /\ t + 2 \in f.to + 1 .. h + 1
            BY <3>3, <4>2
          <5>3. QED
            BY <3>3, <5>1, <5>2, RestBalanced
        <4>5. /\ l + 2 \in Nat \ {0} /\ t - 1 \in Nat /\ ((t - 1) + 1) - (l + 2) <= k
              /\ t + 2 \in Nat \ {0} /\ (h + 1) - (t + 2) <= k
          BY <3>3, <4>1
        <4>6. Says(K, text, n, symbols, l + 2, t - 1)
          BY <2>0, <4>3, <4>5
        <4>7. Says(K, text, n, symbols, t + 2, h)
          BY <2>0, <4>4, <4>5
        <4>8. QED
          BY <3>1, <3>3, <3>5, <4>6, <4>7, SaysBlock
      <3>6. QED
        BY <3>3, <3>4, <3>5
    <2>4. QED
      BY <2>1, <2>2, <2>3
  <1>4. Nat \subseteq S
    <2> HIDE DEF S
    <2>1. QED
      BY <1>2, <1>3, Induction
  <1>5. (b + 1) - a \in Nat /\ (b + 1) - a <= (b + 1) - a
    BY DEF Balanced
  <1>6. (b + 1) - a \in S
    BY <1>4, <1>5
  <1>7. QED
    BY <1>5, <1>6

-----------------------------------------------------------------------------
\* A page is what its author meant.

\* A condition as its symbol has it, and what the first n tokens say with those; it is
\* what they mean unless they ask for an administrator's address that there is.
Found(c, name) == Value(c, name).kind = "text" /\ Value(c, name).name # ""

Told(c, text, n) ==
  LET Applies(i) == \A f \in Forks(text, n) :
        f.from < i /\ i < f.to => (i < f.else <=> Found(c, text[f.from].name))
  IN FlattenSeq([i \in 1 .. n |->
       IF Applies(i) /\ text[i].kind = "sym" THEN <<Value(c, text[i].name)>>
       ELSE IF Applies(i) /\ text[i].kind = "text" THEN <<text[i]>> ELSE <<>>])

LEMMA ToldIsMeant ==
  ASSUME NEW c, NEW text, NEW n, ~ AsksForAdmin(text, n)
  PROVE  Told(c, text, n) = Meaning(c, text, n)
  <1>1. ASSUME NEW f \in Forks(text, n)
        PROVE  Holds(c, text[f.from].name) <=> Found(c, text[f.from].name)
    <2>1. f.from \in 1 .. n /\ text[f.from].kind \in {"then", "start"}
      BY DEF Forks, ForkAt
    <2>2. IsMarker(text[f.from])
      BY <2>1 DEF IsMarker, Markers
    <2>3. ~ (text[f.from].name = "have-adminaddr-info" /\ settings.admin)
      BY <2>1, <2>2 DEF AsksForAdmin
    <2>4. QED
      BY <2>3 DEF Holds, Found
  <1> DEFINE H(i) == \A f \in Forks(text, n) :
               f.from < i /\ i < f.to => (i < f.else <=> Holds(c, text[f.from].name))
             F(i) == \A f \in Forks(text, n) :
               f.from < i /\ i < f.to => (i < f.else <=> Found(c, text[f.from].name))
             m(i) == IF H(i) /\ text[i].kind = "sym" THEN <<Value(c, text[i].name)>>
                     ELSE IF H(i) /\ text[i].kind = "text" THEN <<text[i]>> ELSE <<>>
             t(i) == IF F(i) /\ text[i].kind = "sym" THEN <<Value(c, text[i].name)>>
                     ELSE IF F(i) /\ text[i].kind = "text" THEN <<text[i]>> ELSE <<>>
  <1>2. \A i \in 1 .. n : H(i) <=> F(i)
    BY <1>1
  <1>3. Meaning(c, text, n) = FlattenSeq([i \in 1 .. n |-> m(i)])
    BY DEF Meaning
  <1>4. Told(c, text, n) = FlattenSeq([i \in 1 .. n |-> t(i)])
    BY DEF Told
  <1> HIDE DEF H, F
  <1>5. \A i \in 1 .. n : m(i) = t(i)
    BY <1>2
  <1> HIDE DEF m, t
  <1>6. [i \in 1 .. n |-> m(i)] = [i \in 1 .. n |-> t(i)]
    BY <1>5
  <1>7. QED
    BY <1>3, <1>4, <1>6

\* The symbols are those that Value and Found stand for.
Reads(c, symbols) ==
  \A name \in Name :
    /\ Found(c, name) <=> Filled(symbols, name)
    /\ Given(symbols, Tok("sym", name)) = Value(c, name)

LEMMA TokenKinds == Kinds(Token)
  BY DEF Kinds, Token, Tok, Markers

\* The whole of a text that makes sense is balanced.
LEMMA WholeBalanced ==
  ASSUME NEW K, NEW text, NEW n, Sense(K, text, n)
  PROVE  Balanced(text, n, 1, n)
  <1>0. n \in Nat /\ 1 \in Nat \ {0} /\ 1 <= n + 1 /\ n <= n
    BY DEF Sense
  <1>1. 1 <= n => ~ IsMarker(text[n])
    <2> SUFFICES ASSUME 1 <= n, IsMarker(text[n]) PROVE FALSE
      OBVIOUS
    <2>1. n \in 1 .. n
      BY <1>0
    <2>2. n + 1 \in 1 .. n
      BY <2>1 DEF Sense
    <2>3. QED
      BY <1>0, <2>2
  <1>2. \A f \in Forks(text, n) : f.from \in 1 .. n /\ f.to \in 1 .. n
    BY ForksApart DEF Fork
  <1>3. \A f \in Forks(text, n) : 1 <= f.from /\ f.to <= n
    BY <1>0, <1>2
  <1>4. QED
    BY <1>0, <1>1, <1>3 DEF Balanced

\* What is told, as what the tokens give.
LEMMA MeaningIs ==
  ASSUME NEW c, NEW symbols, Reads(c, symbols), NEW text, NEW n, Sense(Token, text, n)
  PROVE  Told(c, text, n) = Gather(Gives(text, n, symbols, 1), 1, n)
  <1> DEFINE Applies(i) == \A f \in Forks(text, n) :
               f.from < i /\ i < f.to => (i < f.else <=> Found(c, text[f.from].name))
             m == [i \in 1 .. n |->
                    IF Applies(i) /\ text[i].kind = "sym" THEN <<Value(c, text[i].name)>>
                    ELSE IF Applies(i) /\ text[i].kind = "text" THEN <<text[i]>> ELSE <<>>]
             g == Gives(text, n, symbols, 1)
  <1>0. n \in Nat /\ \A i \in 1 .. n : text[i] \in Token
    BY DEF Sense
  <1>1. Told(c, text, n) = FlattenSeq(m)
    BY DEF Told
  <1>2. Places(1, n) = [k \in 1 .. n |-> k]
    <2>1. (n + 1) - 1 = n /\ \A k \in 1 .. n : (1 + k) - 1 = k
      BY <1>0
    <2>2. QED
      BY <2>1 DEF Places
  <1>3. Gather(g, 1, n) = FlattenSeq([k \in 1 .. n |-> g[k]])
    <2>1. DOMAIN Places(1, n) = 1 .. n /\ \A k \in 1 .. n : Places(1, n)[k] = k
      BY <1>2
    <2> HIDE DEF g
    <2>2. [k \in DOMAIN Places(1, n) |-> g[Places(1, n)[k]]] = [k \in 1 .. n |-> g[k]]
      BY <2>1
    <2>3. QED
      BY <2>2 DEF Gather, Collect
  <1>4. ASSUME NEW i \in 1 .. n PROVE m[i] = g[i]
    <2>1. Applies(i) <=> Shown(text, n, symbols, 1, i)
      <3>1. ASSUME NEW f \in Forks(text, n)
            PROVE  1 <= f.from /\ (Found(c, text[f.from].name) <=> Filled(symbols, text[f.from].name))
        <4>1. f.from \in 1 .. n
          BY ForksApart DEF Fork
        <4>2. text[f.from].name \in Name /\ 1 <= f.from
          BY <1>0, <4>1 DEF Token
        <4>3. \A name \in Name : Found(c, name) <=> Filled(symbols, name)
          BY DEF Reads
        <4>4. QED
          BY <4>2, <4>3
      <3>2. QED
        BY <3>1 DEF Shown
    <2> HIDE DEF Applies
    <2>2. text[i] \in Token
      BY <1>0
    <2>3. text[i].kind = "sym" => Value(c, text[i].name) = Given(symbols, text[i])
      <3>1. text[i].name \in Name /\ text[i] = Tok(text[i].kind, text[i].name)
        BY <2>2 DEF Token, Tok
      <3>2. \A name \in Name : Given(symbols, Tok("sym", name)) = Value(c, name)
        BY DEF Reads
      <3>3. QED
        BY <3>1, <3>2
    <2>4. text[i].kind = "text" => Given(symbols, text[i]) = text[i]
      BY DEF Given
    <2>5. g[i] = IF Shown(text, n, symbols, 1, i) /\ text[i].kind \in {"sym", "text"}
                 THEN <<Given(symbols, text[i])>> ELSE <<>>
      BY DEF Gives
    <2>6. QED
      BY <2>1, <2>3, <2>4, <2>5
  <1> HIDE DEF g, m, Applies
  <1>5. m = [k \in 1 .. n |-> g[k]]
    <2>1. m = [i \in 1 .. n |-> m[i]]
      BY DEF m
    <2>2. QED
      BY <1>4, <2>1
  <1>6. QED
    BY <1>1, <1>3, <1>5 DEF g

\* The end of a line adds nothing.
LEMMA SameForks ==
  ASSUME NEW text \in Seq(Token), NEW n \in 0 .. Len(text), n + 1 \in DOMAIN text,
         text[n + 1].kind = "nl"
  PROVE  Forks(text, n + 1) = Forks(text, n)
  <1>1. {j \in 1 .. n + 1 : text[j].kind \in {"then", "start"}}
          = {j \in 1 .. n : text[j].kind \in {"then", "start"}}
    OBVIOUS
  <1>2. QED
    BY <1>1 DEF Forks

LEMMA MeaningBehindLine ==
  ASSUME NEW c, NEW text \in Seq(Token), NEW n \in 0 .. Len(text), n + 1 \in DOMAIN text,
         text[n + 1].kind = "nl"
  PROVE  Told(c, text, n + 1) = Told(c, text, n)
  <1> DEFINE Applies(i) == \A f \in Forks(text, n) :
               f.from < i /\ i < f.to => (i < f.else <=> Found(c, text[f.from].name))
             m(i) == IF Applies(i) /\ text[i].kind = "sym" THEN <<Value(c, text[i].name)>>
                     ELSE IF Applies(i) /\ text[i].kind = "text" THEN <<text[i]>> ELSE <<>>
             T == {text[i] : i \in 1 .. n + 1} \cup {Value(c, text[i].name) : i \in 1 .. n + 1}
             s == [i \in 1 .. n |-> m(i)]
  <1>0. n \in Nat
    OBVIOUS
  <1>1. Told(c, text, n) = FlattenSeq(s)
    BY DEF Told
  <1>2. Told(c, text, n + 1) = FlattenSeq([i \in 1 .. n + 1 |-> m(i)])
    <2>1. Forks(text, n + 1) = Forks(text, n)
      BY SameForks
    <2>2. QED
      BY <2>1 DEF Told
  <1>3. m(n + 1) = <<>>
    OBVIOUS
  <1>4. \A i \in 1 .. n + 1 : m(i) \in Seq(T)
    <2> HIDE DEF Applies
    <2>1. ASSUME NEW i \in 1 .. n + 1 PROVE m(i) \in Seq(T)
      <3>1. text[i] \in T /\ Value(c, text[i].name) \in T
        OBVIOUS
      <3> HIDE DEF T
      <3>2. QED
        BY <3>1
    <2>2. QED
      BY <2>1
  <1> HIDE DEF T, m
  <1>5. [i \in 1 .. n + 1 |-> m(i)] = Append(s, <<>>) /\ s \in Seq(Seq(T))
    <2>1. s \in [1 .. n -> Seq(T)]
      BY <1>0, <1>4
    <2>2. s \in Seq(Seq(T)) /\ Len(s) = n
      BY <1>0, <2>1
    <2>3. \A i \in 1 .. n : s[i] = m(i)
      OBVIOUS
    <2> DEFINE u == Append(s, <<>>)
               v == [i \in 1 .. n + 1 |-> m(i)]
    <2> HIDE DEF s
    <2>4. <<>> \in Seq(T)
      OBVIOUS
    <2>5. /\ u \in Seq(Seq(T)) /\ Len(u) = n + 1 /\ (\A i \in 1 .. n : u[i] = s[i]) /\ u[n + 1] = <<>>
      BY <2>2, <2>4
    <2>6. v \in Seq(Seq(T)) /\ Len(v) = n + 1 /\ \A i \in 1 .. n + 1 : v[i] = m(i)
      <3>1. v \in [1 .. n + 1 -> Seq(T)] /\ \A i \in 1 .. n + 1 : v[i] = m(i)
        BY <1>4
      <3> HIDE DEF v
      <3>2. v \in Seq(Seq(T)) /\ Len(v) = n + 1
        BY <1>0, <3>1, SMTT(30)
      <3>3. QED
        BY <3>1, <3>2
    <2> HIDE DEF u, v
    <2>7. \A i \in 1 .. n + 1 : u[i] = v[i]
      <3>1. ASSUME NEW i \in 1 .. n + 1 PROVE u[i] = v[i]
        <4>1. i \in 1 .. n \/ i = n + 1
          BY <1>0
        <4>2. QED
          BY <1>3, <2>3, <2>5, <2>6, <4>1
      <3>2. QED
        BY <3>1
    <2>8. u = v
      BY <1>0, <2>5, <2>6, <2>7, SeqEqual
    <2>9. QED
      BY <2>2, <2>8 DEF u, v
  <1> HIDE DEF s
  <1>6. FlattenSeq(Append(s, <<>>)) = FlattenSeq(s) \o <<>> /\ FlattenSeq(s) \in Seq(T)
    <2>1. <<>> \in Seq(T)
      OBVIOUS
    <2>2. QED
      BY <1>5, <2>1, FlattenAppend
  <1>7. FlattenSeq(s) \o <<>> = FlattenSeq(s)
    BY <1>6, ConcatEmptySeq
  <1>8. QED
    BY <1>1, <1>2, <1>5, <1>6, <1>7

\* What is seen of the values put in is what the tokens tell.
LEMMA TellsVisible ==
  ASSUME NEW K, NEW symbols, NEW V \in Seq(K)
  PROVE  Collect(Kept(Spoken(K, symbols), {"nl"}), Substitute(V, symbols)) = Collect(Telling(K, symbols), V)
  <1> DEFINE T == Spoken(K, symbols)
             k == Kept(T, {"nl"})
             W == Substitute(V, symbols)
             g == Telling(K, symbols)
  <1>1. DOMAIN W = DOMAIN V /\ \A i \in DOMAIN V : W[i] = Given(symbols, V[i])
    BY DEF Substitute, Given
  <1>2. \A i \in DOMAIN V : V[i] \in K
    OBVIOUS
  <1>3. ASSUME NEW i \in DOMAIN V PROVE k[W[i]] = g[V[i]]
    <2>1. V[i] \in K /\ W[i] = Given(symbols, V[i])
      BY <1>1, <1>2
    <2>2. W[i] \in T
      BY <2>1 DEF Spoken
    <2>3. W[i].kind = "nl" <=> V[i].kind = "nl"
      BY <2>1 DEF Given, Tok
    <2> HIDE DEF W
    <2>4. k[W[i]] = IF W[i].kind \in {"nl"} THEN <<>> ELSE <<W[i]>>
      BY <2>2 DEF Kept
    <2>5. g[V[i]] = IF V[i].kind = "nl" THEN <<>> ELSE <<Given(symbols, V[i])>>
      BY <2>1 DEF Telling
    <2>6. QED
      BY <2>1, <2>3, <2>4, <2>5
  <1> HIDE DEF k, g, W
  <1>4. [i \in DOMAIN W |-> k[W[i]]] = [i \in DOMAIN V |-> g[V[i]]]
    BY <1>1, <1>3
  <1>5. Collect(k, W) = Collect(g, V)
    BY <1>4 DEF Collect
  <1>6. QED
    BY <1>5 DEF k, g, W

\* The page of a text of which the first n tokens make sense begins with what they
\* say.
Begun(c, text, symbols, n) ==
  \E z \in Seq(Spoken(Token, symbols)) :
    /\ Visible(Render(text, symbols)) = Told(c, text, n) \o z
    /\ Told(c, text, n) \in Seq(Spoken(Token, symbols))
    /\ n = Len(text) => z = <<>>

LEMMA PageBegun ==
  ASSUME NEW c, NEW symbols, Reads(c, symbols), NEW text, NEW n, Sense(Token, text, n)
  PROVE  Begun(c, text, symbols, n)
  <1> DEFINE T == Spoken(Token, symbols)
             U == SubSeq(text, 1, n)
             Z == SubSeq(text, n + 1, Len(text))
             k == Kept(T, {"nl"})
             page == Render(text, symbols)
  <1>0. text \in Seq(Token) /\ n \in Nat /\ n <= Len(text) /\ Len(text) \in Nat
        /\ 1 \in Nat \ {0} /\ 1 <= n + 1
    BY DEF Sense
  <1>1. text = U \o Z /\ U \in Seq(Token) /\ Z \in Seq(Token) /\ (n = Len(text) => Z = <<>>)
    <2>1. Cut(text, 1, n, Len(text))
      BY <1>0, CutIs
    <2>2. SubSeq(text, 1, Len(text)) = text
      BY <1>0, SubSeqFull
    <2>3. U \in Seq(Token)
      BY <1>0, PartIs
    <2>4. n + 1 \in Nat \ {0} /\ n + 1 <= Len(text) + 1 /\ Len(text) <= Len(text)
      BY <1>0
    <2>5. Z \in Seq(Token) /\ Len(Z) = (Len(text) + 1) - (n + 1)
      BY <1>0, <2>4, PartIs
    <2>6. n = Len(text) => Len(Z) = 0
      BY <1>0, <2>5
    <2>7. n = Len(text) => Z = <<>>
      <3> HIDE DEF Z
      <3>1. QED
        BY <2>5, <2>6, EmptySeq
    <2>8. QED
      BY <2>1, <2>2, <2>3, <2>5, <2>7 DEF Cut
  <1> HIDE DEF U, Z
  <1>2. Says(Token, text, n, symbols, 1, n)
    BY <1>0, TokenKinds, WholeBalanced, AllSay
  <1>3. PICK V : Leaves(Token, symbols, U, V)
                 /\ Collect(Telling(Token, symbols), V) = Gather(Gives(text, n, symbols, 1), 1, n)
    BY <1>2 DEF Says, U
  <1>4. Told(c, text, n) = Collect(Telling(Token, symbols), V) /\ V \in Seq(Token)
    BY <1>3, MeaningIs, LeavesTyped
  <1>5. \A t \in Token : Given(symbols, t) \in T
    BY DEF Spoken
  <1> DEFINE W == Substitute(V, symbols)
  <1>6. Starts(T, page, W, Z)
    <2> HIDE DEF T
    <2>1. Starts(T, Render(U \o Z, symbols), W, Z)
      BY <1>1, <1>3, <1>5, RenderStarts
    <2>2. QED
      BY <1>1, <2>1
  <1>7. Collect(k, W) = Told(c, text, n)
    BY <1>4, TellsVisible
  <1>8. W \in Seq(T)
    <2> HIDE DEF T, W
    <2>1. <<>> \in Seq(Token)
      OBVIOUS
    <2>2. Substituted(T, symbols, V, <<>>)
      BY <1>4, <1>5, <2>1, SubstituteConcat
    <2>3. QED
      BY <2>2 DEF Substituted, W
  <1>9. k \in Lister(T, T) /\ \A s \in Seq(T) : Without(s, {"nl"}) = Collect(k, s)
    BY WithoutIs
  <1> HIDE DEF T, k, page, W
  <1>10. PICK z \in Seq(T) : page = W \o z /\ (Z = <<>> => z = <<>>)
    BY <1>6 DEF Starts
  <1>11. Visible(page) = Collect(k, W) \o Collect(k, z)
    <2>1. page \in Seq(T)
      BY <1>8, <1>10, Behind
    <2>2. Collect(k, W \o z) = Collect(k, W) \o Collect(k, z)
      BY <1>8, <1>9, CollectConcat
    <2>3. Visible(page) = Collect(k, page)
      BY <1>9, <2>1 DEF Visible
    <2>4. QED
      BY <1>10, <2>2, <2>3
  <1>12. Collect(k, z) \in Seq(T) /\ Collect(k, W) \in Seq(T) /\ (z = <<>> => Collect(k, z) = <<>>)
    BY <1>8, <1>9, CollectTyped, CollectEmpty
  <1>13. QED
    BY <1>1, <1>7, <1>10, <1>11, <1>12 DEF Begun, T, page

\* So for every text whose markers end their lines.
AsMeant(c, text, symbols, n) ==
  LET page == Visible(Render(text, symbols))
  IN /\ IsPrefix(Told(c, text, n), page)
     /\ n = Len(text) => Told(c, text, n) = page

LEMMA BegunIsMeant ==
  ASSUME NEW c, NEW symbols, NEW text, NEW n, Begun(c, text, symbols, n)
  PROVE  AsMeant(c, text, symbols, n)
  <1> DEFINE T == Spoken(Token, symbols)
             page == Visible(Render(text, symbols))
             m == Told(c, text, n)
  <1>1. PICK z \in Seq(T) : page = m \o z /\ m \in Seq(T) /\ (n = Len(text) => z = <<>>)
    BY DEF Begun
  <1> HIDE DEF T, page, m
  <1>2. /\ Len(m) \in Nat /\ Len(z) \in Nat /\ page \in Seq(T) /\ Len(page) = Len(m) + Len(z)
        /\ \A i \in 1 .. Len(m) : page[i] = m[i]
    BY <1>1, Behind
  <1>3. IsPrefix(m, page)
    <2>1. Len(m) <= Len(page) /\ 1 \in Nat \ {0} /\ 1 <= Len(m) + 1 /\ Len(m) <= Len(m)
      BY <1>2
    <2> DEFINE s == SubSeq(m, 1, Len(m))
               t == SubSeq(page, 1, Len(m))
    <2>2. /\ s \in Seq(T) /\ Len(s) = (Len(m) + 1) - 1
          /\ \A i \in 1 .. (Len(m) + 1) - 1 : s[i] = m[(1 + i) - 1]
      BY <1>1, <1>2, <2>1, PartIs
    <2>3. /\ t \in Seq(T) /\ Len(t) = (Len(m) + 1) - 1
          /\ \A i \in 1 .. (Len(m) + 1) - 1 : t[i] = page[(1 + i) - 1]
      BY <1>1, <1>2, <2>1, PartIs
    <2> HIDE DEF s, t
    <2>4. (Len(m) + 1) - 1 = Len(m) /\ \A i \in 1 .. Len(m) : (1 + i) - 1 = i
      BY <1>2
    <2>5. Len(s) = Len(t) /\ \A i \in 1 .. Len(s) : s[i] = t[i]
      BY <1>2, <2>2, <2>3, <2>4
    <2>6. s = t
      BY <2>2, <2>3, <2>5, SeqEqual
    <2>7. QED
      BY <2>1, <2>6 DEF IsPrefix, s, t
  <1>4. n = Len(text) => m = page
    <2>1. m \o <<>> = m
      BY <1>1, ConcatEmptySeq
    <2>2. QED
      BY <1>1, <2>1
  <1>5. QED
    BY <1>3, <1>4 DEF AsMeant, m, page

LEMMA RenderedAsMeant ==
  ASSUME NEW c, NEW symbols, Reads(c, symbols), NEW text \in Seq(Token),
         \A i \in DOMAIN text : IsMarker(text[i]) => i + 1 \in DOMAIN text /\ text[i + 1].kind = "nl",
         NEW n \in 0 .. Len(text), MakesSense(text, n)
  PROVE  AsMeant(c, text, symbols, n)
  <1>0. DOMAIN text = 1 .. Len(text) /\ Len(text) \in Nat /\ n \in Nat
    OBVIOUS
  <1>1. CASE n = 0 \/ ~ IsMarker(text[n])
    <2>1. ASSUME NEW i \in 1 .. n, IsMarker(text[i]) PROVE i + 1 \in 1 .. n /\ text[i + 1].kind = "nl"
      <3>1. i # n /\ i \in DOMAIN text
        BY <1>0, <1>1, <2>1
      <3>2. QED
        BY <1>0, <2>1, <3>1
    <2>2. Sense(Token, text, n)
      BY <2>1 DEF Sense
    <2>3. QED
      BY <2>2, PageBegun, BegunIsMeant
  <1>2. CASE n # 0 /\ IsMarker(text[n])
    <2>1. n \in DOMAIN text /\ n + 1 \in DOMAIN text /\ text[n + 1].kind = "nl"
      BY <1>0, <1>2
    <2>2. Forks(text, n + 1) = Forks(text, n)
      BY <2>1, SameForks
    <2>3. ~ IsMarker(text[n + 1])
      BY <2>1 DEF IsMarker, Markers
    <2>4. MakesSense(text, n + 1)
      <3>1. \A f \in Forks(text, n) : f.to \in 1 .. n + 1
        BY <1>0 DEF MakesSense
      <3>2. ASSUME NEW i \in 1 .. n + 1, IsMarker(text[i])
            PROVE  \E f \in Forks(text, n) : i \in {f.from, f.else, f.to}
        <4>1. i \in 1 .. n
          BY <1>0, <2>3, <3>2
        <4>2. QED
          BY <3>2, <4>1 DEF MakesSense
      <3>3. \A f, g \in Forks(text, n) :
              f = g \/ f.to < g.from \/ g.to < f.from \/ InBranch(f, g) \/ InBranch(g, f)
        BY DEF MakesSense
      <3>4. QED
        BY <2>2, <3>1, <3>2, <3>3 DEF MakesSense
    <2>5. ASSUME NEW i \in 1 .. n + 1, IsMarker(text[i])
          PROVE  i + 1 \in 1 .. n + 1 /\ text[i + 1].kind = "nl"
      <3>1. i # n + 1
        BY <2>3, <2>5
      <3>2. i \in DOMAIN text /\ i + 1 \in 1 .. n + 1
        BY <1>0, <2>1, <3>1
      <3>3. QED
        BY <2>5, <3>2
    <2>6. Sense(Token, text, n + 1)
      BY <1>0, <2>1, <2>4, <2>5 DEF Sense
    <2>7. AsMeant(c, text, symbols, n + 1)
      BY <2>6, PageBegun, BegunIsMeant
    <2>8. Told(c, text, n + 1) = Told(c, text, n)
      BY <2>1, MeaningBehindLine
    <2>9. n # Len(text)
      <3> DEFINE L == Len(text)
      <3>1. n + 1 \in 1 .. L /\ L \in Nat /\ n \in Nat
        BY <1>0, <2>1
      <3> HIDE DEF L
      <3>2. n # L
        BY <3>1
      <3>3. QED
        BY <3>2 DEF L
    <2>10. QED
      BY <2>7, <2>8, <2>9 DEF AsMeant
  <1>3. QED
    BY <1>1, <1>2

-----------------------------------------------------------------------------
\* What is loaded is what the lines say.

Ended(line) == Append(line.toks, Tok("nl", ""))
OwnLine == [line \in Line |-> IF line.is = "tokens" THEN <<line>> ELSE <<>>]
Tokens == [line \in Line |-> Ended(line)]
Texts == [line \in Line |-> LineText(line)]
HereLines(files) ==
  [line \in Line |-> IF line.is = "include" /\ line.name \in DOMAIN files
                     THEN Collect(OwnLine, files[line.name]) ELSE OwnLine[line]]
HereTexts(files) ==
  [line \in Line |-> IF line.is = "include" THEN Included(files, line.name) ELSE LineText(line)]

LEMMA LineLists ==
  /\ OwnLine \in Lister(Line, Line)
  /\ Tokens \in Lister(Line, Token)
  /\ Texts \in Lister(Line, Token)
  /\ \A line \in Line : Collect(Tokens, OwnLine[line]) = Texts[line]
  <1>1. ASSUME NEW line \in Line PROVE Ended(line) \in Seq(Token) /\ LineText(line) \in Seq(Token)
    <2>1. line.toks \in Seq(Token)
      BY DEF Line
    <2>2. Tok("nl", "") \in Token
      <3>1. "nl" \in {"text", "sym", "nl"} \cup Markers
        OBVIOUS
      <3>2. "" \in Name
        BY DEF Name
      <3>3. QED
        BY <3>1, <3>2 DEF Tok, Token
    <2>3. Ended(line) \in Seq(Token)
      <3> DEFINE s == line.toks
                 x == Tok("nl", "")
      <3>1. s \in Seq(Token) /\ x \in Token
        BY <2>1, <2>2
      <3> HIDE DEF s, x
      <3>2. Append(s, x) \in Seq(Token)
        BY <3>1
      <3>3. QED
        BY <3>2 DEF Ended, s, x
    <2>4. LineText(line) = IF line.is = "tokens" THEN Ended(line) ELSE <<>>
      BY DEF LineText, Ended
    <2>5. <<>> \in Seq(Token)
      OBVIOUS
    <2>6. QED
      BY <2>3, <2>4, <2>5
  <1>2. Tokens \in Lister(Line, Token) /\ Texts \in Lister(Line, Token)
    BY <1>1 DEF Tokens, Texts, Lister
  <1>3. OwnLine \in Lister(Line, Line)
    <2>1. ASSUME NEW line \in Line PROVE (IF line.is = "tokens" THEN <<line>> ELSE <<>>) \in Seq(Line)
      OBVIOUS
    <2>2. QED
      BY <2>1 DEF OwnLine, Lister
  <1>4. ASSUME NEW line \in Line PROVE Collect(Tokens, OwnLine[line]) = Texts[line]
    <2>1. CASE line.is = "tokens"
      <3>1. OwnLine[line] = <<line>>
        BY <2>1 DEF OwnLine
      <3>2. Collect(Tokens, <<line>>) = Tokens[line]
        BY <1>2, CollectOne
      <3>3. Tokens[line] = Texts[line]
        BY <2>1 DEF Tokens, Texts, LineText, Ended
      <3>4. QED
        BY <3>1, <3>2, <3>3
    <2>2. CASE line.is # "tokens"
      <3>1. OwnLine[line] = <<>> /\ Texts[line] = <<>>
        BY <2>2 DEF OwnLine, Texts, LineText
      <3>2. QED
        BY <3>1, CollectEmpty
    <2>3. QED
      BY <2>1, <2>2
  <1>5. QED
    BY <1>2, <1>3, <1>4

\* The lines of one file, line by line.
LEMMA OwnTexts ==
  ASSUME NEW source \in Seq(Line)
  PROVE  Collect(Tokens, Collect(OwnLine, source)) = Collect(Texts, source)
  <1> DEFINE k == [line \in Line |-> Collect(Tokens, OwnLine[line])]
  <1>1. Collect(Tokens, Collect(OwnLine, source)) = Collect(k, source)
    BY LineLists, CollectTwice
  <1>2. k = Texts
    <2>1. \A line \in Line : Collect(Tokens, OwnLine[line]) = Texts[line]
      BY LineLists
    <2>2. Texts = [line \in Line |-> Texts[line]]
      BY DEF Texts
    <2>3. QED
      BY <2>1, <2>2
  <1>3. QED
    BY <1>1, <1>2

LEMMA Loaded ==
  ASSUME directory \in Directories, NEW name \in DOMAIN directory
  PROVE  LoadTemplate(directory, name) = TextOf(name) /\ TextOf(name) \in Seq(Token)
  <1> DEFINE files == directory
             H == HereLines(files)
             G == HereTexts(files)
             source == files[name]
             lines == LinesOf(name)
  <1>0. \A f \in DOMAIN files : files[f] \in Seq(Line)
    BY PagesAssumption
  <1>1. H \in Lister(Line, Line)
    <2>1. \A f \in DOMAIN files : Collect(OwnLine, files[f]) \in Seq(Line)
      BY <1>0, LineLists, CollectTyped
    <2>2. \A line \in Line : OwnLine[line] \in Seq(Line)
      BY LineLists DEF Lister
    <2>3. QED
      BY <2>1, <2>2 DEF HereLines, Lister
  <1>2. \A f \in DOMAIN files : Included(files, f) = Collect(Texts, files[f])
    <2> SUFFICES ASSUME NEW f \in DOMAIN files PROVE Included(files, f) = Collect(Texts, files[f])
      OBVIOUS
    <2> DEFINE s == files[f]
    <2>1. DOMAIN s = 1 .. Len(s) /\ \A i \in 1 .. Len(s) : s[i] \in Line
      BY <1>0
    <2>2. [i \in DOMAIN s |-> LineText(s[i])] = [i \in DOMAIN s |-> Texts[s[i]]]
      BY <2>1 DEF Texts
    <2>3. QED
      BY <2>2 DEF Included, Collect
  <1>3. ASSUME NEW line \in Line PROVE Collect(Tokens, H[line]) = G[line]
    <2>1. CASE line.is = "include" /\ line.name \in DOMAIN files
      <3>1. H[line] = Collect(OwnLine, files[line.name])
        BY <2>1 DEF HereLines
      <3>2. G[line] = Collect(Texts, files[line.name])
        BY <1>2, <2>1 DEF HereTexts
      <3>3. QED
        BY <1>0, <2>1, <3>1, <3>2, OwnTexts
    <2>2. CASE ~ (line.is = "include" /\ line.name \in DOMAIN files)
      <3>1. H[line] = OwnLine[line]
        BY <2>2 DEF HereLines
      <3>2. Collect(Tokens, OwnLine[line]) = LineText(line)
        BY LineLists DEF Texts
      <3>3. G[line] = LineText(line)
        BY <2>2 DEF HereTexts, Included, LineText
      <3>4. QED
        BY <3>1, <3>2, <3>3
    <2>3. QED
      BY <2>1, <2>2
  <1>4. source \in Seq(Line) /\ DOMAIN source = 1 .. Len(source) /\ \A i \in DOMAIN source : source[i] \in Line
    BY <1>0
  <1>5. LoadTemplate(directory, name) = Collect(G, source)
    <2>1. [i \in DOMAIN source |-> LET line == source[i]
                                    IN IF line.is = "include" THEN Included(files, line.name) ELSE LineText(line)]
          = [i \in DOMAIN source |-> G[source[i]]]
      BY <1>4 DEF HereTexts
    <2>2. QED
      BY <2>1 DEF LoadTemplate, Collect
  <1>6. lines = Collect(H, source)
    <2> DEFINE Own(s, i) == IF s[i].is = "tokens" THEN <<s[i]>> ELSE <<>>
               Here(s, i) ==
                 IF s[i].is = "include" /\ s[i].name \in DOMAIN directory
                 THEN FlattenSeq([j \in DOMAIN directory[s[i].name] |-> Own(directory[s[i].name], j)])
                 ELSE Own(s, i)
    <2>1. ASSUME NEW s \in Seq(Line) PROVE [j \in DOMAIN s |-> Own(s, j)] = [j \in DOMAIN s |-> OwnLine[s[j]]]
      <3>1. \A j \in DOMAIN s : s[j] \in Line
        OBVIOUS
      <3>2. \A j \in DOMAIN s : Own(s, j) = OwnLine[s[j]]
        BY <3>1 DEF OwnLine
      <3> HIDE DEF Own
      <3>3. QED
        BY <3>2
    <2>2. ASSUME NEW s \in Seq(Line) PROVE FlattenSeq([j \in DOMAIN s |-> Own(s, j)]) = Collect(OwnLine, s)
      BY <2>1 DEF Collect
    <2>3. ASSUME NEW i \in DOMAIN source PROVE Here(source, i) = H[source[i]]
      <3>1. source[i] \in Line
        BY <1>4
      <3>2. Own(source, i) = OwnLine[source[i]]
        BY <3>1 DEF OwnLine
      <3>3. CASE source[i].is = "include" /\ source[i].name \in DOMAIN files
        <4>1. files[source[i].name] \in Seq(Line)
          BY <1>0, <3>3
        <4>2. FlattenSeq([j \in DOMAIN files[source[i].name] |-> Own(files[source[i].name], j)])
                = Collect(OwnLine, files[source[i].name])
          BY <2>2, <4>1
        <4> HIDE DEF Own
        <4>3. Here(source, i) = Collect(OwnLine, files[source[i].name])
          BY <3>3, <4>2
        <4>4. QED
          BY <3>1, <3>3, <4>3 DEF HereLines
      <3>4. CASE ~ (source[i].is = "include" /\ source[i].name \in DOMAIN files)
        <4> HIDE DEF Own
        <4>1. Here(source, i) = OwnLine[source[i]]
          BY <3>2, <3>4
        <4>2. QED
          BY <3>1, <3>4, <4>1 DEF HereLines
      <3>5. QED
        BY <3>3, <3>4
    <2>4. lines = FlattenSeq([i \in DOMAIN source |-> Here(source, i)])
      BY DEF LinesOf
    <2> HIDE DEF Here, H
    <2>5. [i \in DOMAIN source |-> Here(source, i)] = [i \in DOMAIN source |-> H[source[i]]]
      BY <2>3
    <2>6. QED
      BY <2>4, <2>5 DEF Collect
  <1>7. TextOf(name) = Collect(Tokens, lines)
    <2>1. lines \in Seq(Line)
      BY <1>1, <1>4, <1>6, CollectTyped
    <2> DEFINE l == lines
    <2>2. TextOf(name) = FlattenSeq([i \in DOMAIN l |-> Ended(l[i])])
      BY DEF TextOf, Ended
    <2> HIDE DEF l
    <2>3. \A i \in DOMAIN l : l[i] \in Line
      BY <2>1 DEF l
    <2>4. [i \in DOMAIN l |-> Ended(l[i])] = [i \in DOMAIN l |-> Tokens[l[i]]]
      BY <2>3 DEF Tokens
    <2>5. QED
      BY <2>2, <2>4 DEF Collect, l
  <1> HIDE DEF H, G, lines, source
  <1>8. Collect(Tokens, Collect(H, source)) = Collect([line \in Line |-> Collect(Tokens, H[line])], source)
    BY <1>1, <1>4, LineLists, CollectTwice
  <1>9. [line \in Line |-> Collect(Tokens, H[line])] = G
    <2>1. G = [line \in Line |-> G[line]]
      BY DEF G, HereTexts
    <2>2. QED
      BY <1>3, <2>1
  <1>10. Collect(Tokens, lines) \in Seq(Token)
    <2>1. Collect(H, source) \in Seq(Line)
      BY <1>1, <1>4, CollectTyped
    <2>2. QED
      BY <1>6, <2>1, LineLists, CollectTyped
  <1>11. QED
    BY <1>5, <1>6, <1>7, <1>8, <1>9, <1>10

Pages == {"default", "show-status"}

Steps == {"accepted", "reading", "proxied", "hardcoded", "toggle", "common", "count", "decide",
          "done"}

\* A task r that was counted before the counter stood at n, and whose reads of it
\* came one after the other.
Sound(r, n) ==
  /\ DOMAIN r = DOMAIN Fresh
  /\ r.pc \in Steps /\ r.on \in BOOLEAN
  /\ r.first \in Nat /\ r.shown \in Nat /\ r.last \in Nat
  /\ r.pc # "accepted" => 1 <= n
  /\ r.pc \in {"count", "decide"} => 1 <= r.first /\ r.first <= n
  /\ r.pc = "decide" => r.first <= r.shown /\ r.shown <= n
  /\ r.pc = "done" /\ r.kind \in Pages =>
       1 <= r.first /\ r.first <= r.shown /\ r.shown <= r.last /\ r.last <= n

IInv ==
  /\ directory \in Directories /\ settings \in Settings
  /\ enabled \in BOOLEAN /\ received \in Nat
  /\ DOMAIN conn = Conn
  /\ \A c \in Conn : Sound(conn[c], received)

-----------------------------------------------------------------------------
LEMMA InitInv == Init => IInv
  <1> SUFFICES ASSUME Init PROVE IInv
    OBVIOUS
  <1>1. Fresh.pc = "accepted" /\ Fresh.first = 0 /\ Fresh.shown = 0 /\ Fresh.last = 0
    BY DEF Fresh
  <1>2. Fresh.on \in BOOLEAN
    BY DEF Fresh
  <1>3. Sound(Fresh, 0)
    BY <1>1, <1>2 DEF Sound, Steps
  <1> QED
    BY <1>3 DEF Init, IInv

LEMMA CounterGrows ==
  ASSUME NEW r, NEW n \in Nat, NEW m \in Nat, n <= m, Sound(r, n)
  PROVE  Sound(r, m)
  BY DEF Sound

\* A step of one task leaves the others as they are, and what they have read is
\* still below the counter.
LEMMA TaskStep ==
  ASSUME IInv, NEW c \in Conn, UNCHANGED <<directory, settings, enabled>>,
         received' \in Nat, received <= received',
         DOMAIN conn' = Conn, \A d \in Conn \ {c} : conn'[d] = conn[d],
         Sound(conn'[c], received')
  PROVE  IInv'
  <1>1. \A d \in Conn \ {c} : Sound(conn'[d], received')
    BY CounterGrows DEF IInv
  <1> QED
    BY <1>1 DEF IInv

LEMMA NextInv == IInv /\ [Next]_vars => IInv'
  <1> SUFFICES ASSUME IInv, [Next]_vars PROVE IInv'
    OBVIOUS
  <1> USE DEF Fresh, Steps, Pages
  <1>1. ASSUME NEW c \in Conn, Register(c) PROVE IInv'
    <2>1. received' = received + 1 /\ received \in Nat
      BY <1>1 DEF Register, IInv
    <2>2. DOMAIN conn' = Conn /\ \A d \in Conn \ {c} : conn'[d] = conn[d]
      BY <1>1 DEF Register, IInv
    <2>3. Sound(conn'[c], received')
      BY <1>1, <2>1 DEF Register, IInv, Sound
    <2> QED
      BY <1>1, <2>1, <2>2, <2>3, TaskStep DEF Register
  <1>2. ASSUME NEW c \in Conn, NEW req \in Requests, Proxied(c, req) PROVE IInv'
    <2>1. DOMAIN conn' = Conn /\ \A d \in Conn \ {c} : conn'[d] = conn[d]
      BY <1>2 DEF Proxied, IInv
    <2>2. Sound(conn'[c], received')
      BY <1>2 DEF Proxied, IInv, Sound
    <2> QED
      BY <1>2, <2>1, <2>2, TaskStep DEF Proxied, IInv
  <1>3. ASSUME NEW c \in Conn, NEW req \in Requests, StaticPage(c, req) PROVE IInv'
    <2>1. DOMAIN conn' = Conn /\ \A d \in Conn \ {c} : conn'[d] = conn[d]
      BY <1>3 DEF StaticPage, IInv
    <2>2. Sound(conn'[c], received')
      BY <1>3 DEF StaticPage, IInv, Sound
    <2> QED
      BY <1>3, <2>1, <2>2, TaskStep DEF StaticPage, IInv
  <1>4. ASSUME NEW c \in Conn, NEW req \in Requests, BeginPage(c, req) PROVE IInv'
    <2>1. DOMAIN conn' = Conn /\ \A d \in Conn \ {c} : conn'[d] = conn[d]
      BY <1>4 DEF BeginPage, IInv
    <2>2. Sound(conn'[c], received')
      BY <1>4 DEF BeginPage, IInv, Sound
    <2> QED
      BY <1>4, <2>1, <2>2, TaskStep DEF BeginPage, IInv
  <1>5. ASSUME NEW c \in Conn, HardcodedPage(c) PROVE IInv'
    <2>1. DOMAIN conn' = Conn /\ \A d \in Conn \ {c} : conn'[d] = conn[d]
      BY <1>5 DEF HardcodedPage, IInv
    <2>2. Sound(conn'[c], received')
      BY <1>5 DEF HardcodedPage, IInv, Sound
    <2> QED
      BY <1>5, <2>1, <2>2, TaskStep DEF HardcodedPage, IInv
  <1>6. ASSUME NEW c \in Conn, ReadToggle(c) \/ ReadCommonCount(c) \/ ReadShownCount(c)
        PROVE  IInv'
    <2>1. DOMAIN conn' = Conn /\ \A d \in Conn \ {c} : conn'[d] = conn[d]
      BY <1>6 DEF ReadToggle, ReadCommonCount, ReadShownCount, IInv
    <2>2. Sound(conn'[c], received')
      BY <1>6 DEF ReadToggle, ReadCommonCount, ReadShownCount, IInv, Sound
    <2> QED
      BY <1>6, <2>1, <2>2, TaskStep DEF ReadToggle, ReadCommonCount, ReadShownCount, IInv
  <1>7. ASSUME NEW c \in Conn, RenderPage(c) PROVE IInv'
    <2>1. PICK page : conn' = [conn EXCEPT ![c].pc = "done", ![c].last = received,
                                          ![c].page = page]
      BY <1>7 DEF RenderPage
    <2>2. DOMAIN conn' = Conn /\ \A d \in Conn \ {c} : conn'[d] = conn[d]
      BY <2>1 DEF IInv
    <2>3. conn[c].pc = "decide" /\ UNCHANGED <<directory, settings, enabled, received>>
      BY <1>7 DEF RenderPage
    <2>4. Sound(conn'[c], received')
      BY <2>1, <2>3 DEF IInv, Sound
    <2> QED
      BY <2>2, <2>3, <2>4, TaskStep DEF IInv
  <1>8. CASE Toggle
    BY <1>8 DEF Toggle, IInv
  <1>9. CASE UNCHANGED vars
    BY <1>9 DEF vars, IInv
  <1> QED
    BY <1>1, <1>2, <1>3, <1>4, <1>5, <1>6, <1>7, <1>8, <1>9 DEF Next

LEMMA Inductive == Spec => []IInv
  BY InitInv, NextInv, PTL DEF Spec

-----------------------------------------------------------------------------
\* The types of the pages' tasks, of the toggle and of the counter.
THEOREM TypeCorrect == Spec => []TypeOK
  <1>1. IInv => TypeOK
    BY DEF IInv, TypeOK, Sound, Steps
  <1> QED
    BY <1>1, Inductive, PTL

\* Whatever other connections do between the three reads, a page counts its own
\* request and shows a number that belongs to the block chosen by it.
THEOREM PageCounts == Spec => []PageCountsItself
  <1>1. IInv => PageCountsItself
    BY DEF IInv, PageCountsItself, Sound, Pages
  <1> QED
    BY <1>1, Inductive, PTL

-----------------------------------------------------------------------------
\* The symbols of a page are what Value and Found say.

LEMMA SymbolsRead ==
  ASSUME NEW c, conn[c].first \in Nat \ {0}, conn[c].last \in Nat \ {0}
  PROVE  Reads(c, PageSymbols(conn[c].on, conn[c].first, conn[c].shown, conn[c].last))
  <1> DEFINE on == conn[c].on
             first == conn[c].first
             last == conn[c].last
             count == conn[c].shown
             C == CommonSymbols(on, first)
             S == PageSymbols(on, first, count, last)
             base == {"enabled-display", "disabled", "requests-received", "requests-blocked",
                      "have-no-stats"}
             names == base \cup (IF settings.admin THEN {} ELSE {"have-adminaddr-info"})
  <1>1. /\ DOMAIN C = names
        /\ C["enabled-display"] = (IF on THEN "enabled" ELSE "")
        /\ C["disabled"] = (IF on THEN "" ELSE "disabled")
        /\ C["requests-blocked"] = Number(0)
        /\ C["have-no-stats"] = ""
        /\ ~ settings.admin => C["have-adminaddr-info"] = ""
    <2>1. first # 0
      OBVIOUS
    <2> HIDE DEF first, on
    <2>2. QED
      BY <2>1 DEF CommonSymbols
  <1>2. /\ DOMAIN S = names \cup {"have-stats"}
        /\ S["have-stats"] = "1" /\ S["requests-received"] = Number(count)
        /\ \A name \in names \ {"requests-received"} : S[name] = C[name]
    <2>1. last > 0
      OBVIOUS
    <2>2. "have-stats" \notin names
      OBVIOUS
    <2> HIDE DEF last, C, names
    <2>3. S = [name \in names \cup {"have-stats"} |->
                 CASE name = "have-stats" -> "1"
                   [] name = "requests-received" -> Number(count)
                   [] OTHER -> C[name]]
      BY <1>1, <2>1 DEF PageSymbols, C
    <2> HIDE DEF S
    <2>4. "requests-received" \in names
      BY DEF names
    <2>5. QED
      BY <2>2, <2>3, <2>4
  <1>3. ASSUME NEW name PROVE Given(S, Tok("sym", name)) = Value(c, name)
    <2>1. Given(S, Tok("sym", name)) = IF name \in DOMAIN S THEN Tok("text", S[name]) ELSE Tok("sym", name)
      BY DEF Given, Tok
    <2> HIDE DEF C, S
    <2>2. CASE name \in names \cup {"have-stats"}
      <3>1. Given(S, Tok("sym", name)) = Tok("text", S[name])
        BY <1>2, <2>1, <2>2
      <3>2. /\ S["enabled-display"] = (IF on THEN "enabled" ELSE "")
            /\ S["disabled"] = (IF on THEN "" ELSE "disabled")
            /\ S["requests-received"] = Number(count) /\ S["requests-blocked"] = Number(0)
            /\ S["have-stats"] = "1" /\ S["have-no-stats"] = ""
            /\ ~ settings.admin => S["have-adminaddr-info"] = ""
        BY <1>1, <1>2
      <3>3. Value(c, name) = Tok("text", S[name])
        BY <2>2, <3>2, ZenonT(60) DEF Value
      <3>4. QED
        BY <3>1, <3>3
    <2>3. CASE name \notin names \cup {"have-stats"}
      <3>1. Given(S, Tok("sym", name)) = Tok("sym", name)
        BY <1>2, <2>1, <2>3
      <3>2. Value(c, name) = Tok("sym", name)
        BY <2>3 DEF Value
      <3>3. QED
        BY <3>1, <3>2
    <2>4. QED
      BY <2>2, <2>3
  <1>4. ASSUME NEW name PROVE Found(c, name) <=> Filled(S, name)
    <2> HIDE DEF S, C, names
    <2>1. Value(c, name) = IF name \in DOMAIN S THEN Tok("text", S[name]) ELSE Tok("sym", name)
      BY <1>3 DEF Given, Tok
    <2>2. CASE name \in DOMAIN S
      <3>1. Value(c, name).kind = "text" /\ Value(c, name).name = S[name]
        BY <2>1, <2>2 DEF Tok
      <3>2. QED
        BY <2>2, <3>1 DEF Found, Filled
    <2>3. CASE name \notin DOMAIN S
      <3>1. Value(c, name).kind = "sym"
        BY <2>1, <2>3 DEF Tok
      <3>2. QED
        BY <2>3, <3>1 DEF Found, Filled
    <2>4. QED
      BY <2>2, <2>3
  <1>5. QED
    BY <1>3, <1>4 DEF Reads, S

\* A page in the making has a template until it is done, and the one that is done
\* was rendered with what its task read.
PageMade(r) ==
  /\ r.pc = "hardcoded" => r.kind \notin DOMAIN directory
  /\ r.pc \in {"toggle", "common", "count", "decide"} => r.kind \in Pages \cap DOMAIN directory
  /\ r.pc = "done" /\ r.kind \in Pages \cap DOMAIN directory =>
       r.page = Render(LoadTemplate(directory, r.kind),
                       PageSymbols(r.on, r.first, r.shown, r.last))

AllMade == \A c \in Conn : PageMade(conn[c])

LEMMA InitMade == Init => AllMade
  BY DEF Init, AllMade, PageMade, Fresh

\* Nothing but the templates and the settings matters to it.
LEMMA MadeStays ==
  ASSUME UNCHANGED <<directory, settings>>, NEW r, PageMade(r)
  PROVE  PageMade(r)'
  <1>1. directory' = directory /\ settings' = settings
    OBVIOUS
  <1>2. ASSUME NEW on, NEW first PROVE CommonSymbols(on, first)' = CommonSymbols(on, first)
    BY <1>1 DEF CommonSymbols
  <1>3. ASSUME NEW on, NEW first, NEW count, NEW last
        PROVE  PageSymbols(on, first, count, last)' = PageSymbols(on, first, count, last)
    BY <1>2 DEF PageSymbols
  <1>4. PageSymbols(r.on, r.first, r.shown, r.last)' = PageSymbols(r.on, r.first, r.shown, r.last)
    BY <1>3
  <1>5. QED
    BY <1>1, <1>4 DEF PageMade

\* A step of one task.
LEMMA TaskMade ==
  ASSUME IInv, AllMade, NEW c \in Conn, NEW r, UNCHANGED <<directory, settings>>,
         conn' = [conn EXCEPT ![c] = r], PageMade(r)
  PROVE  AllMade'
  <1>1. DOMAIN conn = Conn
    BY DEF IInv
  <1>2. \A d \in Conn : conn'[d] = IF d = c THEN r ELSE conn[d]
    BY <1>1
  <1>3. \A d \in Conn : PageMade(conn'[d])
    BY <1>2 DEF AllMade
  <1>4. QED
    BY <1>3, MadeStays DEF AllMade

LEMMA NextMade == IInv /\ AllMade /\ [Next]_vars => AllMade'
  <1> SUFFICES ASSUME IInv, AllMade, [Next]_vars PROVE AllMade'
    OBVIOUS
  <1>0. ASSUME NEW c \in Conn PROVE DOMAIN conn = Conn /\ DOMAIN conn[c] = DOMAIN Fresh /\ PageMade(conn[c])
    BY DEF IInv, AllMade, Sound
  <1>1. ASSUME NEW c \in Conn, Register(c) PROVE AllMade'
    <2> DEFINE r == [conn[c] EXCEPT !.pc = "reading"]
    <2>1. PageMade(r)
      BY <1>0, <1>1 DEF PageMade, Fresh
    <2>2. conn' = [conn EXCEPT ![c] = r] /\ UNCHANGED <<directory, settings>>
      BY <1>1 DEF Register
    <2> HIDE DEF r
    <2>3. QED
      BY <2>1, <2>2, TaskMade
  <1>2. ASSUME NEW c \in Conn, NEW req \in Requests, Proxied(c, req) PROVE AllMade'
    <2> DEFINE r == [conn[c] EXCEPT !.pc = "proxied"]
    <2>1. PageMade(r)
      BY <1>0, <1>2 DEF PageMade, Fresh
    <2>2. conn' = [conn EXCEPT ![c] = r] /\ UNCHANGED <<directory, settings>>
      BY <1>2 DEF Proxied
    <2> HIDE DEF r
    <2>3. QED
      BY <2>1, <2>2, TaskMade
  <1>3. ASSUME NEW c \in Conn, NEW req \in Requests, StaticPage(c, req) PROVE AllMade'
    <2> DEFINE r == [conn[c] EXCEPT !.pc = "done", !.kind = RouteOf(req),
                                    !.page = <<Tok("text", RouteOf(req))>>]
    <2>1. PageMade(r)
      <3>1. RouteOf(req) \notin Pages
        BY <1>3 DEF StaticPage, Pages
      <3>2. r.pc = "done" /\ r.kind = RouteOf(req)
        BY <1>0 DEF Fresh
      <3> HIDE DEF r
      <3>3. QED
        BY <3>1, <3>2 DEF PageMade
    <2>2. conn' = [conn EXCEPT ![c] = r] /\ UNCHANGED <<directory, settings>>
      BY <1>3 DEF StaticPage
    <2> HIDE DEF r
    <2>3. QED
      BY <2>1, <2>2, TaskMade
  <1>4. ASSUME NEW c \in Conn, NEW req \in Requests, BeginPage(c, req) PROVE AllMade'
    <2> DEFINE step == IF RouteOf(req) \in DOMAIN directory THEN "toggle" ELSE "hardcoded"
               r == [conn[c] EXCEPT !.kind = RouteOf(req), !.pc = step]
    <2>1. PageMade(r)
      <3>1. RouteOf(req) \in Pages
        BY <1>4 DEF BeginPage, Pages
      <3>2. r.pc = step /\ r.kind = RouteOf(req)
        BY <1>0 DEF Fresh
      <3> HIDE DEF r
      <3>3. QED
        BY <3>1, <3>2 DEF PageMade
    <2>2. conn' = [conn EXCEPT ![c] = r] /\ UNCHANGED <<directory, settings>>
      BY <1>4 DEF BeginPage
    <2> HIDE DEF r
    <2>3. QED
      BY <2>1, <2>2, TaskMade
  <1>5. ASSUME NEW c \in Conn, HardcodedPage(c) PROVE AllMade'
    <2> DEFINE page == <<Tok("text", conn[c].kind), Tok("text", Number(received))>>
               r == [conn[c] EXCEPT !.pc = "done", !.first = received, !.shown = received,
                                    !.last = received, !.page = page]
    <2>1. PageMade(r)
      <3>1. conn[c].kind \notin DOMAIN directory
        BY <1>0, <1>5 DEF HardcodedPage, PageMade
      <3>2. r.pc = "done" /\ r.kind = conn[c].kind
        BY <1>0 DEF Fresh
      <3> HIDE DEF r
      <3>3. QED
        BY <3>1, <3>2 DEF PageMade
    <2>2. conn' = [conn EXCEPT ![c] = r] /\ UNCHANGED <<directory, settings>>
      BY <1>5 DEF HardcodedPage
    <2> HIDE DEF r
    <2>3. QED
      BY <2>1, <2>2, TaskMade
  <1>6. ASSUME NEW c \in Conn, ReadToggle(c) PROVE AllMade'
    <2> DEFINE r == [conn[c] EXCEPT !.pc = "common", !.on = enabled]
    <2>1. PageMade(r)
      BY <1>0, <1>6 DEF ReadToggle, PageMade, Fresh
    <2>2. conn' = [conn EXCEPT ![c] = r] /\ UNCHANGED <<directory, settings>>
      BY <1>6 DEF ReadToggle
    <2> HIDE DEF r
    <2>3. QED
      BY <2>1, <2>2, TaskMade
  <1>7. ASSUME NEW c \in Conn, ReadCommonCount(c) PROVE AllMade'
    <2> DEFINE r == [conn[c] EXCEPT !.pc = "count", !.first = received]
    <2>1. PageMade(r)
      BY <1>0, <1>7 DEF ReadCommonCount, PageMade, Fresh
    <2>2. conn' = [conn EXCEPT ![c] = r] /\ UNCHANGED <<directory, settings>>
      BY <1>7 DEF ReadCommonCount
    <2> HIDE DEF r
    <2>3. QED
      BY <2>1, <2>2, TaskMade
  <1>8. ASSUME NEW c \in Conn, ReadShownCount(c) PROVE AllMade'
    <2> DEFINE r == [conn[c] EXCEPT !.pc = "decide", !.shown = received]
    <2>1. PageMade(r)
      BY <1>0, <1>8 DEF ReadShownCount, PageMade, Fresh
    <2>2. conn' = [conn EXCEPT ![c] = r] /\ UNCHANGED <<directory, settings>>
      BY <1>8 DEF ReadShownCount
    <2> HIDE DEF r
    <2>3. QED
      BY <2>1, <2>2, TaskMade
  <1>9. ASSUME NEW c \in Conn, RenderPage(c) PROVE AllMade'
    <2> DEFINE symbols == PageSymbols(conn[c].on, conn[c].first, conn[c].shown, received)
               page == Render(LoadTemplate(directory, conn[c].kind), symbols)
               r == [conn[c] EXCEPT !.pc = "done", !.last = received, !.page = page]
    <2>1. PageMade(r)
      <3>1. /\ r.pc = "done" /\ r.kind = conn[c].kind /\ r.page = page /\ r.last = received
            /\ r.on = conn[c].on /\ r.first = conn[c].first /\ r.shown = conn[c].shown
        BY <1>0 DEF Fresh
      <3> HIDE DEF r
      <3>2. QED
        BY <3>1 DEF PageMade
    <2>2. conn' = [conn EXCEPT ![c] = r] /\ UNCHANGED <<directory, settings>>
      BY <1>9 DEF RenderPage
    <2> HIDE DEF r
    <2>3. QED
      BY <2>1, <2>2, TaskMade
  <1>10. ASSUME UNCHANGED <<directory, settings, conn>> PROVE AllMade'
    <2>1. \A c \in Conn : PageMade(conn'[c])
      BY <1>10 DEF AllMade
    <2>2. QED
      BY <1>10, <2>1, MadeStays DEF AllMade
  <1>11. CASE Toggle \/ UNCHANGED vars
    BY <1>10, <1>11 DEF Toggle, vars
  <1>12. QED
    BY <1>1, <1>2, <1>3, <1>4, <1>5, <1>6, <1>7, <1>8, <1>9, <1>11 DEF Next

LEMMA MadeInductive == Spec => []AllMade
  <1>1. IInv /\ AllMade /\ [Next]_vars => AllMade'
    BY NextMade
  <1>2. QED
    BY InitMade, <1>1, Inductive, PTL DEF Spec

\* A page made from a template says what its author meant, whatever templates there
\* are, with the toggle and the numbers its task read, and however conditions and
\* blocks stand in each other.
THEOREM PagesHold == Spec => []PageAsWritten
  <1>1. IInv /\ AllMade => PageAsWritten
    <2> SUFFICES ASSUME IInv, AllMade, NEW c \in Conn, Templated(c),
                        NEW text, text = TextOf(conn[c].kind),
                        NEW n \in 0 .. Len(text), MakesSense(text, n), ~ AsksForAdmin(text, n)
                 PROVE  SaysFirst(c, n)
      BY DEF PageAsWritten
    <2>0. /\ conn[c].pc = "done"
          /\ conn[c].kind \in {"default", "show-status"} \cap DOMAIN directory
          /\ \A i \in DOMAIN text :
               IsMarker(text[i]) => i + 1 \in DOMAIN text /\ text[i + 1].kind = "nl"
      BY DEF Templated
    <2> DEFINE symbols == PageSymbols(conn[c].on, conn[c].first, conn[c].shown, conn[c].last)
    <2>1. text = LoadTemplate(directory, conn[c].kind) /\ text \in Seq(Token)
      BY <2>0, Loaded DEF IInv
    <2>2. conn[c].page = Render(text, symbols)
      BY <2>0, <2>1 DEF AllMade, PageMade, Pages
    <2>3. Reads(c, symbols)
      <3>1. Sound(conn[c], received) /\ conn[c].kind \in Pages
        BY <2>0 DEF IInv, Pages
      <3>2. conn[c].first \in Nat \ {0} /\ conn[c].last \in Nat \ {0}
        BY <2>0, <3>1 DEF Sound
      <3>3. QED
        BY <3>2, SymbolsRead
    <2> HIDE DEF symbols
    <2>4. AsMeant(c, text, symbols, n)
      BY <2>0, <2>1, <2>3, RenderedAsMeant
    <2>5. QED
      BY <2>2, <2>4, ToldIsMeant DEF AsMeant, SaysFirst
  <1>2. QED
    BY <1>1, Inductive, MadeInductive, PTL

-----------------------------------------------------------------------------
\* The outlines of files.
SectionType == [actions : Actions, urls : Seq(Patterns)]
OutlineType == [stray : Seq(Patterns), sections : Seq(SectionType)]

LEMMA LineKinds ==
  ASSUME NEW l \in Lines
  PROVE  \/ l.kind = "header" /\ l.text \in Actions /\ l = Header(l.text)
         \/ l.kind = "url" /\ l.text \in Patterns /\ l = Url(l.text)
         \/ l.kind = "blank" /\ l = Blank
         \/ l.kind = "comment" /\ l = CommentLine
<1>1. CASE \E a \in Actions : l = Header(a)
  BY <1>1 DEF Header
<1>2. CASE \E p \in Patterns : l = Url(p)
  BY <1>2 DEF Url
<1>3. CASE l = Blank
  BY <1>3 DEF Blank
<1>4. CASE l = CommentLine
  BY <1>4 DEF CommentLine
<1>5. QED
  BY <1>1, <1>2, <1>3, <1>4 DEF Lines

\* The sequence ss with urls at the end of its last section.
Grown(ss, urls) ==
  [ss EXCEPT ![Len(ss)] = [actions |-> ss[Len(ss)].actions, urls |-> ss[Len(ss)].urls \o urls]]

LEMMA SectionExcept ==
  ASSUME NEW x \in SectionType
  PROVE  /\ \A v : [x EXCEPT !.urls = v] = [actions |-> x.actions, urls |-> v]
         /\ \A v : [x EXCEPT !.actions = v] = [actions |-> v, urls |-> x.urls]
<1>1. PICK a \in Actions, u \in Seq(Patterns) : x = [actions |-> a, urls |-> u]
  BY DEF SectionType
<1>2. QED
  BY <1>1

\* Reading, case by case.
LEMMA ReadCases ==
  ASSUME NEW r \in OutlineType, NEW l \in Lines
  PROVE  /\ l.kind = "header" =>
              Read(r, l) = [stray |-> r.stray,
                            sections |-> Append(r.sections, [actions |-> l.text, urls |-> <<>>])]
         /\ l.kind = "url" /\ r.sections = <<>> =>
              Read(r, l) = [stray |-> Append(r.stray, l.text), sections |-> <<>>]
         /\ l.kind = "url" /\ r.sections # <<>> =>
              Read(r, l) = [stray |-> r.stray, sections |-> Grown(r.sections, <<l.text>>)]
         /\ l.kind \in {"blank", "comment"} => Read(r, l) = r
<1>1. r = [stray |-> r.stray, sections |-> r.sections]
  BY DEF OutlineType
<1>2. ASSUME l.kind = "header"
      PROVE  Read(r, l) = [stray |-> r.stray,
                           sections |-> Append(r.sections, [actions |-> l.text, urls |-> <<>>])]
  BY <1>1, <1>2 DEF Read
<1>3. ASSUME l.kind = "url", r.sections = <<>>
      PROVE  Read(r, l) = [stray |-> Append(r.stray, l.text), sections |-> <<>>]
  BY <1>1, <1>3 DEF Read
<1>4. ASSUME l.kind = "url", r.sections # <<>>
      PROVE  Read(r, l) = [stray |-> r.stray, sections |-> Grown(r.sections, <<l.text>>)]
  <2> DEFINE n == Len(r.sections)
             u == r.sections[n].urls
  <2>1. n \in 1 .. Len(r.sections) /\ r.sections \in Seq(SectionType)
    BY <1>4 DEF OutlineType
  <2>2. r.sections[n] \in SectionType /\ l.text \in Patterns
    BY <1>4, <2>1, LineKinds
  <2>3. u \in Seq(Patterns)
    BY <2>2 DEF SectionType
  <2>4. Append(u, l.text) = u \o <<l.text>>
    BY <2>2, <2>3, AppendIsConcat
  <2>5. Read(r, l) = [r EXCEPT !.sections[n].urls = Append(u, l.text)]
    BY <1>4 DEF Read
  <2>6. [r.sections[n] EXCEPT !.urls = u \o <<l.text>>]
          = [actions |-> r.sections[n].actions, urls |-> u \o <<l.text>>]
    BY <2>2, SectionExcept
  <2>7. Read(r, l) = [r EXCEPT !.sections = [r.sections EXCEPT ![n] =
                        [r.sections[n] EXCEPT !.urls = u \o <<l.text>>]]]
    BY <2>4, <2>5
  <2>8. Read(r, l) = [r EXCEPT !.sections = Grown(r.sections, <<l.text>>)]
    BY <2>6, <2>7 DEF Grown
  <2>9. QED
    BY <1>1, <2>8
<1>5. ASSUME l.kind \in {"blank", "comment"} PROVE Read(r, l) = r
  BY <1>5 DEF Read
<1>6. QED
  BY <1>2, <1>3, <1>4, <1>5

LEMMA GrownTyped ==
  ASSUME NEW ss \in Seq(SectionType), ss # <<>>, NEW urls \in Seq(Patterns)
  PROVE  /\ Grown(ss, urls) \in Seq(SectionType) /\ Grown(ss, urls) # <<>>
         /\ Len(Grown(ss, urls)) = Len(ss)
         /\ \A i \in 1 .. Len(ss) - 1 : Grown(ss, urls)[i] = ss[i]
         /\ Grown(ss, urls)[Len(ss)] =
              [actions |-> ss[Len(ss)].actions, urls |-> ss[Len(ss)].urls \o urls]
<1> DEFINE n == Len(ss)
           new == [actions |-> ss[n].actions, urls |-> ss[n].urls \o urls]
<1>1. n \in 1 .. Len(ss)
  OBVIOUS
<1>2. ss[n] \in SectionType
  BY <1>1
<1>3. new \in SectionType
  BY <1>2 DEF SectionType
<1>4. Grown(ss, urls) = [ss EXCEPT ![n] = new]
  BY DEF Grown
<1> HIDE DEF new
<1>5. /\ [ss EXCEPT ![n] = new] \in Seq(SectionType)
      /\ Len([ss EXCEPT ![n] = new]) = Len(ss)
      /\ \A j \in 1 .. Len(ss) : [ss EXCEPT ![n] = new][j] = IF j = n THEN new ELSE ss[j]
  BY <1>1, <1>3, ExceptSeq
<1>6. \A i \in 1 .. Len(ss) - 1 : i \in 1 .. Len(ss) /\ i # n
  OBVIOUS
<1>7. [ss EXCEPT ![n] = new] # <<>>
  BY <1>1, <1>5
<1>8. QED
  BY <1>1, <1>4, <1>5, <1>6, <1>7 DEF new

LEMMA ReadTyped ==
  ASSUME NEW r \in OutlineType, NEW l \in Lines
  PROVE  Read(r, l) \in OutlineType
<1>1. r.stray \in Seq(Patterns) /\ r.sections \in Seq(SectionType)
  BY DEF OutlineType
<1>2. CASE l.kind = "header"
  <2>1. [actions |-> l.text, urls |-> <<>>] \in SectionType
    BY <1>2, LineKinds DEF SectionType
  <2>2. Append(r.sections, [actions |-> l.text, urls |-> <<>>]) \in Seq(SectionType)
    BY <1>1, <2>1
  <2>3. [stray |-> r.stray,
         sections |-> Append(r.sections, [actions |-> l.text, urls |-> <<>>])] \in OutlineType
    BY <1>1, <2>2 DEF OutlineType
  <2>4. QED
    BY <1>2, <2>3, ReadCases
<1>3. CASE l.kind = "url" /\ r.sections = <<>>
  <2>1. Append(r.stray, l.text) \in Seq(Patterns) /\ <<>> \in Seq(SectionType)
    BY <1>1, <1>3, LineKinds
  <2>2. [stray |-> Append(r.stray, l.text), sections |-> <<>>] \in OutlineType
    BY <2>1 DEF OutlineType
  <2>3. QED
    BY <1>3, <2>2, ReadCases
<1>4. CASE l.kind = "url" /\ r.sections # <<>>
  <2>1. <<l.text>> \in Seq(Patterns)
    BY <1>4, LineKinds
  <2>2. Grown(r.sections, <<l.text>>) \in Seq(SectionType)
    BY <1>1, <1>4, <2>1, GrownTyped
  <2>3. [stray |-> r.stray, sections |-> Grown(r.sections, <<l.text>>)] \in OutlineType
    BY <1>1, <2>2 DEF OutlineType
  <2>4. QED
    BY <1>4, <2>3, ReadCases
<1>5. CASE l.kind \in {"blank", "comment"}
  BY <1>5, ReadCases
<1>6. QED
  BY <1>2, <1>3, <1>4, <1>5, LineKinds

\* A file is read line by line.
LEMMA OutlineSteps ==
  /\ Outline(<<>>) = NoRules /\ NoRules \in OutlineType
  /\ \A f \in Seq(Lines) : Outline(f) \in OutlineType
  /\ \A f \in Seq(Lines), l \in Lines : Outline(Append(f, l)) = Read(Outline(f), l)
<1> DEFINE F == [p \in OutlineType \X Lines |-> Read(p[1], p[2])]
<1>1. NoRules \in OutlineType
  BY DEF NoRules, OutlineType
<1>2. F \in Stepper(OutlineType, Lines)
  BY ReadTyped DEF Stepper
<1>3. \A r \in OutlineType, l \in Lines : F[<<r, l>>] = Read(r, l)
  OBVIOUS
<1> HIDE DEF F
<1>4. ASSUME NEW f \in Seq(Lines) PROVE Outline(f) = Total(F, NoRules, f, OutlineType)
  <2> DEFINE n == Len(f)
             Made(m) == m = [i \in 0 .. n |-> IF i = 0 THEN NoRules ELSE Read(m[i - 1], f[i])]
             G == CHOOSE m : Made(m)
  <2>a. n \in Nat /\ \A i \in 1 .. n : f[i] \in Lines
    OBVIOUS
  <2>1. PICK m : Comes(F, NoRules, f, OutlineType, m)
                   /\ Total(F, NoRules, f, OutlineType) = m[n]
    BY <1>1, <1>2, TotalIs
  <2> HIDE DEF n
  <2>2. /\ m \in [0 .. n -> OutlineType]
        /\ m[0] = NoRules /\ \A i \in 1 .. n : m[i] = F[<<m[i - 1], f[i]>>]
    BY <2>1 DEF Comes, n
  <2>3. Made(m)
    <3>1. \A i \in 1 .. n : i - 1 \in 0 .. n
      BY <2>a
    <3>2. \A i \in 0 .. n : i = 0 \/ (i # 0 /\ i \in 1 .. n)
      BY <2>a
    <3>3. \A i \in 0 .. n : m[i] = IF i = 0 THEN NoRules ELSE Read(m[i - 1], f[i])
      BY <1>3, <2>2, <2>a, <3>1, <3>2
    <3>4. m = [i \in 0 .. n |-> m[i]]
      BY <2>2
    <3>5. QED
      BY <3>3, <3>4
  <2>4. Made(G)
    <3> HIDE DEF Made
    <3>1. QED
      BY <2>3
  <2>5. Outline(f) = G[n]
    BY DEF Outline, n
  <2> HIDE DEF G
  <2>6. \A i \in 0 .. n : G[i] = IF i = 0 THEN NoRules ELSE Read(G[i - 1], f[i])
    BY <2>4
  <2>7. G[0] = NoRules
    BY <2>6, <2>a
  <2>8. ASSUME NEW i \in 1 .. n, G[i - 1] \in OutlineType
        PROVE  G[i] = F[<<G[i - 1], f[i]>>]
    <3>1. i \in 0 .. n /\ i # 0
      BY <2>a
    <3>2. G[i] = Read(G[i - 1], f[i])
      BY <2>6, <3>1
    <3>3. QED
      BY <1>3, <2>a, <2>8, <3>2
  <2>9. n <= Len(f)
    BY <2>a DEF n
  <2>10. G[n] = m[n]
    <3> HIDE DEF Made
    <3>1. \A i \in 1 .. n : G[i - 1] \in OutlineType => G[i] = F[<<G[i - 1], f[i]>>]
      BY <2>8
    <3>2. QED
      BY <1>1, <1>2, <2>1, <2>7, <2>9, <2>a, <3>1, SameTotal
  <2>11. QED
    BY <2>1, <2>5, <2>10
<1>5. <<>> \in Seq(Lines) /\ \A f \in Seq(Lines), l \in Lines : Append(f, l) \in Seq(Lines)
  OBVIOUS
<1>6. /\ Total(F, NoRules, <<>>, OutlineType) = NoRules
      /\ \A s \in Seq(Lines) : Total(F, NoRules, s, OutlineType) \in OutlineType
      /\ \A s \in Seq(Lines), e \in Lines :
           Total(F, NoRules, Append(s, e), OutlineType)
             = F[<<Total(F, NoRules, s, OutlineType), e>>]
  BY <1>1, <1>2, TotalSteps
<1>7. QED
  BY <1>1, <1>3, <1>4, <1>5, <1>6, ZenonT(40)

LEMMA GrownTwice ==
  ASSUME NEW ss \in Seq(SectionType), ss # <<>>, NEW u \in Seq(Patterns), NEW v \in Seq(Patterns)
  PROVE  Grown(Grown(ss, u), v) = Grown(ss, u \o v)
<1> DEFINE n == Len(ss)
           g == Grown(ss, u)
<1>1. n \in 1 .. Len(ss) /\ ss[n] \in SectionType
  OBVIOUS
<1>2. ss[n].urls \in Seq(Patterns)
  BY <1>1 DEF SectionType
<1>3. /\ g \in Seq(SectionType) /\ g # <<>> /\ Len(g) = n
      /\ \A i \in 1 .. n - 1 : g[i] = ss[i]
      /\ g[n] = [actions |-> ss[n].actions, urls |-> ss[n].urls \o u]
  BY GrownTyped
<1> HIDE DEF g
<1>4. /\ Grown(g, v) \in Seq(SectionType) /\ Len(Grown(g, v)) = n
      /\ \A i \in 1 .. n - 1 : Grown(g, v)[i] = ss[i]
      /\ Grown(g, v)[n] = [actions |-> ss[n].actions, urls |-> (ss[n].urls \o u) \o v]
  <2>1. /\ Grown(g, v) \in Seq(SectionType) /\ Len(Grown(g, v)) = Len(g)
        /\ \A i \in 1 .. Len(g) - 1 : Grown(g, v)[i] = g[i]
        /\ Grown(g, v)[Len(g)] = [actions |-> g[Len(g)].actions, urls |-> g[Len(g)].urls \o v]
    BY <1>3, GrownTyped
  <2>2. g[n].actions = ss[n].actions /\ g[n].urls = ss[n].urls \o u
    BY <1>3
  <2> HIDE DEF n
  <2>3. Len(g) = n
    BY <1>3
  <2>4. QED
    BY <1>3, <2>1, <2>2, <2>3
<1>5. (ss[n].urls \o u) \o v = ss[n].urls \o (u \o v) /\ u \o v \in Seq(Patterns)
  <2>1. u \o v \in Seq(Patterns)
    OBVIOUS
  <2> DEFINE w == ss[n].urls
  <2>2. w \in Seq(Patterns)
    BY <1>2
  <2> HIDE DEF w
  <2>3. (w \o u) \o v = w \o (u \o v)
    BY <2>2, ConcatAssociative
  <2>4. QED
    BY <2>1, <2>3 DEF w
<1> DEFINE h == Grown(ss, u \o v)
<1>6. /\ h \in Seq(SectionType) /\ Len(h) = n
      /\ \A i \in 1 .. n - 1 : h[i] = ss[i]
      /\ h[n] = [actions |-> ss[n].actions, urls |-> ss[n].urls \o (u \o v)]
  BY <1>5, GrownTyped
<1> HIDE DEF h
<1>7. \A i \in 1 .. n : i \in 1 .. n - 1 \/ i = n
  BY <1>1
<1>8. Grown(g, v) = h
  BY <1>4, <1>5, <1>6, <1>7, SeqEqual
<1>9. QED
  BY <1>8 DEF g, h

LEMMA GrownConcat ==
  ASSUME NEW ss \in Seq(SectionType), NEW ts \in Seq(SectionType), ts # <<>>,
         NEW u \in Seq(Patterns)
  PROVE  Grown(ss \o ts, u) = ss \o Grown(ts, u)
<1> DEFINE n == Len(ss)
           m == Len(ts)
           b == ss \o ts
           g == Grown(ts, u)
<1>1. n \in Nat /\ m \in Nat /\ m # 0
  OBVIOUS
<1>2. /\ b \in Seq(SectionType) /\ Len(b) = n + m
      /\ \A i \in 1 .. n + m : b[i] = IF i <= n THEN ss[i] ELSE ts[i - n]
  BY ConcatProperties
<1>3. /\ g \in Seq(SectionType) /\ Len(g) = m /\ \A i \in 1 .. m - 1 : g[i] = ts[i]
      /\ g[m] = [actions |-> ts[m].actions, urls |-> ts[m].urls \o u]
  BY GrownTyped
<1>4. b # <<>>
  BY <1>1, <1>2
<1> HIDE DEF g, b
<1>5. /\ Grown(b, u) \in Seq(SectionType) /\ Len(Grown(b, u)) = n + m
      /\ \A i \in 1 .. n + m - 1 : Grown(b, u)[i] = b[i]
      /\ Grown(b, u)[n + m] = [actions |-> b[n + m].actions, urls |-> b[n + m].urls \o u]
  <2>1. /\ Grown(b, u) \in Seq(SectionType) /\ Len(Grown(b, u)) = Len(b)
        /\ \A i \in 1 .. Len(b) - 1 : Grown(b, u)[i] = b[i]
        /\ Grown(b, u)[Len(b)] = [actions |-> b[Len(b)].actions, urls |-> b[Len(b)].urls \o u]
    BY <1>2, <1>4, GrownTyped
  <2> HIDE DEF n, m
  <2>2. Len(b) = n + m
    BY <1>2
  <2>3. QED
    BY <1>1, <2>1, <2>2
<1>6. /\ ss \o g \in Seq(SectionType) /\ Len(ss \o g) = n + m
      /\ \A i \in 1 .. n + m : (ss \o g)[i] = IF i <= n THEN ss[i] ELSE g[i - n]
  <2>1. /\ ss \o g \in Seq(SectionType) /\ Len(ss \o g) = n + Len(g)
        /\ \A i \in 1 .. n + Len(g) : (ss \o g)[i] = IF i <= n THEN ss[i] ELSE g[i - n]
    <3>1. g \in Seq(SectionType)
      BY <1>3
    <3>2. QED
      BY <3>1, ConcatProperties
  <2> HIDE DEF n, m
  <2>2. Len(g) = m
    BY <1>3
  <2>3. QED
    BY <2>1, <2>2
<1> HIDE DEF n, m
<1>7. b[n + m] = ts[m] /\ (ss \o g)[n + m] = g[m]
  <2>1. n + m \in 1 .. n + m /\ ~(n + m <= n) /\ (n + m) - n = m
    BY <1>1
  <2>2. QED
    BY <1>2, <1>6, <2>1
<1>8. ASSUME NEW i \in 1 .. n + m PROVE Grown(b, u)[i] = (ss \o g)[i]
  <2>1. CASE i = n + m
    BY <1>3, <1>5, <1>7, <2>1
  <2>2. CASE i # n + m
    <3>1. i \in 1 .. n + m - 1 /\ (~(i <= n) => i - n \in 1 .. m - 1)
      BY <1>1, <2>2
    <3>2. QED
      BY <1>2, <1>3, <1>5, <1>6, <3>1
  <2>3. QED
    BY <2>1, <2>2
<1>9. Grown(b, u) = ss \o g
  BY <1>5, <1>6, <1>8, SeqEqual
<1>10. QED
  BY <1>9 DEF b, g

LEMMA GrownNot ==
  ASSUME NEW ss \in Seq(SectionType), ss # <<>>
  PROVE  Grown(ss, <<>>) = ss
<1>1. <<>> \in Seq(Patterns) /\ Len(ss) \in 1 .. Len(ss)
  OBVIOUS
<1>2. ss[Len(ss)] \in SectionType
  BY <1>1
<1>3. PICK a \in Actions, v \in Seq(Patterns) : ss[Len(ss)] = [actions |-> a, urls |-> v]
  BY <1>2 DEF SectionType
<1>4. v \o <<>> = v
  OBVIOUS
<1>5. Grown(ss, <<>>)[Len(ss)] = ss[Len(ss)]
  <2>1. Grown(ss, <<>>)[Len(ss)]
          = [actions |-> ss[Len(ss)].actions, urls |-> ss[Len(ss)].urls \o <<>>]
    BY <1>1, GrownTyped
  <2>2. ss[Len(ss)].actions = a /\ ss[Len(ss)].urls = v
    BY <1>3
  <2>3. QED
    BY <1>3, <1>4, <2>1, <2>2
<1>6. \A i \in 1 .. Len(ss) : i \in 1 .. Len(ss) - 1 \/ i = Len(ss)
  OBVIOUS
<1>7. /\ Grown(ss, <<>>) \in Seq(SectionType) /\ Len(Grown(ss, <<>>)) = Len(ss)
      /\ \A i \in 1 .. Len(ss) - 1 : Grown(ss, <<>>)[i] = ss[i]
  BY <1>1, GrownTyped
<1>8. \A i \in 1 .. Len(ss) : Grown(ss, <<>>)[i] = ss[i]
  BY <1>5, <1>6, <1>7
<1>9. QED
  BY <1>7, <1>8, SeqEqual

LEMMA GrownAppend ==
  ASSUME NEW ss \in Seq(SectionType), NEW x \in SectionType, NEW u \in Seq(Patterns)
  PROVE  Grown(Append(ss, x), u) = Append(ss, [actions |-> x.actions, urls |-> x.urls \o u])
<1> DEFINE b == Append(ss, x)
           y == [actions |-> x.actions, urls |-> x.urls \o u]
           n == Len(ss)
<1>1. y \in SectionType
  BY DEF SectionType
<1>2. n \in Nat /\ b \in Seq(SectionType) /\ b # <<>> /\ Len(b) = n + 1 /\ b[n + 1] = x
      /\ \A i \in 1 .. n : b[i] = ss[i]
  OBVIOUS
<1> HIDE DEF b, y
<1>3. /\ Append(ss, y) \in Seq(SectionType) /\ Len(Append(ss, y)) = n + 1
      /\ Append(ss, y)[n + 1] = y /\ \A i \in 1 .. n : Append(ss, y)[i] = ss[i]
  BY <1>1
<1>4. /\ Grown(b, u) \in Seq(SectionType) /\ Len(Grown(b, u)) = Len(b)
      /\ \A i \in 1 .. Len(b) - 1 : Grown(b, u)[i] = b[i]
      /\ Grown(b, u)[Len(b)] = [actions |-> b[Len(b)].actions, urls |-> b[Len(b)].urls \o u]
  BY <1>2, GrownTyped
<1> HIDE DEF n
<1>5. Grown(b, u)[n + 1] = y /\ (n + 1) - 1 = n
  <2>1. Len(b) = n + 1 /\ b[n + 1] = x /\ n \in Nat
    BY <1>2
  <2>2. Grown(b, u)[n + 1] = [actions |-> x.actions, urls |-> x.urls \o u]
    BY <1>4, <2>1
  <2>3. QED
    BY <2>1, <2>2 DEF y
<1>6. \A i \in 1 .. n + 1 : i \in 1 .. n \/ i = n + 1
  BY <1>2
<1>7. Grown(b, u) = Append(ss, y)
  BY <1>2, <1>3, <1>4, <1>5, <1>6, SeqEqual
<1>8. QED
  BY <1>7 DEF b, y

-----------------------------------------------------------------------------
\* Outlines are joined: what strays in the second belongs to the last section of
\* the first.
Join(a, b) ==
  IF a.sections = <<>> THEN [stray |-> a.stray \o b.stray, sections |-> b.sections]
  ELSE [stray |-> a.stray, sections |-> Grown(a.sections, b.stray) \o b.sections]

LEMMA OutlineParts ==
  ASSUME NEW r \in OutlineType
  PROVE  /\ r.stray \in Seq(Patterns) /\ r.sections \in Seq(SectionType)
         /\ r = [stray |-> r.stray, sections |-> r.sections]
BY DEF OutlineType

LEMMA JoinTyped ==
  ASSUME NEW a \in OutlineType, NEW b \in OutlineType
  PROVE  Join(a, b) \in OutlineType
<1>1. /\ a.stray \in Seq(Patterns) /\ a.sections \in Seq(SectionType)
      /\ b.stray \in Seq(Patterns) /\ b.sections \in Seq(SectionType)
  BY OutlineParts
<1>2. CASE a.sections = <<>>
  <2>1. a.stray \o b.stray \in Seq(Patterns)
    BY <1>1
  <2>2. QED
    BY <1>1, <1>2, <2>1 DEF Join, OutlineType
<1>3. CASE a.sections # <<>>
  <2>1. Grown(a.sections, b.stray) \in Seq(SectionType)
    BY <1>1, <1>3, GrownTyped
  <2>2. Grown(a.sections, b.stray) \o b.sections \in Seq(SectionType)
    BY <1>1, <2>1
  <2>3. QED
    BY <1>1, <1>3, <2>2 DEF Join, OutlineType
<1>4. QED
  BY <1>2, <1>3

LEMMA JoinNothing ==
  ASSUME NEW a \in OutlineType
  PROVE  Join(a, NoRules) = a
<1>1. /\ a.stray \in Seq(Patterns) /\ a.sections \in Seq(SectionType)
      /\ a = [stray |-> a.stray, sections |-> a.sections]
  BY OutlineParts
<1>2. a.stray \o <<>> = a.stray /\ a.sections \o <<>> = a.sections
  BY <1>1, ConcatEmptySeq
<1>3. NoRules.stray = <<>> /\ NoRules.sections = <<>>
  BY DEF NoRules
<1>4. a.sections # <<>> => Grown(a.sections, <<>>) = a.sections
  BY <1>1, GrownNot
<1>5. QED
  BY <1>1, <1>2, <1>3, <1>4 DEF Join

\* Reading goes on in the second of two outlines as in the two joined.
LEMMA JoinRead ==
  ASSUME NEW a \in OutlineType, NEW b \in OutlineType, NEW l \in Lines
  PROVE  Join(a, Read(b, l)) = Read(Join(a, b), l)
<1> DEFINE j == Join(a, b)
           r == Read(b, l)
<1>1. /\ a.stray \in Seq(Patterns) /\ a.sections \in Seq(SectionType)
      /\ b.stray \in Seq(Patterns) /\ b.sections \in Seq(SectionType)
  BY OutlineParts
<1>2. j \in OutlineType
  BY JoinTyped
<1>3. /\ a.sections = <<>> => j.stray = a.stray \o b.stray /\ j.sections = b.sections
      /\ a.sections # <<>> =>
           j.stray = a.stray /\ j.sections = Grown(a.sections, b.stray) \o b.sections
  BY DEF Join
<1> DEFINE g == Grown(a.sections, b.stray)
<1>4. a.sections # <<>> => g \in Seq(SectionType) /\ g # <<>>
  BY <1>1, GrownTyped
<1> HIDE DEF j, r, g
<1>5. Join(a, r) =
        IF a.sections = <<>> THEN [stray |-> a.stray \o r.stray, sections |-> r.sections]
        ELSE [stray |-> a.stray, sections |-> Grown(a.sections, r.stray) \o r.sections]
  BY DEF Join
<1>6. CASE l.kind = "header"
  <2> DEFINE x == [actions |-> l.text, urls |-> <<>>]
  <2>1. x \in SectionType
    BY <1>6, LineKinds DEF SectionType
  <2> HIDE DEF x
  <2>2. Read(b, l) = [stray |-> b.stray, sections |-> Append(b.sections, x)]
    BY <1>6, ReadCases DEF x
  <2>3. Read(j, l) = [stray |-> j.stray, sections |-> Append(j.sections, x)]
    BY <1>2, <1>6, ReadCases DEF x
  <2>4. r.stray = b.stray /\ r.sections = Append(b.sections, x)
    BY <2>2 DEF r
  <2>5. a.sections # <<>> => g \o Append(b.sections, x) = Append(g \o b.sections, x)
    BY <1>1, <1>4, <2>1, ConcatAppend
  <2>6. CASE a.sections = <<>>
    <3>1. Join(a, r) = [stray |-> a.stray \o b.stray, sections |-> Append(b.sections, x)]
      BY <1>5, <2>4, <2>6
    <3>2. QED
      BY <1>3, <2>3, <2>6, <3>1 DEF j, r
  <2>7. CASE a.sections # <<>>
    <3>1. Join(a, r) = [stray |-> a.stray, sections |-> g \o Append(b.sections, x)]
      BY <1>5, <2>4, <2>7 DEF g
    <3>2. QED
      BY <1>3, <2>3, <2>5, <2>7, <3>1 DEF j, r, g
  <2>8. QED
    BY <2>6, <2>7
<1>7. CASE l.kind = "url" /\ b.sections = <<>>
  <2> DEFINE u == <<l.text>>
  <2>1. l.text \in Patterns /\ u \in Seq(Patterns)
    BY <1>7, LineKinds
  <2>2. Read(b, l) = [stray |-> Append(b.stray, l.text), sections |-> <<>>]
    BY <1>7, ReadCases
  <2>3. Append(b.stray, l.text) = b.stray \o u
    BY <1>1, <2>1, AppendIsConcat
  <2>4. r.stray = b.stray \o u /\ r.sections = <<>>
    BY <2>2, <2>3 DEF r
  <2>5. CASE a.sections = <<>>
    <3>1. Read(j, l) = [stray |-> Append(j.stray, l.text), sections |-> <<>>]
      BY <1>2, <1>3, <1>7, <2>5, ReadCases
    <3>2. a.stray \o Append(b.stray, l.text) = Append(a.stray \o b.stray, l.text)
      <4> DEFINE s == a.stray
                 t == b.stray
                 e == l.text
      <4>1. s \in Seq(Patterns) /\ t \in Seq(Patterns) /\ e \in Patterns
        BY <1>1, <2>1
      <4> HIDE DEF s, t, e
      <4>2. s \o Append(t, e) = Append(s \o t, e)
        BY <4>1, ConcatAppend
      <4>3. QED
        BY <4>2 DEF s, t, e
    <3>3. Join(a, r) = [stray |-> a.stray \o Append(b.stray, l.text), sections |-> <<>>]
      BY <1>5, <2>3, <2>4, <2>5
    <3>4. j.stray = a.stray \o b.stray
      BY <1>3, <2>5
    <3>5. QED
      BY <3>1, <3>2, <3>3, <3>4 DEF j, r
  <2>6. CASE a.sections # <<>>
    <3>1. j.sections = g /\ j.stray = a.stray
      <4>1. g \o <<>> = g
        BY <1>4, <2>6, ConcatEmptySeq
      <4>2. QED
        BY <1>3, <1>7, <2>6, <4>1 DEF g
    <3>2. Read(j, l) = [stray |-> j.stray, sections |-> Grown(j.sections, u)]
      BY <1>2, <1>4, <1>7, <2>6, <3>1, ReadCases
    <3>3. Grown(g, u) = Grown(a.sections, b.stray \o u)
      BY <1>1, <2>1, <2>6, GrownTwice DEF g
    <3>4. Grown(a.sections, b.stray \o u) \o <<>> = Grown(a.sections, b.stray \o u)
      <4>1. b.stray \o u \in Seq(Patterns)
        BY <1>1, <2>1
      <4>2. Grown(a.sections, b.stray \o u) \in Seq(SectionType)
        BY <1>1, <2>6, <4>1, GrownTyped
      <4>3. QED
        BY <4>2, ConcatEmptySeq
    <3>5. Join(a, r) = [stray |-> a.stray, sections |-> Grown(a.sections, b.stray \o u)]
      BY <1>5, <2>4, <2>6, <3>4
    <3>6. QED
      BY <3>1, <3>2, <3>3, <3>5 DEF j, r
  <2>7. QED
    BY <2>5, <2>6
<1>8. CASE l.kind = "url" /\ b.sections # <<>>
  <2> DEFINE u == <<l.text>>
  <2>1. l.text \in Patterns /\ u \in Seq(Patterns)
    BY <1>8, LineKinds
  <2>2. Read(b, l) = [stray |-> b.stray, sections |-> Grown(b.sections, u)]
    BY <1>8, ReadCases
  <2>3. r.stray = b.stray /\ r.sections = Grown(b.sections, u)
    BY <2>2 DEF r
  <2> HIDE DEF u
  <2>4. j.sections # <<>>
    <3>1. a.sections # <<>> => g \o b.sections # <<>>
      <4> SUFFICES ASSUME a.sections # <<>> PROVE g \o b.sections # <<>>
        OBVIOUS
      <4>1. Len(b.sections) # 0 /\ Len(g) \in Nat /\ Len(b.sections) \in Nat
        BY <1>1, <1>4, <1>8
      <4>2. Len(g \o b.sections) = Len(g) + Len(b.sections)
        BY <1>1, <1>4, ConcatProperties
      <4>3. QED
        BY <4>1, <4>2
    <3>2. QED
      BY <1>3, <1>8, <3>1 DEF g
  <2>5. Read(j, l) = [stray |-> j.stray, sections |-> Grown(j.sections, u)]
    BY <1>2, <1>8, <2>4, ReadCases DEF u
  <2>6. CASE a.sections = <<>>
    <3>1. Join(a, r) = [stray |-> a.stray \o b.stray, sections |-> Grown(b.sections, u)]
      BY <1>5, <2>3, <2>6
    <3>2. QED
      BY <1>3, <2>5, <2>6, <3>1 DEF j, r
  <2>7. CASE a.sections # <<>>
    <3>1. Grown(g \o b.sections, u) = g \o Grown(b.sections, u)
      BY <1>1, <1>4, <1>8, <2>1, <2>7, GrownConcat
    <3>2. Join(a, r) = [stray |-> a.stray, sections |-> g \o Grown(b.sections, u)]
      BY <1>5, <2>3, <2>7 DEF g
    <3>3. QED
      BY <1>3, <2>5, <2>7, <3>1, <3>2 DEF j, r, g
  <2>8. QED
    BY <2>6, <2>7
<1>9. CASE l.kind \in {"blank", "comment"}
  <2>1. Read(b, l) = b /\ Read(j, l) = j
    BY <1>2, <1>9, ReadCases
  <2>2. QED
    BY <2>1 DEF j
<1>10. QED
  BY <1>6, <1>7, <1>8, <1>9, LineKinds DEF j

\* The outline of one file behind another.
LEMMA OutlineConcat ==
  ASSUME NEW f \in Seq(Lines), NEW g \in Seq(Lines)
  PROVE  Outline(f \o g) = Join(Outline(f), Outline(g))
<1> DEFINE S == {h \in Seq(Lines) : Outline(f \o h) = Join(Outline(f), Outline(h))}
<1>1. <<>> \in S
  <2>1. f \o <<>> = f /\ <<>> \in Seq(Lines)
    BY ConcatEmptySeq
  <2>2. QED
    BY <2>1, OutlineSteps, JoinNothing
<1>2. ASSUME NEW h \in Seq(Lines), NEW l \in Lines, h \in S PROVE Append(h, l) \in S
  <2>1. f \o Append(h, l) = Append(f \o h, l) /\ f \o h \in Seq(Lines) /\ Append(h, l) \in Seq(Lines)
    BY ConcatAppend
  <2>2. Outline(Append(f \o h, l)) = Read(Outline(f \o h), l)
    BY <2>1, OutlineSteps
  <2>3. Outline(Append(h, l)) = Read(Outline(h), l)
    BY OutlineSteps
  <2>4. Outline(f) \in OutlineType /\ Outline(h) \in OutlineType
    BY OutlineSteps
  <2>5. Join(Outline(f), Read(Outline(h), l)) = Read(Join(Outline(f), Outline(h)), l)
    BY <2>4, JoinRead
  <2>6. Outline(f \o h) = Join(Outline(f), Outline(h))
    BY <1>2
  <2>7. QED
    BY <2>1, <2>2, <2>3, <2>5, <2>6
<1>3. Seq(Lines) \subseteq S
  <2> HIDE DEF S
  <2>1. QED
    BY <1>1, <1>2, SeqInduction
<1>4. QED
  BY <1>3

-----------------------------------------------------------------------------
\* A header between what stands before and behind it.
LEMMA HeaderAt ==
  ASSUME NEW p \in Seq(Lines), NEW q \in Seq(Lines), NEW a \in Actions
  PROVE  Outline(Append(p, Header(a)) \o q) =
           [stray |-> Outline(p).stray,
            sections |-> Append(Outline(p).sections, [actions |-> a, urls |-> Outline(q).stray])
                           \o Outline(q).sections]
<1> DEFINE l == Header(a)
           r == Outline(p)
           o == Outline(q)
           x == [actions |-> a, urls |-> <<>>]
<1>1. l \in Lines /\ l.kind = "header" /\ l.text = a
  BY DEF Lines, Header
<1> HIDE DEF l
<1>2. Append(p, l) \in Seq(Lines)
  BY <1>1
<1>3. r \in OutlineType /\ o \in OutlineType /\ Outline(Append(p, l)) = Read(r, l)
  BY <1>1, OutlineSteps
<1>4. r.sections \in Seq(SectionType) /\ o.stray \in Seq(Patterns)
  BY <1>3, OutlineParts
<1>5. Outline(Append(p, l) \o q) = Join(Read(r, l), o)
  BY <1>2, <1>3, OutlineConcat
<1> HIDE DEF r, o
<1>6. x \in SectionType
  BY DEF SectionType
<1>7. Read(r, l) = [stray |-> r.stray, sections |-> Append(r.sections, x)]
  BY <1>1, <1>3, ReadCases
<1>8. x.actions = a /\ x.urls \o o.stray = o.stray
  BY <1>4, ConcatEmptySeq
<1> HIDE DEF x
<1>9. Append(r.sections, x) # <<>>
  BY <1>4, <1>6, AppendProperties
<1>10. Grown(Append(r.sections, x), o.stray)
         = Append(r.sections, [actions |-> x.actions, urls |-> x.urls \o o.stray])
  BY <1>4, <1>6, GrownAppend
<1>11. Join(Read(r, l), o) = [stray |-> r.stray,
                              sections |-> Grown(Append(r.sections, x), o.stray) \o o.sections]
  BY <1>7, <1>9 DEF Join
<1>12. QED
  BY <1>5, <1>8, <1>10, <1>11 DEF r, o, l

\* A pattern in a section, and the same section without it.
LEMMA UrlAt ==
  ASSUME NEW p \in Seq(Lines), NEW q \in Seq(Lines),
         NEW ss \in Seq(SectionType), NEW x \in SectionType,
         Outline(p).sections = Append(ss, x)
  PROVE  /\ \A t \in Patterns :
              Outline(Append(p, Url(t)) \o q) =
                [stray |-> Outline(p).stray,
                 sections |-> Append(ss, [actions |-> x.actions,
                                          urls |-> (x.urls \o <<t>>) \o Outline(q).stray])
                                \o Outline(q).sections]
         /\ Outline(p \o q) =
              [stray |-> Outline(p).stray,
               sections |-> Append(ss, [actions |-> x.actions, urls |-> x.urls \o Outline(q).stray])
                              \o Outline(q).sections]
<1> DEFINE r == Outline(p)
           o == Outline(q)
<1>1. r \in OutlineType /\ o \in OutlineType
  BY OutlineSteps
<1>2. /\ r.stray \in Seq(Patterns) /\ o.stray \in Seq(Patterns)
      /\ x.urls \in Seq(Patterns) /\ x.actions \in Actions
  BY <1>1, OutlineParts DEF SectionType
<1>3. r.sections # <<>>
  BY AppendProperties
<1>4. Outline(p \o q) = Join(r, o)
  BY OutlineConcat
<1>5. ASSUME NEW t \in Patterns
      PROVE  Outline(Append(p, Url(t)) \o q) =
               [stray |-> r.stray,
                sections |-> Append(ss, [actions |-> x.actions,
                                         urls |-> (x.urls \o <<t>>) \o o.stray]) \o o.sections]
  <2> DEFINE l == Url(t)
             y == [actions |-> x.actions, urls |-> x.urls \o <<t>>]
  <2>1. l \in Lines /\ l.kind = "url" /\ l.text = t
    BY DEF Lines, Url
  <2> HIDE DEF l
  <2>2. Append(p, l) \in Seq(Lines) /\ Outline(Append(p, l)) = Read(r, l)
    BY <2>1, OutlineSteps
  <2>3. Outline(Append(p, l) \o q) = Join(Read(r, l), o)
    BY <2>2, OutlineConcat
  <2>4. Read(r, l) = [stray |-> r.stray, sections |-> Grown(r.sections, <<t>>)]
    BY <1>1, <1>3, <2>1, ReadCases
  <2>5. <<t>> \in Seq(Patterns) /\ x.urls \o <<t>> \in Seq(Patterns)
    BY <1>2
  <2>6. Grown(Append(ss, x), <<t>>) = Append(ss, y)
    BY <2>5, GrownAppend
  <2>7. y \in SectionType
    BY <1>2, <2>5 DEF SectionType
  <2> HIDE DEF y, r, o
  <2>8. Append(ss, y) # <<>>
    BY <2>7, AppendProperties
  <2>9. Grown(Append(ss, y), o.stray)
          = Append(ss, [actions |-> y.actions, urls |-> y.urls \o o.stray])
    BY <1>2, <2>7, GrownAppend
  <2>10. y.actions = x.actions /\ y.urls = x.urls \o <<t>>
    BY DEF y
  <2>11. Read(r, l).stray = r.stray /\ Read(r, l).sections = Append(ss, y)
    BY <2>4, <2>6 DEF r
  <2>12. Join(Read(r, l), o) = [stray |-> r.stray,
                                sections |-> Grown(Append(ss, y), o.stray) \o o.sections]
    BY <2>8, <2>11 DEF Join
  <2>13. QED
    BY <2>3, <2>9, <2>10, <2>12 DEF l
<1>6. Outline(p \o q) =
        [stray |-> r.stray,
         sections |-> Append(ss, [actions |-> x.actions, urls |-> x.urls \o o.stray])
                        \o o.sections]
  <2> HIDE DEF o
  <2>1. Grown(Append(ss, x), o.stray)
          = Append(ss, [actions |-> x.actions, urls |-> x.urls \o o.stray])
    BY <1>2, GrownAppend
  <2>2. QED
    BY <1>3, <1>4, <2>1 DEF Join
<1>7. QED
  BY <1>5, <1>6

\* A pattern before any section strays; without a header there is no section.
LEMMA Sectioned ==
  ASSUME NEW f \in Seq(Lines)
  PROVE  /\ Outline(f).sections # <<>> <=> \E h \in DOMAIN f : f[h].kind = "header"
         /\ Parses(f) => Outline(f).stray = <<>>
<1> DEFINE Headed(g) == \E h \in DOMAIN g : g[h].kind = "header"
           S == {g \in Seq(Lines) : /\ Outline(g).sections # <<>> <=> Headed(g)
                                    /\ Parses(g) => Outline(g).stray = <<>>}
<1>1. <<>> \in S
  <2>1. Outline(<<>>).sections = <<>> /\ Outline(<<>>).stray = <<>>
    BY OutlineSteps DEF NoRules
  <2>2. <<>> \in Seq(Lines) /\ DOMAIN <<>> = {}
    OBVIOUS
  <2>3. QED
    BY <2>1, <2>2
<1>2. ASSUME NEW g \in Seq(Lines), NEW l \in Lines, g \in S PROVE Append(g, l) \in S
  <2> DEFINE a == Append(g, l)
             n == Len(g)
  <2>1. /\ a \in Seq(Lines) /\ n \in Nat /\ DOMAIN a = 1 .. n + 1 /\ DOMAIN g = 1 .. n
        /\ a[n + 1] = l /\ \A i \in 1 .. n : a[i] = g[i]
    OBVIOUS
  <2>2. Outline(a) = Read(Outline(g), l) /\ Outline(g) \in OutlineType
    BY OutlineSteps
  <2> HIDE DEF a, n
  <2>3. \A i \in 1 .. n + 1 : i \in 1 .. n \/ i = n + 1
    BY <2>1
  <2>4. Headed(a) <=> Headed(g) \/ l.kind = "header"
    <3>1. n + 1 \in 1 .. n + 1 /\ \A i \in 1 .. n : i \in 1 .. n + 1
      BY <2>1
    <3>2. QED
      BY <2>1, <2>3, <3>1
  <2>5. Parses(a) => Parses(g) /\ (l.kind = "url" => Headed(g))
    <3> SUFFICES ASSUME Parses(a) PROVE Parses(g) /\ (l.kind = "url" => Headed(g))
      OBVIOUS
    <3>1. ASSUME NEW i \in DOMAIN g, g[i].kind = "url"
          PROVE  \E h \in 1 .. i - 1 : g[h].kind = "header"
      <4>1. i \in DOMAIN a /\ a[i].kind = "url"
        BY <2>1, <3>1
      <4>2. PICK h \in 1 .. i - 1 : a[h].kind = "header"
        BY <4>1 DEF Parses
      <4>3. h \in 1 .. n
        BY <2>1
      <4>4. QED
        BY <2>1, <4>2, <4>3
    <3>2. l.kind = "url" => Headed(g)
      <4>1. n + 1 \in DOMAIN a /\ (n + 1) - 1 = n
        BY <2>1
      <4>2. QED
        BY <2>1, <4>1 DEF Parses
    <3>3. QED
      BY <3>1, <3>2 DEF Parses
  <2>6. (Outline(g).sections # <<>> <=> Headed(g)) /\ (Parses(g) => Outline(g).stray = <<>>)
    BY <1>2
  <2>7. Outline(g).sections \in Seq(SectionType)
    BY <2>2, OutlineParts
  <2> HIDE DEF Headed
  <2> DEFINE o == Outline(g)
  <2>8. CASE l.kind = "header"
    <3> DEFINE x == [actions |-> l.text, urls |-> <<>>]
    <3>1. x \in SectionType
      BY <2>8, LineKinds DEF SectionType
    <3> HIDE DEF x
    <3>2. Outline(a) = [stray |-> o.stray, sections |-> Append(o.sections, x)]
      BY <2>2, <2>8, ReadCases DEF x
    <3>3. Outline(a).sections # <<>> /\ Outline(a).stray = o.stray
      <4> DEFINE ss == o.sections
      <4>1. ss \in Seq(SectionType)
        BY <2>7
      <4> HIDE DEF ss
      <4>2. Append(ss, x) # <<>>
        BY <3>1, <4>1, AppendProperties
      <4>3. QED
        BY <3>2, <4>2 DEF ss
    <3>4. QED
      BY <2>1, <2>4, <2>5, <2>6, <2>8, <3>3 DEF a, o
  <2>9. CASE l.kind = "url" /\ Outline(g).sections = <<>>
    <3>1. Outline(a).sections = <<>>
      <4>1. Outline(a) = [stray |-> Append(o.stray, l.text), sections |-> <<>>]
        BY <2>2, <2>9, ReadCases
      <4>2. QED
        BY <4>1
    <3>2. ~Parses(a)
      BY <2>5, <2>6, <2>9
    <3>3. QED
      BY <2>1, <2>4, <2>6, <2>9, <3>1, <3>2 DEF a
  <2>10. CASE l.kind = "url" /\ Outline(g).sections # <<>>
    <3>1. /\ Outline(a).stray = Outline(g).stray
          /\ Outline(a).sections = Grown(Outline(g).sections, <<l.text>>)
      <4>1. Outline(a) = [stray |-> o.stray, sections |-> Grown(o.sections, <<l.text>>)]
        BY <2>2, <2>10, ReadCases
      <4>2. QED
        BY <4>1
    <3>2. <<l.text>> \in Seq(Patterns)
      BY <2>10, LineKinds
    <3>3. Outline(a).sections # <<>>
      BY <2>7, <2>10, <3>1, <3>2, GrownTyped
    <3>4. QED
      BY <2>1, <2>4, <2>5, <2>6, <2>10, <3>1, <3>3 DEF a
  <2>11. CASE l.kind \in {"blank", "comment"}
    <3>1. Outline(a) = Outline(g)
      BY <2>2, <2>11, ReadCases
    <3>2. QED
      BY <2>1, <2>4, <2>5, <2>6, <2>11, <3>1 DEF a
  <2>12. QED
    BY <2>8, <2>9, <2>10, <2>11, LineKinds
<1>3. Seq(Lines) \subseteq S
  <2> HIDE DEF S
  <2>1. QED
    BY <1>1, <1>2, SeqInduction
<1>4. QED
  BY <1>3

-----------------------------------------------------------------------------
\* What write_file is given may hold an empty pattern; what it writes does not.
Drafts == Lines \union {Url("")}

LEMMA EmptyUrl ==
  /\ Url("") \notin Lines /\ Blank \in Lines
  /\ Url("") # CommentLine /\ Url("").kind = "url"
<1>1. "" \notin Patterns
  BY EditorAssumption
<1>2. Url("").kind = "url" /\ Url("").text = ""
  BY DEF Url
<1>3. CommentLine.kind = "comment"
  BY DEF CommentLine
<1>4. Url("") \notin Lines
  BY <1>1, <1>2, LineKinds
<1>5. QED
  BY <1>2, <1>3, <1>4 DEF Lines

LEMMA WrittenCases ==
  ASSUME NEW l \in Drafts
  PROVE  /\ WrittenLine(l) \in Seq(Lines)
         /\ l \in Lines => \E w \in Lines : /\ WrittenLine(l) = <<w>>
                                            /\ \A r \in OutlineType : Read(r, w) = Read(r, l)
         /\ l = Url("") => WrittenLine(l) = <<Blank, Blank>>
<1>1. ASSUME l = Url("") PROVE WrittenLine(l) = <<Blank, Blank>>
  BY <1>1, EmptyUrl DEF WrittenLine
<1>2. <<Blank, Blank>> \in Seq(Lines)
  <2>1. \A b \in Lines : <<b, b>> \in Seq(Lines)
    OBVIOUS
  <2>2. QED
    BY <2>1, EmptyUrl
<1>3. ASSUME l \in Lines
      PROVE  \E w \in Lines : /\ WrittenLine(l) = <<w>>
                              /\ \A r \in OutlineType : Read(r, w) = Read(r, l)
  <2>1. l # Url("")
    BY <1>3, EmptyUrl
  <2>2. CASE l.kind = "comment"
    <3>1. WrittenLine(l) = <<Blank>>
      BY <2>2 DEF WrittenLine
    <3>2. Blank.kind = "blank"
      BY DEF Blank
    <3>3. \A r \in OutlineType : Read(r, Blank) = Read(r, l)
      BY <1>3, <2>2, <3>2, EmptyUrl, ReadCases
    <3>4. QED
      BY <3>1, <3>3, EmptyUrl
  <2>3. CASE l.kind # "comment"
    <3>1. WrittenLine(l) = <<l>>
      BY <2>1, <2>3 DEF WrittenLine
    <3>2. QED
      BY <1>3, <3>1
  <2>4. QED
    BY <2>2, <2>3
<1>4. \A w \in Lines : <<w>> \in Seq(Lines)
  OBVIOUS
<1>5. QED
  BY <1>1, <1>2, <1>3, <1>4 DEF Drafts

\* A file is written line by line.
LEMMA WholeSteps ==
  /\ Whole(<<>>) = <<>>
  /\ \A f \in Seq(Drafts) : Whole(f) \in Seq(Lines)
  /\ \A f \in Seq(Drafts), l \in Drafts : Whole(Append(f, l)) = Whole(f) \o WrittenLine(l)
<1> DEFINE A == Seq(Lines)
           F == [p \in A \X Drafts |-> p[1] \o WrittenLine(p[2])]
<1>1. <<>> \in A
  OBVIOUS
<1>2. F \in Stepper(A, Drafts)
  <2>1. ASSUME NEW p \in A \X Drafts PROVE p[1] \o WrittenLine(p[2]) \in A
    <3>1. p[1] \in Seq(Lines) /\ p[2] \in Drafts
      OBVIOUS
    <3>2. WrittenLine(p[2]) \in Seq(Lines)
      BY <3>1, WrittenCases
    <3>3. QED
      BY <3>1, <3>2, ConcatProperties
  <2>2. QED
    BY <2>1 DEF Stepper
<1>3. \A r \in A, l \in Drafts : F[<<r, l>>] = r \o WrittenLine(l)
  OBVIOUS
<1> HIDE DEF F, A
<1>4. ASSUME NEW f \in Seq(Drafts) PROVE Whole(f) = Total(F, <<>>, f, A)
  <2> DEFINE n == Len(f)
             Made(m) == m = [i \in 0 .. n |->
                               IF i = 0 THEN <<>> ELSE m[i - 1] \o WrittenLine(f[i])]
             G == CHOOSE m : Made(m)
  <2>a. n \in Nat /\ \A i \in 1 .. n : f[i] \in Drafts
    OBVIOUS
  <2>1. PICK m : Comes(F, <<>>, f, A, m) /\ Total(F, <<>>, f, A) = m[n]
    BY <1>1, <1>2, TotalIs
  <2> HIDE DEF n
  <2>2. /\ m \in [0 .. n -> A]
        /\ m[0] = <<>> /\ \A i \in 1 .. n : m[i] = F[<<m[i - 1], f[i]>>]
    BY <2>1 DEF Comes, n
  <2>3. Made(m)
    <3>1. \A i \in 1 .. n : i - 1 \in 0 .. n
      BY <2>a
    <3>2. \A i \in 0 .. n : i = 0 \/ (i # 0 /\ i \in 1 .. n)
      BY <2>a
    <3>3. \A i \in 0 .. n : m[i] = IF i = 0 THEN <<>> ELSE m[i - 1] \o WrittenLine(f[i])
      BY <1>3, <2>2, <2>a, <3>1, <3>2
    <3>4. m = [i \in 0 .. n |-> m[i]]
      BY <2>2
    <3>5. QED
      BY <3>3, <3>4
  <2>4. Made(G)
    <3> HIDE DEF Made
    <3>1. QED
      BY <2>3
  <2>5. Whole(f) = G[n]
    BY DEF Whole, n
  <2> HIDE DEF G
  <2>6. \A i \in 0 .. n : G[i] = IF i = 0 THEN <<>> ELSE G[i - 1] \o WrittenLine(f[i])
    BY <2>4
  <2>7. G[0] = <<>>
    BY <2>6, <2>a
  <2>8. ASSUME NEW i \in 1 .. n, G[i - 1] \in A
        PROVE  G[i] = F[<<G[i - 1], f[i]>>]
    <3>1. i \in 0 .. n /\ i # 0
      BY <2>a
    <3>2. G[i] = G[i - 1] \o WrittenLine(f[i])
      BY <2>6, <3>1
    <3>3. QED
      BY <1>3, <2>a, <2>8, <3>2
  <2>9. n <= Len(f)
    BY <2>a DEF n
  <2>10. G[n] = m[n]
    <3> HIDE DEF Made
    <3>1. \A i \in 1 .. n : G[i - 1] \in A => G[i] = F[<<G[i - 1], f[i]>>]
      BY <2>8
    <3>2. QED
      BY <1>1, <1>2, <2>1, <2>7, <2>9, <2>a, <3>1, SameTotal
  <2>11. QED
    BY <2>1, <2>5, <2>10
<1>5. <<>> \in Seq(Drafts) /\ \A f \in Seq(Drafts), l \in Drafts : Append(f, l) \in Seq(Drafts)
  OBVIOUS
<1>6. /\ Total(F, <<>>, <<>>, A) = <<>>
      /\ \A s \in Seq(Drafts) : Total(F, <<>>, s, A) \in A
      /\ \A s \in Seq(Drafts), e \in Drafts :
           Total(F, <<>>, Append(s, e), A) = F[<<Total(F, <<>>, s, A), e>>]
  BY <1>1, <1>2, TotalSteps
<1>7. QED
  BY <1>1, <1>3, <1>4, <1>5, <1>6, ZenonT(40) DEF A

LEMMA LinesAreDrafts ==
  ASSUME NEW f \in Seq(Lines)
  PROVE  f \in Seq(Drafts)
<1>1. Lines \subseteq Drafts
  BY DEF Drafts
<1>2. QED
  BY <1>1, SeqMonotonic

LEMMA WholeConcat ==
  ASSUME NEW f \in Seq(Drafts), NEW g \in Seq(Drafts)
  PROVE  Whole(f \o g) = Whole(f) \o Whole(g)
<1> DEFINE S == {h \in Seq(Drafts) : Whole(f \o h) = Whole(f) \o Whole(h)}
<1>1. <<>> \in S
  <2>1. f \o <<>> = f /\ <<>> \in Seq(Drafts)
    BY ConcatEmptySeq
  <2>2. Whole(f) \in Seq(Lines) /\ Whole(f) \o <<>> = Whole(f)
    BY WholeSteps, ConcatEmptySeq
  <2>3. QED
    BY <2>1, <2>2, WholeSteps
<1>2. ASSUME NEW h \in Seq(Drafts), NEW l \in Drafts, h \in S PROVE Append(h, l) \in S
  <2>1. f \o Append(h, l) = Append(f \o h, l) /\ f \o h \in Seq(Drafts) /\ Append(h, l) \in Seq(Drafts)
    BY ConcatAppend
  <2>2. Whole(Append(f \o h, l)) = Whole(f \o h) \o WrittenLine(l)
    BY <2>1, WholeSteps
  <2>3. Whole(Append(h, l)) = Whole(h) \o WrittenLine(l)
    BY WholeSteps
  <2>4. Whole(f) \in Seq(Lines) /\ Whole(h) \in Seq(Lines) /\ WrittenLine(l) \in Seq(Lines)
    BY WholeSteps, WrittenCases
  <2>5. (Whole(f) \o Whole(h)) \o WrittenLine(l) = Whole(f) \o (Whole(h) \o WrittenLine(l))
    BY <2>4, ConcatAssociative, SMTT(30)
  <2>6. Whole(f \o h) = Whole(f) \o Whole(h)
    BY <1>2
  <2>7. QED
    BY <2>1, <2>2, <2>3, <2>5, <2>6
<1>3. Seq(Drafts) \subseteq S
  <2> HIDE DEF S
  <2>1. QED
    BY <1>1, <1>2, SeqInduction
<1>4. QED
  BY <1>3

\* Writing changes no rule.
LEMMA WholeOutline ==
  ASSUME NEW f \in Seq(Lines)
  PROVE  Outline(Whole(f)) = Outline(f)
<1> DEFINE S == {h \in Seq(Lines) : Outline(Whole(h)) = Outline(h)}
<1>1. <<>> \in S
  BY WholeSteps
<1>2. ASSUME NEW h \in Seq(Lines), NEW l \in Lines, h \in S PROVE Append(h, l) \in S
  <2>1. h \in Seq(Drafts) /\ l \in Drafts
    BY LinesAreDrafts DEF Drafts
  <2>2. PICK w \in Lines : /\ WrittenLine(l) = <<w>>
                           /\ \A r \in OutlineType : Read(r, w) = Read(r, l)
    BY <2>1, WrittenCases
  <2>3. Whole(h) \in Seq(Lines) /\ Whole(Append(h, l)) = Whole(h) \o <<w>>
    BY <2>1, <2>2, WholeSteps
  <2>4. Whole(h) \o <<w>> = Append(Whole(h), w)
    BY <2>3, AppendIsConcat
  <2>5. Outline(Append(Whole(h), w)) = Read(Outline(Whole(h)), w)
    BY <2>3, OutlineSteps
  <2>6. Outline(Append(h, l)) = Read(Outline(h), l) /\ Outline(h) \in OutlineType
    BY OutlineSteps
  <2>7. Outline(Whole(h)) = Outline(h)
    BY <1>2
  <2>8. Read(Outline(h), w) = Read(Outline(h), l)
    BY <2>2, <2>6
  <2>9. Outline(Whole(Append(h, l))) = Outline(Append(h, l))
    BY <2>3, <2>4, <2>5, <2>6, <2>7, <2>8
  <2>10. QED
    BY <2>9
<1>3. Seq(Lines) \subseteq S
  <2> HIDE DEF S
  <2>1. QED
    BY <1>1, <1>2, SeqInduction
<1>4. QED
  BY <1>3

\* An empty pattern is written as blank lines: it is no rule.
LEMMA WholeGap ==
  ASSUME NEW p \in Seq(Lines), NEW q \in Seq(Lines)
  PROVE  Outline(Whole(Append(p, Url("")) \o q)) = Outline(p \o q)
<1> DEFINE e == Url("")
           bb == <<Blank, Blank>>
<1>1. p \in Seq(Drafts) /\ q \in Seq(Drafts) /\ e \in Drafts /\ Append(p, e) \in Seq(Drafts)
  <2>1. p \in Seq(Drafts) /\ q \in Seq(Drafts) /\ e \in Drafts
    BY LinesAreDrafts DEF Drafts
  <2> HIDE DEF e
  <2>2. QED
    BY <2>1
<1>2. WrittenLine(e) = bb
  BY <1>1, WrittenCases
<1>3. Whole(Append(p, e)) = Whole(p) \o bb /\ Whole(p) \in Seq(Lines) /\ Whole(q) \in Seq(Lines)
  BY <1>1, <1>2, WholeSteps
<1>4. Whole(Append(p, e) \o q) = (Whole(p) \o bb) \o Whole(q)
  BY <1>1, <1>3, WholeConcat
<1>5. bb \in Seq(Lines) /\ Blank \in Lines /\ Blank.kind = "blank"
  <2>1. Blank \in Lines /\ Blank.kind = "blank"
    BY EmptyUrl DEF Blank
  <2>2. \A b \in Lines : <<b, b>> \in Seq(Lines)
    OBVIOUS
  <2>3. QED
    BY <2>1, <2>2
<1>6. Outline(bb) = NoRules
  <2>1. bb = Append(Append(<<>>, Blank), Blank)
    OBVIOUS
  <2>2. <<>> \in Seq(Lines) /\ Append(<<>>, Blank) \in Seq(Lines)
    BY <1>5
  <2>3. Outline(bb) = Read(Read(NoRules, Blank), Blank)
    BY <1>5, <2>1, <2>2, OutlineSteps
  <2>4. Read(NoRules, Blank) = NoRules
    BY <1>5, OutlineSteps, ReadCases
  <2>5. QED
    BY <2>3, <2>4
<1> HIDE DEF bb
<1>7. Outline(Whole(p) \o bb) = Outline(p)
  <2>1. Outline(Whole(p) \o bb) = Join(Outline(Whole(p)), NoRules)
    BY <1>3, <1>5, <1>6, OutlineConcat
  <2>2. Outline(Whole(p)) = Outline(p) /\ Outline(p) \in OutlineType
    BY WholeOutline, OutlineSteps
  <2>3. QED
    BY <2>1, <2>2, JoinNothing
<1>8. Whole(p) \o bb \in Seq(Lines)
  BY <1>3, <1>5, ConcatProperties
<1>9. Outline((Whole(p) \o bb) \o Whole(q)) = Join(Outline(p), Outline(Whole(q)))
  BY <1>3, <1>7, <1>8, OutlineConcat
<1>10. Outline(Whole(q)) = Outline(q)
  BY WholeOutline
<1>11. QED
  BY <1>4, <1>9, <1>10, OutlineConcat

-----------------------------------------------------------------------------
\* An element between what stands before and behind it.
LEMMA PutIn ==
  ASSUME NEW T, NEW s \in Seq(T), NEW t \in Seq(T), NEW x \in T
  PROVE  LET w == Append(s, x) \o t
             k == Len(s) + 1
         IN /\ w \in Seq(T) /\ k \in DOMAIN w /\ w[k] = x
            /\ \A y \in T : [w EXCEPT ![k] = y] = Append(s, y) \o t
            /\ RemoveAt(w, k) = s \o t
<1> DEFINE w == Append(s, x) \o t
           m == Len(s)
           n == Len(t)
           k == m + 1
<1>1. m \in Nat /\ n \in Nat
  OBVIOUS
<1>2. ASSUME NEW y \in T
      PROVE  /\ Append(s, y) \o t \in Seq(T) /\ Len(Append(s, y) \o t) = k + n
             /\ \A i \in 1 .. k + n : (Append(s, y) \o t)[i] =
                  IF i <= m THEN s[i] ELSE IF i = k THEN y ELSE t[i - k]
  <2> DEFINE b == Append(s, y)
  <2>1. b \in Seq(T) /\ Len(b) = k /\ b[k] = y /\ \A i \in 1 .. m : b[i] = s[i]
    OBVIOUS
  <2> HIDE DEF b
  <2>2. /\ b \o t \in Seq(T) /\ Len(b \o t) = Len(b) + n
        /\ \A i \in 1 .. Len(b) + n : (b \o t)[i] = IF i <= Len(b) THEN b[i] ELSE t[i - Len(b)]
    BY <2>1, ConcatProperties
  <2> HIDE DEF m, n
  <2>3. ASSUME NEW i \in 1 .. k + n
        PROVE  (b \o t)[i] = IF i <= m THEN s[i] ELSE IF i = k THEN y ELSE t[i - k]
    <3>1. (b \o t)[i] = IF i <= k THEN b[i] ELSE t[i - k]
      BY <2>1, <2>2
    <3>2. CASE i <= m
      <4>1. i \in 1 .. m /\ i <= k
        BY <1>1, <3>2
      <4>2. QED
        BY <2>1, <3>1, <3>2, <4>1
    <3>3. CASE i = k
      <4>1. ~(i <= m) /\ i <= k
        BY <1>1, <3>3
      <4>2. QED
        BY <2>1, <3>1, <3>3, <4>1
    <3>4. CASE ~(i <= m) /\ i # k
      <4>1. ~(i <= k)
        BY <1>1, <3>4
      <4>2. QED
        BY <3>1, <3>4, <4>1
    <3>5. QED
      BY <3>2, <3>3, <3>4
  <2>4. QED
    BY <2>1, <2>2, <2>3 DEF b
<1>3. /\ w \in Seq(T) /\ Len(w) = k + n
      /\ \A i \in 1 .. k + n : w[i] = IF i <= m THEN s[i] ELSE IF i = k THEN x ELSE t[i - k]
  BY <1>2
<1>4. /\ s \o t \in Seq(T) /\ Len(s \o t) = m + n
      /\ \A i \in 1 .. m + n : (s \o t)[i] = IF i <= m THEN s[i] ELSE t[i - m]
  BY ConcatProperties
<1> HIDE DEF w
<1>5. /\ SubSeq(w, 1, k - 1) = s /\ SubSeq(w, k + 1, Len(w)) = t
  <2> HIDE DEF m, n
  <2>1. SubSeq(w, 1, k - 1) = s
    <3> DEFINE u == SubSeq(w, 1, m)
    <3>1. \A i \in 1 .. m : w[i] = s[i] /\ w[i] \in T
      <4>1. \A i \in 1 .. m : i \in 1 .. k + n /\ i <= m
        BY <1>1
      <4>2. \A i \in 1 .. m : s[i] \in T
        BY DEF m
      <4>3. QED
        BY <1>3, <4>1, <4>2
    <3>2. /\ u \in Seq(T) /\ Len(u) = IF 1 <= m THEN m - 1 + 1 ELSE 0
          /\ \A i \in 1 .. m - 1 + 1 : u[i] = w[1 + i - 1]
      BY <1>1, <3>1, SubSeqProperties
    <3> HIDE DEF u
    <3>3. Len(u) = m
      BY <1>1, <3>2
    <3>4. \A i \in 1 .. m : u[i] = s[i]
      <4>1. \A i \in 1 .. m : i \in 1 .. m - 1 + 1 /\ 1 + i - 1 = i
        BY <1>1
      <4>2. QED
        BY <3>1, <3>2, <4>1
    <3>5. u = s
      BY <3>2, <3>3, <3>4, SeqEqual DEF m
    <3>6. k - 1 = m
      BY <1>1
    <3>7. QED
      BY <3>5, <3>6 DEF u
  <2>2. SubSeq(w, k + 1, Len(w)) = t
    <3> DEFINE u == SubSeq(w, k + 1, k + n)
    <3>1. \A i \in k + 1 .. k + n : w[i] = t[i - k] /\ w[i] \in T
      <4>1. \A i \in k + 1 .. k + n : i \in 1 .. k + n /\ ~(i <= m) /\ i # k /\ i - k \in 1 .. n
        BY <1>1
      <4>2. \A i \in 1 .. n : t[i] \in T
        BY DEF n
      <4>3. QED
        BY <1>3, <4>1, <4>2
    <3>2. k + 1 \in Int /\ k + n \in Int
      BY <1>1
    <3>3. /\ u \in Seq(T) /\ Len(u) = IF k + 1 <= k + n THEN (k + n) - (k + 1) + 1 ELSE 0
          /\ \A i \in 1 .. (k + n) - (k + 1) + 1 : u[i] = w[(k + 1) + i - 1]
      BY <3>1, <3>2, SubSeqProperties
    <3> HIDE DEF u
    <3>4. Len(u) = n
      BY <1>1, <3>3
    <3>5. \A i \in 1 .. n : u[i] = t[i]
      <4>1. \A i \in 1 .. n : /\ i \in 1 .. (k + n) - (k + 1) + 1
                              /\ (k + 1) + i - 1 = k + i
                              /\ k + i \in k + 1 .. k + n /\ (k + i) - k = i
        BY <1>1
      <4>2. QED
        BY <3>1, <3>3, <4>1
    <3>6. u = t
      BY <3>3, <3>4, <3>5, SeqEqual DEF n
    <3>7. QED
      BY <1>3, <3>6 DEF u
  <2>3. QED
    BY <2>1, <2>2
<1>6. RemoveAt(w, k) = s \o t
  BY <1>5 DEF RemoveAt
<1>7. k \in 1 .. k + n /\ ~(k <= m)
  BY <1>1
<1>8. DOMAIN w = 1 .. k + n
  BY <1>3
<1>9. ASSUME NEW y \in T PROVE [w EXCEPT ![k] = y] = Append(s, y) \o t
  <2> DEFINE z == Append(s, y) \o t
  <2>1. /\ z \in Seq(T) /\ Len(z) = k + n
        /\ \A i \in 1 .. k + n : z[i] = IF i <= m THEN s[i] ELSE IF i = k THEN y ELSE t[i - k]
    BY <1>2
  <2> HIDE DEF z
  <2>2. /\ [w EXCEPT ![k] = y] \in Seq(T) /\ Len([w EXCEPT ![k] = y]) = Len(w)
        /\ \A i \in 1 .. Len(w) : [w EXCEPT ![k] = y][i] = IF i = k THEN y ELSE w[i]
    <3>1. k \in 1 .. Len(w) /\ w \in Seq(T)
      BY <1>3, <1>7
    <3> HIDE DEF k
    <3>2. QED
      BY <3>1, ExceptSeq
  <2>3. \A i \in 1 .. k + n : [w EXCEPT ![k] = y][i] = z[i]
    <3> HIDE DEF m, n
    <3>1. QED
      BY <1>1, <1>3, <1>7, <2>1, <2>2
  <2>4. [w EXCEPT ![k] = y] = z
    BY <1>3, <2>1, <2>2, <2>3, SeqEqual
  <2>5. QED
    BY <2>4 DEF z
<1>10. QED
  BY <1>3, <1>6, <1>7, <1>8, <1>9 DEF w

\* Taking the element out again, or putting another in its place.
LEMMA TakeOut ==
  ASSUME NEW T, NEW s \in Seq(T), NEW t \in Seq(T), NEW x \in T
  PROVE  RemoveAt(Append(s, x) \o t, Len(s) + 1) = s \o t
BY PutIn, SMTT(30)

LEMMA PutOther ==
  ASSUME NEW T, NEW s \in Seq(T), NEW t \in Seq(T), NEW x \in T, NEW y \in T
  PROVE  [Append(s, x) \o t EXCEPT ![Len(s) + 1] = y] = Append(s, y) \o t
BY PutIn, SMTT(30)

LEMMA PutTyped ==
  ASSUME NEW T, NEW s \in Seq(T), NEW t \in Seq(T), NEW x \in T
  PROVE  /\ Append(s, x) \o t \in Seq(T)
         /\ Len(s) + 1 \in DOMAIN (Append(s, x) \o t)
         /\ (Append(s, x) \o t)[Len(s) + 1] = x
BY PutIn, SMTT(30)

\* A file cut in front of a line and behind it.
LEMMA CutAt ==
  ASSUME NEW T, NEW f \in Seq(T), NEW i \in 1 .. Len(f)
  PROVE  LET p == SubSeq(f, 1, i - 1)
             q == SubSeq(f, i + 1, Len(f))
         IN /\ p \in Seq(T) /\ q \in Seq(T) /\ Len(p) = i - 1
            /\ \A j \in 1 .. i - 1 : p[j] = f[j]
            /\ f = Append(p, f[i]) \o q
            /\ \A y : ReplaceAt(f, i, y) = Append(p, y) \o q
            /\ RemoveAt(f, i) = p \o q
            /\ \A y : InsertAfter(f, i, y) = Append(p, f[i]) \o (<<y>> \o q)
<1> DEFINE n == Len(f)
           p == SubSeq(f, 1, i - 1)
           q == SubSeq(f, i + 1, n)
<1>1. n \in Nat /\ i \in 1 .. n /\ \A j \in 1 .. n : f[j] \in T
  OBVIOUS
<1>2. p \in Seq(T) /\ Len(p) = i - 1 /\ \A j \in 1 .. i - 1 : p[j] = f[j]
  <2> HIDE DEF n
  <2>1. \A j \in 1 .. i - 1 : j \in 1 .. n /\ f[j] \in T
    BY <1>1
  <2>2. 1 \in Int /\ i - 1 \in Int
    BY <1>1
  <2>3. /\ p \in Seq(T) /\ Len(p) = IF 1 <= i - 1 THEN (i - 1) - 1 + 1 ELSE 0
        /\ \A j \in 1 .. (i - 1) - 1 + 1 : p[j] = f[1 + j - 1]
    BY <2>1, <2>2, SubSeqProperties
  <2> HIDE DEF p
  <2>4. \A j \in 1 .. i - 1 : j \in 1 .. (i - 1) - 1 + 1 /\ 1 + j - 1 = j
    BY <1>1
  <2>5. QED
    BY <1>1, <2>3, <2>4
<1>3. q \in Seq(T) /\ Len(q) = n - i /\ \A j \in 1 .. n - i : q[j] = f[i + j]
  <2> HIDE DEF n
  <2>1. \A j \in i + 1 .. n : j \in 1 .. n /\ f[j] \in T
    BY <1>1
  <2>2. i + 1 \in Int /\ n \in Int
    BY <1>1
  <2>3. /\ q \in Seq(T) /\ Len(q) = IF i + 1 <= n THEN n - (i + 1) + 1 ELSE 0
        /\ \A j \in 1 .. n - (i + 1) + 1 : q[j] = f[(i + 1) + j - 1]
    BY <2>1, <2>2, SubSeqProperties
  <2> HIDE DEF q
  <2>4. \A j \in 1 .. n - i : j \in 1 .. n - (i + 1) + 1 /\ (i + 1) + j - 1 = i + j
    BY <1>1
  <2>5. QED
    BY <1>1, <2>3, <2>4
<1>4. RemoveAt(f, i) = p \o q
  BY DEF RemoveAt
<1> HIDE DEF p, q
<1>5. ASSUME NEW y PROVE ReplaceAt(f, i, y) = Append(p, y) \o q
  <2> DEFINE U == T \union {y}
  <2>1. T \subseteq U /\ y \in U
    OBVIOUS
  <2> HIDE DEF U
  <2>2. p \in Seq(U) /\ q \in Seq(U) /\ f \in Seq(U)
    BY <1>2, <1>3, <2>1, SeqMonotonic
  <2> DEFINE b == Append(p, y)
             z == b \o q
             g == [f EXCEPT ![i] = y]
  <2>3. b \in Seq(U) /\ Len(b) = Len(p) + 1 /\ b[Len(p) + 1] = y /\ \A j \in 1 .. Len(p) : b[j] = p[j]
    BY <2>1, <2>2
  <2> HIDE DEF b
  <2>4. /\ z \in Seq(U) /\ Len(z) = Len(b) + Len(q)
        /\ \A j \in 1 .. Len(b) + Len(q) : z[j] = IF j <= Len(b) THEN b[j] ELSE q[j - Len(b)]
    BY <2>2, <2>3, ConcatProperties
  <2>5. /\ g \in Seq(U) /\ Len(g) = n
        /\ \A j \in 1 .. n : g[j] = IF j = i THEN y ELSE f[j]
    BY <2>1, <2>2, ExceptSeq
  <2> HIDE DEF z, g, n
  <2>6. Len(b) = i /\ b[i] = y /\ \A j \in 1 .. i - 1 : b[j] = f[j]
    BY <1>1, <1>2, <2>3
  <2>7. Len(z) = n
    BY <1>1, <1>3, <2>4, <2>6
  <2>8. ASSUME NEW j \in 1 .. n PROVE g[j] = z[j]
    <3>1. z[j] = IF j <= i THEN b[j] ELSE q[j - i]
      BY <1>1, <1>3, <2>4, <2>6
    <3>2. CASE j < i
      <4>1. j \in 1 .. i - 1 /\ j <= i /\ j # i
        BY <1>1, <3>2
      <4>2. QED
        BY <2>5, <2>6, <3>1, <4>1
    <3>3. CASE j = i
      BY <1>1, <2>5, <2>6, <3>1, <3>3
    <3>4. CASE j > i
      <4>1. j - i \in 1 .. n - i /\ i + (j - i) = j /\ ~(j <= i) /\ j # i
        BY <1>1, <3>4
      <4>2. q[j - i] = f[j]
        BY <1>3, <4>1
      <4>3. QED
        BY <2>5, <3>1, <4>1, <4>2
    <3>5. QED
      BY <1>1, <3>2, <3>3, <3>4
  <2>9. g = z
    BY <2>4, <2>5, <2>7, <2>8, SeqEqual
  <2>10. QED
    BY <2>9 DEF g, z, b, ReplaceAt
<1>6. f = Append(p, f[i]) \o q
  <2>1. ReplaceAt(f, i, f[i]) = f
    BY DEF ReplaceAt
  <2>2. QED
    BY <1>5, <2>1
<1>7. ASSUME NEW y PROVE InsertAfter(f, i, y) = Append(p, f[i]) \o (<<y>> \o q)
  <2> DEFINE U == T \union {y}
             b == Append(p, f[i])
  <2>1. T \subseteq U /\ y \in U
    OBVIOUS
  <2> HIDE DEF U
  <2>2. b \in Seq(T) /\ Len(b) = i
    <3>1. f[i] \in T
      BY <1>1
    <3>2. b \in Seq(T) /\ Len(b) = (i - 1) + 1
      BY <1>2, <3>1, AppendProperties
    <3>3. QED
      BY <1>1, <3>2
  <2>3. b \in Seq(U) /\ q \in Seq(U) /\ <<y>> \in Seq(U)
    <3>1. \A u \in U : <<u>> \in Seq(U)
      OBVIOUS
    <3>2. QED
      BY <1>3, <2>1, <2>2, <3>1, SeqMonotonic
  <2>4. SubSeq(f, 1, i) = b
    <3> DEFINE s == SubSeq(f, 1, i)
    <3> HIDE DEF n
    <3>1. \A j \in 1 .. i : j \in 1 .. n /\ f[j] \in T
      BY <1>1
    <3>2. 1 \in Int /\ i \in Int
      BY <1>1
    <3>3. /\ s \in Seq(T) /\ Len(s) = IF 1 <= i THEN i - 1 + 1 ELSE 0
          /\ \A j \in 1 .. i - 1 + 1 : s[j] = f[1 + j - 1]
      BY <3>1, <3>2, SubSeqProperties
    <3>4. b[i] = f[i] /\ \A j \in 1 .. i - 1 : b[j] = f[j]
      <4>1. f[i] \in T
        BY <1>1
      <4>2. b[Len(p) + 1] = f[i] /\ \A j \in 1 .. Len(p) : b[j] = p[j]
        BY <1>2, <4>1, AppendProperties
      <4>3. Len(p) + 1 = i
        BY <1>1, <1>2
      <4>4. QED
        BY <1>2, <4>2, <4>3
    <3> HIDE DEF s, b
    <3>5. Len(s) = i /\ \A j \in 1 .. i : s[j] = b[j]
      <4>1. Len(s) = i
        BY <1>1, <3>3
      <4>2. \A j \in 1 .. i : j \in 1 .. i - 1 + 1 /\ 1 + j - 1 = j /\ (j \in 1 .. i - 1 \/ j = i)
        BY <1>1
      <4>3. QED
        BY <3>3, <3>4, <4>1, <4>2
    <3>6. s = b
      BY <2>2, <3>3, <3>5, SeqEqual
    <3>7. QED
      BY <3>6 DEF s
  <2>5. ~(i > n) /\ (i + 1) - 1 = i
    BY <1>1
  <2>6. InsertAfter(f, i, y) = SubSeq(f, 1, i) \o <<y>> \o SubSeq(f, i + 1, Len(f))
    BY <2>5 DEF InsertAfter, InsertAt, n
  <2>7. InsertAfter(f, i, y) = (b \o <<y>>) \o q
    BY <2>4, <2>6 DEF q, n
  <2> HIDE DEF b
  <2>8. (b \o <<y>>) \o q = b \o (<<y>> \o q)
    BY <2>3, ConcatAssociative
  <2>9. QED
    BY <2>7, <2>8 DEF b
<1>8. QED
  BY <1>2, <1>3, <1>4, <1>5, <1>6, <1>7 DEF p, q, n

-----------------------------------------------------------------------------
\* A section between those before and behind it.
Placed(z, ss, a, u, ts) ==
  [stray |-> z, sections |-> Append(ss, [actions |-> a, urls |-> u]) \o ts]

\* What RuleList puts in a section.
WithUrls(r, k, v) == [r EXCEPT !.sections[k].urls = v]
WithActions(r, k, a) == [r EXCEPT !.sections[k].actions = a]

LEMMA InSection ==
  ASSUME NEW r \in OutlineType, NEW k \in DOMAIN r.sections
  PROVE  LET x == r.sections[k]
         IN /\ x \in SectionType
            /\ \A v : WithUrls(r, k, v) =
                        [stray |-> r.stray,
                         sections |-> [r.sections EXCEPT ![k] = [actions |-> x.actions, urls |-> v]]]
            /\ \A v : WithActions(r, k, v) =
                        [stray |-> r.stray,
                         sections |-> [r.sections EXCEPT ![k] = [actions |-> v, urls |-> x.urls]]]
<1> DEFINE ss == r.sections
           x == ss[k]
<1>1. r = [stray |-> r.stray, sections |-> ss] /\ ss \in Seq(SectionType)
  BY OutlineParts
<1>2. x \in SectionType
  <2>1. \A zz \in Seq(SectionType) : \A i \in DOMAIN zz : zz[i] \in SectionType
    OBVIOUS
  <2>2. QED
    BY <1>1, <2>1
<1> HIDE DEF ss
<1>3. \A v : [r EXCEPT !.sections = v] = [stray |-> r.stray, sections |-> v]
  BY <1>1
<1>4. ASSUME NEW v
      PROVE  [r EXCEPT !.sections[k].urls = v] =
               [stray |-> r.stray, sections |-> [ss EXCEPT ![k] = [actions |-> x.actions, urls |-> v]]]
  <2>1. [x EXCEPT !.urls = v] = [actions |-> x.actions, urls |-> v]
    BY <1>2, SectionExcept
  <2>2. [r EXCEPT !.sections[k].urls = v] = [r EXCEPT !.sections = [ss EXCEPT ![k] = [x EXCEPT !.urls = v]]]
    BY DEF ss
  <2>3. QED
    BY <1>3, <2>1, <2>2
<1>5. ASSUME NEW v
      PROVE  [r EXCEPT !.sections[k].actions = v] =
               [stray |-> r.stray, sections |-> [ss EXCEPT ![k] = [actions |-> v, urls |-> x.urls]]]
  <2>1. [x EXCEPT !.actions = v] = [actions |-> v, urls |-> x.urls]
    BY <1>2, SectionExcept
  <2>2. [r EXCEPT !.sections[k].actions = v]
          = [r EXCEPT !.sections = [ss EXCEPT ![k] = [x EXCEPT !.actions = v]]]
    BY DEF ss
  <2>3. QED
    BY <1>3, <2>1, <2>2
<1>6. QED
  BY <1>2, <1>4, <1>5 DEF ss, WithUrls, WithActions

\* A pattern in front of a file without a header comes before what strays there.
LEMMA FrontUrl ==
  ASSUME NEW q \in Seq(Lines), NEW t \in Patterns
  PROVE  /\ <<Url(t)>> \o q \in Seq(Lines)
         /\ Outline(<<Url(t)>> \o q) = [stray |-> <<t>> \o Outline(q).stray,
                                        sections |-> Outline(q).sections]
<1> DEFINE l == Url(t)
           o == Outline(q)
<1>1. l \in Lines /\ l.kind = "url" /\ l.text = t
  BY DEF Lines, Url
<1> HIDE DEF l
<1>2. <<l>> = Append(<<>>, l) /\ <<>> \in Seq(Lines) /\ <<l>> \in Seq(Lines)
  BY <1>1
<1>3. Outline(<<l>>) = Read(NoRules, l) /\ NoRules \in OutlineType
  BY <1>1, <1>2, OutlineSteps
<1>4. NoRules.sections = <<>> /\ NoRules.stray = <<>>
  BY DEF NoRules
<1>5. Outline(<<l>>) = [stray |-> <<t>>, sections |-> <<>>]
  <2>1. Read(NoRules, l) = [stray |-> Append(<<>>, t), sections |-> <<>>]
    BY <1>1, <1>3, <1>4, ReadCases
  <2>2. Append(<<>>, t) = <<t>>
    OBVIOUS
  <2>3. QED
    BY <1>3, <2>1, <2>2
<1>6. Outline(<<l>> \o q) = Join(Outline(<<l>>), o)
  BY <1>2, OutlineConcat
<1> HIDE DEF o
<1>7. Join(Outline(<<l>>), o) = [stray |-> <<t>> \o o.stray, sections |-> o.sections]
  <2> DEFINE c == Outline(<<l>>)
  <2>1. c.sections = <<>> /\ c.stray = <<t>>
    BY <1>5
  <2> HIDE DEF c
  <2>2. Join(c, o) = [stray |-> c.stray \o o.stray, sections |-> o.sections]
    BY <2>1 DEF Join
  <2>3. QED
    BY <2>1, <2>2 DEF c
<1>8. <<l>> \o q \in Seq(Lines)
  BY <1>2, ConcatProperties
<1>9. QED
  BY <1>6, <1>7, <1>8 DEF l, o

\* A header of a file, and the section it starts.
LEMMA HeaderOf ==
  ASSUME NEW f \in Seq(Lines), NEW i \in Of(f, "header")
  PROVE  LET p == SubSeq(f, 1, i - 1)
             q == SubSeq(f, i + 1, Len(f))
             x == [actions |-> f[i].text, urls |-> Outline(q).stray]
         IN /\ i \in 1 .. Len(f) /\ f[i].text \in Actions /\ f[i] = Header(f[i].text)
            /\ p \in Seq(Lines) /\ q \in Seq(Lines) /\ x \in SectionType
            /\ Outline(p) \in OutlineType /\ Outline(q) \in OutlineType
            /\ Outline(f) = Placed(Outline(p).stray, Outline(p).sections,
                                   f[i].text, Outline(q).stray, Outline(q).sections)
<1> DEFINE p == SubSeq(f, 1, i - 1)
           q == SubSeq(f, i + 1, Len(f))
           x == [actions |-> f[i].text, urls |-> Outline(q).stray]
<1>1. i \in 1 .. Len(f) /\ f[i].kind = "header"
  BY DEF Of
<1>2. f[i] \in Lines
  BY <1>1
<1>3. f[i].text \in Actions /\ f[i] = Header(f[i].text)
  BY <1>1, <1>2, LineKinds
<1>4. p \in Seq(Lines) /\ q \in Seq(Lines) /\ f = Append(p, f[i]) \o q
  BY <1>1, CutAt
<1> HIDE DEF p, q
<1>5. Outline(p) \in OutlineType /\ Outline(q) \in OutlineType
  BY <1>4, OutlineSteps
<1>6. x \in SectionType
  <2>1. Outline(q).stray \in Seq(Patterns)
    BY <1>5, OutlineParts
  <2>2. QED
    BY <1>3, <2>1 DEF SectionType
<1> DEFINE a == f[i].text
<1>7. Outline(Append(p, Header(a)) \o q) = [stray |-> Outline(p).stray,
                     sections |-> Append(Outline(p).sections, x) \o Outline(q).sections]
  <2>1. a \in Actions
    BY <1>3
  <2> HIDE DEF a
  <2>2. QED
    BY <1>4, <2>1, HeaderAt DEF a
<1>8. Outline(f) = Outline(Append(p, Header(a)) \o q)
  BY <1>3, <1>4
<1>9. QED
  BY <1>1, <1>3, <1>4, <1>5, <1>6, <1>7, <1>8 DEF p, q, a, Placed

\* The section between others, with other patterns or actions.
Spot(r, k, z, ss, a, u, ts) ==
  /\ k \in DOMAIN r.sections /\ k = Len(ss) + 1
  /\ r.sections[k] = [actions |-> a, urls |-> u]
  /\ \A v \in Seq(Patterns) : WithUrls(r, k, v) = Placed(z, ss, a, v, ts)
  /\ \A b \in Actions : WithActions(r, k, b) = Placed(z, ss, b, u, ts)

LEMMA PutSection ==
  ASSUME NEW z \in Seq(Patterns), NEW ss \in Seq(SectionType), NEW ts \in Seq(SectionType),
         NEW a \in Actions, NEW u \in Seq(Patterns), NEW r,
         r = Placed(z, ss, a, u, ts)
  PROVE  Spot(r, Len(ss) + 1, z, ss, a, u, ts)
<1> DEFINE x == [actions |-> a, urls |-> u]
           w == Append(ss, x) \o ts
           k == Len(ss) + 1
<1>1. x \in SectionType /\ x.actions = a /\ x.urls = u
  BY DEF SectionType
<1> HIDE DEF x
<1>2. /\ w \in Seq(SectionType) /\ k \in DOMAIN w /\ w[k] = x
      /\ \A y \in SectionType : [w EXCEPT ![k] = y] = Append(ss, y) \o ts
  BY <1>1, PutIn
<1> HIDE DEF w, k
<1>3. r \in OutlineType /\ r.stray = z /\ r.sections = w
  BY <1>2 DEF OutlineType, w, x, Placed
<1>4. /\ \A v : WithUrls(r, k, v) =
                  [stray |-> r.stray,
                   sections |-> [r.sections EXCEPT ![k] = [actions |-> r.sections[k].actions, urls |-> v]]]
      /\ \A v : WithActions(r, k, v) =
                  [stray |-> r.stray,
                   sections |-> [r.sections EXCEPT ![k] = [actions |-> v, urls |-> r.sections[k].urls]]]
  BY <1>2, <1>3, InSection
<1>5. ASSUME NEW v \in Seq(Patterns)
      PROVE  WithUrls(r, k, v) = Placed(z, ss, a, v, ts)
  <2> DEFINE y == [actions |-> a, urls |-> v]
  <2>1. y \in SectionType
    BY DEF SectionType
  <2>2. r.sections[k].actions = a /\ r.sections[k].urls = u
    BY <1>1, <1>2, <1>3
  <2>3. WithUrls(r, k, v)
          = [stray |-> r.stray, sections |-> [r.sections EXCEPT ![k] = [actions |-> r.sections[k].actions, urls |-> v]]]
    BY <1>4
  <2>4. WithUrls(r, k, v) = [stray |-> z, sections |-> [w EXCEPT ![k] = y]]
    BY <1>3, <2>2, <2>3
  <2> HIDE DEF y
  <2>5. QED
    BY <1>2, <2>1, <2>4 DEF y, Placed
<1>6. ASSUME NEW b \in Actions
      PROVE  WithActions(r, k, b) = Placed(z, ss, b, u, ts)
  <2> DEFINE y == [actions |-> b, urls |-> u]
  <2>1. y \in SectionType
    BY DEF SectionType
  <2>2. r.sections[k].actions = a /\ r.sections[k].urls = u
    BY <1>1, <1>2, <1>3
  <2>3. WithActions(r, k, b)
          = [stray |-> r.stray, sections |-> [r.sections EXCEPT ![k] = [actions |-> b, urls |-> r.sections[k].urls]]]
    BY <1>4
  <2>4. WithActions(r, k, b) = [stray |-> z, sections |-> [w EXCEPT ![k] = y]]
    BY <1>3, <2>2, <2>3
  <2> HIDE DEF y
  <2>5. QED
    BY <1>2, <2>1, <2>4 DEF y, Placed
<1>7. k \in DOMAIN r.sections /\ r.sections[k] = x
  BY <1>2, <1>3
<1>8. r.sections[k] = [actions |-> a, urls |-> u]
  BY <1>7 DEF x
<1>9. k = Len(ss) + 1
  BY DEF k
<1>10. QED
  BY <1>5, <1>6, <1>7, <1>8, <1>9 DEF Spot, k

\* add_url: the pattern comes first in the section whose header it is asked for.
LEMMA AddsUrl ==
  ASSUME NEW f \in Seq(Lines), NEW i \in Of(f, "header"), NEW t \in Patterns
  PROVE  Promise!AddUrl(Outline(f), Outline(InsertAfter(f, i, Url(t))))
<1> DEFINE p == SubSeq(f, 1, i - 1)
           q == SubSeq(f, i + 1, Len(f))
           a == f[i].text
           g == <<Url(t)>> \o q
           z == Outline(p).stray
           ss == Outline(p).sections
           ts == Outline(q).sections
           u == Outline(q).stray
           v == <<t>> \o u
           r == Outline(f)
           n == Outline(InsertAfter(f, i, Url(t)))
<1>1. /\ i \in 1 .. Len(f) /\ a \in Actions /\ f[i] = Header(a)
      /\ p \in Seq(Lines) /\ q \in Seq(Lines)
      /\ Outline(p) \in OutlineType /\ Outline(q) \in OutlineType
      /\ r = Placed(z, ss, a, u, ts)
  BY HeaderOf
<1>2. InsertAfter(f, i, Url(t)) = Append(p, f[i]) \o g
  BY <1>1, CutAt
<1> HIDE DEF p, q, a
<1>3. g \in Seq(Lines) /\ Outline(g) = [stray |-> v, sections |-> ts]
  BY <1>1, FrontUrl
<1> HIDE DEF g
<1>4. n = Placed(z, ss, a, v, ts)
  <2>1. Outline(Append(p, Header(a)) \o g)
          = [stray |-> Outline(p).stray,
             sections |-> Append(Outline(p).sections, [actions |-> a, urls |-> Outline(g).stray])
                            \o Outline(g).sections]
    BY <1>1, <1>3, HeaderAt
  <2>2. Outline(g).stray = v /\ Outline(g).sections = ts
    BY <1>3
  <2>3. QED
    BY <1>1, <1>2, <2>1, <2>2 DEF Placed
<1>5. z \in Seq(Patterns) /\ ss \in Seq(SectionType) /\ ts \in Seq(SectionType) /\ u \in Seq(Patterns)
  BY <1>1, OutlineParts
<1> HIDE DEF u
<1>6. v \in Seq(Patterns)
  <2>1. <<t>> \in Seq(Patterns)
    OBVIOUS
  <2>2. QED
    BY <1>5, <2>1, ConcatProperties
<1> HIDE DEF z, ss, ts, n, v, r
<1> DEFINE k == Len(ss) + 1
<1>7. Spot(r, k, z, ss, a, u, ts)
  BY <1>1, <1>5, PutSection
<1> HIDE DEF k
<1>8. /\ k \in DOMAIN r.sections /\ r.sections[k].urls = u
      /\ WithUrls(r, k, v) = Placed(z, ss, a, v, ts)
  BY <1>6, <1>7 DEF Spot
<1>9. n = [r EXCEPT !.sections[k].urls = <<t>> \o @]
  BY <1>4, <1>8 DEF v, WithUrls
<1>10. Promise!AddUrl(r, n)
  BY <1>8, <1>9 DEF Promise!AddUrl
<1>11. QED
  BY <1>10 DEF r, n

\* add_section, which the page asks for behind the last line.
LEMMA AddsSection ==
  ASSUME NEW f \in Seq(Lines), NEW a \in Actions
  PROVE  Promise!AddSection(Outline(f), Outline(InsertAfter(f, Len(f) + 1, Header(a))))
<1> DEFINE l == Header(a)
           r == Outline(f)
           x == [actions |-> a, urls |-> <<>>]
<1>1. l \in Lines /\ l.kind = "header" /\ l.text = a
  BY DEF Lines, Header
<1> HIDE DEF l
<1>2. InsertAfter(f, Len(f) + 1, l) = Append(f, l)
  BY DEF InsertAfter
<1>3. Outline(Append(f, l)) = Read(r, l) /\ r \in OutlineType
  BY <1>1, OutlineSteps
<1>4. r = [stray |-> r.stray, sections |-> r.sections]
  BY <1>3, OutlineParts
<1>5. Read(r, l) = [stray |-> r.stray, sections |-> Append(r.sections, x)]
  BY <1>1, <1>3, ReadCases
<1>6. [r EXCEPT !.sections = Append(@, x)] = [stray |-> r.stray, sections |-> Append(r.sections, x)]
  <2> DEFINE ss == r.sections
  <2>1. r = [stray |-> r.stray, sections |-> ss]
    BY <1>4
  <2> HIDE DEF r, ss
  <2>2. \A v : [r EXCEPT !.sections = v] = [stray |-> r.stray, sections |-> v]
    BY <2>1
  <2>3. QED
    BY <2>2
<1>7. QED
  BY <1>2, <1>3, <1>5, <1>6 DEF Promise!AddSection, r, l

-----------------------------------------------------------------------------
\* A row that is not empty has a last element.
LEMMA LastOf ==
  ASSUME NEW T, NEW s \in Seq(T), s # <<>>
  PROVE  \E b \in Seq(T), x \in T : s = Append(b, x)
<1> DEFINE b == SubSeq(s, 1, Len(s) - 1)
           x == s[Len(s)]
<1>1. Len(s) \in 1 .. Len(s)
  BY EmptySeq, LenProperties
<1>2. b \in Seq(T) /\ s = Append(b, x) \o SubSeq(s, Len(s) + 1, Len(s))
  BY <1>1, CutAt
<1>3. SubSeq(s, Len(s) + 1, Len(s)) = <<>>
  BY <1>1, SubSeqEmpty
<1>4. x \in T
  BY <1>1
<1> HIDE DEF b, x
<1>5. Append(b, x) \in Seq(T)
  BY <1>2, <1>4
<1>6. s = Append(b, x)
  BY <1>2, <1>3, <1>5, ConcatEmptySeq
<1>7. QED
  BY <1>2, <1>4, <1>6

\* A pattern of a file, the section it belongs to, and that section with another
\* pattern in its place, and without it.
PatternIn(f, i, z, ss, ts, a, c, u) ==
  /\ Outline(f) = Placed(z, ss, a, Append(c, f[i].text) \o u, ts)
  /\ \A t \in Patterns :
       Outline(ReplaceAt(f, i, Url(t))) = Placed(z, ss, a, Append(c, t) \o u, ts)
  /\ Outline(RemoveAt(f, i)) = Placed(z, ss, a, c \o u, ts)
  /\ Outline(Whole(ReplaceAt(f, i, Url("")))) = Placed(z, ss, a, c \o u, ts)

LEMMA UrlOf ==
  ASSUME NEW f \in Seq(Lines), Parses(f), NEW i \in Of(f, "url")
  PROVE  \E z \in Seq(Patterns), ss \in Seq(SectionType), ts \in Seq(SectionType), a \in Actions,
            c \in Seq(Patterns), u \in Seq(Patterns) : PatternIn(f, i, z, ss, ts, a, c, u)
<1> DEFINE p == SubSeq(f, 1, i - 1)
           q == SubSeq(f, i + 1, Len(f))
           z == Outline(p).stray
           ps == Outline(p).sections
           ts == Outline(q).sections
           u == Outline(q).stray
<1>1. i \in 1 .. Len(f) /\ f[i].kind = "url" /\ f[i] \in Lines
  BY DEF Of
<1>2. f[i].text \in Patterns /\ f[i] = Url(f[i].text)
  BY <1>1, LineKinds
<1>3. /\ p \in Seq(Lines) /\ q \in Seq(Lines) /\ Len(p) = i - 1
      /\ \A j \in 1 .. i - 1 : p[j] = f[j]
      /\ f = Append(p, f[i]) \o q
      /\ \A y : ReplaceAt(f, i, y) = Append(p, y) \o q
      /\ RemoveAt(f, i) = p \o q
  BY <1>1, CutAt
<1> HIDE DEF p, q
<1>4. /\ z \in Seq(Patterns) /\ ps \in Seq(SectionType)
      /\ ts \in Seq(SectionType) /\ u \in Seq(Patterns)
  BY <1>3, OutlineSteps, OutlineParts
<1>5. ps # <<>>
  <2>1. PICK h \in 1 .. i - 1 : f[h].kind = "header"
    BY <1>1 DEF Parses
  <2>2. h \in DOMAIN p /\ p[h].kind = "header"
    BY <1>1, <1>3, <2>1
  <2>3. QED
    BY <1>3, <2>2, Sectioned
<1> HIDE DEF z, ps, ts, u
<1>6. PICK ss \in Seq(SectionType), x \in SectionType : ps = Append(ss, x)
  BY <1>4, <1>5, LastOf
<1> DEFINE a == x.actions
           c == x.urls
<1>7. a \in Actions /\ c \in Seq(Patterns)
  BY DEF SectionType
<1>8. Outline(p).sections = Append(ss, x)
  BY <1>6 DEF ps
<1> HIDE DEF a, c
<1>9. ASSUME NEW t \in Patterns
      PROVE  Outline(Append(p, Url(t)) \o q) = Placed(z, ss, a, Append(c, t) \o u, ts)
  <2>1. Outline(Append(p, Url(t)) \o q) =
          [stray |-> Outline(p).stray,
           sections |-> Append(ss, [actions |-> x.actions,
                                    urls |-> (x.urls \o <<t>>) \o Outline(q).stray])
                          \o Outline(q).sections]
    BY <1>3, <1>8, UrlAt
  <2>2. c \o <<t>> = Append(c, t)
    BY <1>7, AppendIsConcat
  <2>3. QED
    BY <2>1, <2>2 DEF Placed, z, ts, u, a, c
<1>10. Outline(p \o q) = Placed(z, ss, a, c \o u, ts)
  <2>1. Outline(p \o q) =
          [stray |-> Outline(p).stray,
           sections |-> Append(ss, [actions |-> x.actions, urls |-> x.urls \o Outline(q).stray])
                          \o Outline(q).sections]
    BY <1>3, <1>8, UrlAt
  <2>2. QED
    BY <2>1 DEF Placed, z, ts, u, a, c
<1>11. Outline(Whole(ReplaceAt(f, i, Url("")))) = Outline(p \o q)
  BY <1>3, WholeGap
<1>12. Outline(f) = Placed(z, ss, a, Append(c, f[i].text) \o u, ts)
  <2>1. f = Append(p, Url(f[i].text)) \o q
    BY <1>2, <1>3
  <2> DEFINE t == f[i].text
  <2>2. t \in Patterns /\ f = Append(p, Url(t)) \o q
    BY <1>2, <2>1
  <2> HIDE DEF t
  <2>3. Outline(f) = Placed(z, ss, a, Append(c, t) \o u, ts)
    BY <1>9, <2>2
  <2>4. QED
    BY <2>3 DEF t
<1>13. PatternIn(f, i, z, ss, ts, a, c, u)
  BY <1>3, <1>9, <1>10, <1>11, <1>12 DEF PatternIn
<1>14. QED
  BY <1>4, <1>7, <1>13

\* edit_url, and remove_url as the page offers both.
LEMMA EditsUrl ==
  ASSUME NEW f \in Seq(Lines), Parses(f), NEW i \in Of(f, "url")
  PROVE  /\ \A t \in Patterns : Promise!EditUrl(Outline(f), Outline(ReplaceAt(f, i, Url(t))))
         /\ Promise!RemoveUrl(Outline(f), Outline(RemoveAt(f, i)))
         /\ Promise!RemoveUrl(Outline(f), Outline(Whole(ReplaceAt(f, i, Url("")))))
<1>1. PICK z \in Seq(Patterns), ss \in Seq(SectionType), ts \in Seq(SectionType), a \in Actions,
           c \in Seq(Patterns), u \in Seq(Patterns) : PatternIn(f, i, z, ss, ts, a, c, u)
  BY UrlOf
<1> DEFINE b == f[i].text
           v == Append(c, b) \o u
           r == Outline(f)
           k == Len(ss) + 1
           m == Len(c) + 1
<1>2. b \in Patterns
  <2>1. f[i] \in Lines /\ f[i].kind = "url"
    BY DEF Of
  <2>2. QED
    BY <2>1, LineKinds
<1> HIDE DEF b
<1>3. /\ v \in Seq(Patterns) /\ m \in DOMAIN v
      /\ \A t \in Patterns : [v EXCEPT ![m] = t] = Append(c, t) \o u
      /\ RemoveAt(v, m) = c \o u
  <2>1. \A y \in Patterns : [v EXCEPT ![m] = y] = Append(c, y) \o u
    BY <1>2, PutOther
  <2>2. v \in Seq(Patterns) /\ m \in DOMAIN v
    BY <1>2, PutTyped
  <2>3. RemoveAt(v, m) = c \o u
    BY <1>2, TakeOut
  <2>4. QED
    BY <2>1, <2>2, <2>3
<1>4. c \o u \in Seq(Patterns)
  BY ConcatProperties
<1>5. \A t \in Patterns : Append(c, t) \o u \in Seq(Patterns)
  <2>1. \A t \in Patterns : Append(c, t) \in Seq(Patterns)
    OBVIOUS
  <2>2. QED
    BY <2>1, ConcatProperties
<1> HIDE DEF v, m
<1>6. r = Placed(z, ss, a, v, ts)
  BY <1>1 DEF PatternIn, v, b
<1> HIDE DEF r
<1>7. Spot(r, k, z, ss, a, v, ts)
  BY <1>3, <1>6, PutSection
<1> HIDE DEF k
<1>8. k \in DOMAIN r.sections /\ r.sections[k].urls = v
  BY <1>7 DEF Spot
<1>9. ASSUME NEW t \in Patterns
      PROVE  Promise!EditUrl(r, Outline(ReplaceAt(f, i, Url(t))))
  <2> DEFINE n == Outline(ReplaceAt(f, i, Url(t)))
  <2>1. n = Placed(z, ss, a, [v EXCEPT ![m] = t], ts)
    BY <1>1, <1>3 DEF PatternIn
  <2>2. [v EXCEPT ![m] = t] \in Seq(Patterns)
    BY <1>3, <1>5
  <2>3. n = WithUrls(r, k, [v EXCEPT ![m] = t])
    BY <1>7, <2>1, <2>2 DEF Spot
  <2> HIDE DEF n
  <2>4. n = [r EXCEPT !.sections[k].urls[m] = t]
    BY <1>8, <2>3 DEF WithUrls
  <2>5. Promise!EditUrl(r, n)
    BY <1>3, <1>8, <2>4 DEF Promise!EditUrl
  <2>6. QED
    BY <2>5 DEF n
<1>10. ASSUME NEW n, n = Placed(z, ss, a, c \o u, ts)
       PROVE  Promise!RemoveUrl(r, n)
  <2>1. n = WithUrls(r, k, RemoveAt(v, m))
    BY <1>3, <1>4, <1>7, <1>10 DEF Spot
  <2>2. n = [r EXCEPT !.sections[k].urls = RemoveAt(@, m)]
    BY <1>8, <2>1 DEF WithUrls
  <2>3. QED
    BY <1>3, <1>8, <2>2 DEF Promise!RemoveUrl, Promise!RemoveAt, RemoveAt
<1>11. QED
  BY <1>1, <1>9, <1>10 DEF PatternIn, r

\* A header of a file, and its section under another header.
HeaderIn(f, i, z, ss, u, ts) ==
  /\ Outline(f) = Placed(z, ss, f[i].text, u, ts)
  /\ \A b \in Actions : Outline(ReplaceAt(f, i, Header(b))) = Placed(z, ss, b, u, ts)

LEMMA HeaderChange ==
  ASSUME NEW f \in Seq(Lines), NEW i \in Of(f, "header")
  PROVE  \E z \in Seq(Patterns), ss \in Seq(SectionType), u \in Seq(Patterns),
            ts \in Seq(SectionType) : HeaderIn(f, i, z, ss, u, ts)
<1> DEFINE p == SubSeq(f, 1, i - 1)
           q == SubSeq(f, i + 1, Len(f))
           z == Outline(p).stray
           ss == Outline(p).sections
           ts == Outline(q).sections
           u == Outline(q).stray
<1>1. /\ i \in 1 .. Len(f) /\ p \in Seq(Lines) /\ q \in Seq(Lines)
      /\ Outline(p) \in OutlineType /\ Outline(q) \in OutlineType
      /\ Outline(f) = Placed(z, ss, f[i].text, u, ts)
  BY HeaderOf
<1>2. \A y : ReplaceAt(f, i, y) = Append(p, y) \o q
  BY <1>1, CutAt
<1> HIDE DEF p, q
<1>3. ASSUME NEW b \in Actions
      PROVE  Outline(ReplaceAt(f, i, Header(b))) = Placed(z, ss, b, u, ts)
  <2>1. Outline(Append(p, Header(b)) \o q) =
          [stray |-> Outline(p).stray,
           sections |-> Append(Outline(p).sections, [actions |-> b, urls |-> Outline(q).stray])
                          \o Outline(q).sections]
    BY <1>1, HeaderAt
  <2>2. ReplaceAt(f, i, Header(b)) = Append(p, Header(b)) \o q
    BY <1>2
  <2>3. QED
    BY <2>1, <2>2 DEF Placed
<1>4. z \in Seq(Patterns) /\ ss \in Seq(SectionType) /\ ts \in Seq(SectionType) /\ u \in Seq(Patterns)
  BY <1>1, OutlineParts
<1> HIDE DEF z, ss, ts, u
<1>5. HeaderIn(f, i, z, ss, u, ts)
  BY <1>1, <1>3 DEF HeaderIn
<1>6. QED
  BY <1>4, <1>5

LEMMA HeaderText ==
  ASSUME NEW f \in Seq(Lines), NEW i \in Of(f, "header")
  PROVE  /\ i \in 1 .. Len(f) /\ f[i] = Header(f[i].text)
         /\ f[i].text \in Actions /\ f[i] \in Lines
<1>1. i \in 1 .. Len(f) /\ f[i] \in Lines /\ f[i].kind = "header"
  BY DEF Of
<1>2. QED
  BY <1>1, LineKinds

\* edit-actions-submit.
LEMMA ChangesActions ==
  ASSUME NEW f \in Seq(Lines), NEW i \in Of(f, "header"), NEW b \in Actions
  PROVE  Promise!ChangeActions(Outline(f), Outline(ReplaceAt(f, i, Header(b))))
<1>1. PICK z \in Seq(Patterns), ss \in Seq(SectionType), u \in Seq(Patterns),
           ts \in Seq(SectionType) : HeaderIn(f, i, z, ss, u, ts)
  BY HeaderChange
<1> DEFINE a == f[i].text
           r == Outline(f)
           n == Outline(ReplaceAt(f, i, Header(b)))
           k == Len(ss) + 1
<1>2. a \in Actions
  BY HeaderText
<1>3. r = Placed(z, ss, a, u, ts) /\ n = Placed(z, ss, b, u, ts)
  BY <1>1 DEF HeaderIn
<1> HIDE DEF a, r, n
<1>4. Spot(r, k, z, ss, a, u, ts)
  BY <1>2, <1>3, PutSection
<1> HIDE DEF k
<1>5. k \in DOMAIN r.sections /\ n = WithActions(r, k, b)
  BY <1>3, <1>4 DEF Spot
<1>6. n = [r EXCEPT !.sections[k].actions = b]
  BY <1>5 DEF WithActions
<1>7. QED
  BY <1>5, <1>6 DEF Promise!ChangeActions, r, n

\* remove_section: what is behind the header falls to the section before it.
LEMMA RemovesHeader ==
  ASSUME NEW f \in Seq(Lines), Parses(f), NEW i \in Of(f, "header")
  PROVE  Promise!RemoveHeader(Outline(f), Outline(RemoveAt(f, i)))
<1> DEFINE p == SubSeq(f, 1, i - 1)
           q == SubSeq(f, i + 1, Len(f))
           a == f[i].text
           z == Outline(p).stray
           ss == Outline(p).sections
           ts == Outline(q).sections
           u == Outline(q).stray
           r == Outline(f)
           n == Outline(RemoveAt(f, i))
           k == Len(ss) + 1
<1>1. /\ i \in 1 .. Len(f) /\ a \in Actions
      /\ p \in Seq(Lines) /\ q \in Seq(Lines)
      /\ Outline(p) \in OutlineType /\ Outline(q) \in OutlineType
      /\ r = Placed(z, ss, a, u, ts)
  BY HeaderOf
<1>2. RemoveAt(f, i) = p \o q
  BY <1>1, CutAt
<1> HIDE DEF p, q, a
<1>3. z \in Seq(Patterns) /\ ss \in Seq(SectionType) /\ ts \in Seq(SectionType) /\ u \in Seq(Patterns)
  BY <1>1, OutlineParts
<1>4. n = Join(Outline(p), Outline(q))
  BY <1>1, <1>2, OutlineConcat
<1>5. n = IF ss = <<>> THEN [stray |-> z \o u, sections |-> ts]
          ELSE [stray |-> z, sections |-> Grown(ss, u) \o ts]
  BY <1>4 DEF Join
<1>6. r.stray = <<>>
  BY Sectioned
<1> HIDE DEF z, ss, ts, u, r, n
<1>7. Spot(r, k, z, ss, a, u, ts)
  BY <1>1, <1>3, PutSection
<1>8. r.sections = Append(ss, [actions |-> a, urls |-> u]) \o ts /\ r.stray = z /\ z = <<>>
  BY <1>1, <1>6 DEF Placed
<1>9. [actions |-> a, urls |-> u] \in SectionType
  BY <1>1, <1>3 DEF SectionType
<1> DEFINE x == [actions |-> a, urls |-> u]
           w == Append(ss, x) \o ts
           rest == ss \o ts
<1>10. x \in SectionType
  BY <1>9
<1> HIDE DEF x
<1>11. RemoveAt(w, k) = rest /\ k - 1 = Len(ss) /\ Len(ss) \in Nat
  <2>1. RemoveAt(w, k) = rest
    BY <1>3, <1>10, TakeOut
  <2>2. Len(ss) \in Nat
    BY <1>3
  <2>3. QED
    BY <2>1, <2>2
<1> HIDE DEF w
<1>12. /\ k \in DOMAIN r.sections /\ r.sections = w
       /\ RemoveAt(r.sections, k) = rest /\ r.sections[k].urls = u
  BY <1>7, <1>8, <1>11 DEF Spot, w, x
<1>13. CASE ss = <<>>
  <2>1. k = 1 /\ rest = ts /\ z \o u = u
    <3>1. Len(ss) = 0
      BY <1>13
    <3>2. <<>> \o ts = ts /\ <<>> \o u = u
      BY <1>3, ConcatEmptySeq
    <3>3. QED
      BY <1>8, <1>13, <3>1, <3>2
  <2>2. n = [stray |-> u, sections |-> ts]
    BY <1>5, <1>13, <2>1
  <2> HIDE DEF k, rest
  <2>3. n = [stray |-> r.sections[k].urls, sections |-> RemoveAt(r.sections, k)]
    BY <1>12, <2>1, <2>2
  <2>4. QED
    BY <1>12, <2>1, <2>3 DEF Promise!RemoveHeader, Promise!RemoveAt, RemoveAt, r, n
<1>14. CASE ss # <<>>
  <2>1. PICK s0 \in Seq(SectionType), y \in SectionType : ss = Append(s0, y)
    BY <1>3, <1>14, LastOf
  <2> DEFINE v == y.urls \o u
             g == [actions |-> y.actions, urls |-> v]
             h == Len(s0) + 1
  <2>2. Grown(ss, u) = Append(s0, g)
    BY <1>3, <2>1, GrownAppend
  <2>3. v \in Seq(Patterns) /\ g \in SectionType
    <3>1. y.urls \in Seq(Patterns) /\ y.actions \in Actions
      BY DEF SectionType
    <3>2. v \in Seq(Patterns)
      BY <1>3, <3>1, ConcatProperties
    <3> HIDE DEF v
    <3>3. QED
      BY <3>1, <3>2 DEF SectionType
  <2>4. Len(ss) = h
    BY <2>1
  <2>5. rest = Append(s0, y) \o ts
    BY <2>1
  <2>6. rest[h] = y /\ h \in DOMAIN rest
    BY <1>3, <2>5, PutTyped
  <2>7. [rest EXCEPT ![h] = g] = Append(s0, g) \o ts
    <3> HIDE DEF g
    <3>1. QED
      BY <1>3, <2>3, <2>5, PutOther
  <2>8. k - 1 = h /\ k # 1
    <3>1. h \in Nat /\ h # 0
      BY DEF h
    <3> HIDE DEF h
    <3>2. QED
      BY <1>11, <2>4, <3>1
  <2> HIDE DEF k, rest, h
  <2>9. [y EXCEPT !.urls = v] = g
    BY SectionExcept
  <2>10. [rest EXCEPT ![h].urls = rest[h].urls \o u] = Append(s0, g) \o ts
    <3>1. [rest EXCEPT ![h].urls = rest[h].urls \o u] = [rest EXCEPT ![h] = [y EXCEPT !.urls = v]]
      BY <2>6
    <3>2. QED
      BY <2>7, <2>9, <3>1
  <2>11. n = [stray |-> z, sections |-> [rest EXCEPT ![h].urls = rest[h].urls \o u]]
    BY <1>5, <1>14, <2>2, <2>10
  <2> DEFINE new == [rest EXCEPT ![h].urls = rest[h].urls \o u]
  <2>12. [r EXCEPT !.sections = new] = [stray |-> z, sections |-> new]
    <3> HIDE DEF new
    <3>1. r = [stray |-> z, sections |-> w]
      BY <1>1 DEF Placed, w, x
    <3>2. QED
      BY <3>1
  <2>13. n = [r EXCEPT !.sections = [RemoveAt(r.sections, k)
                                       EXCEPT ![k - 1].urls = @ \o r.sections[k].urls]]
    BY <1>12, <2>8, <2>11, <2>12
  <2>14. QED
    BY <1>12, <2>8, <2>13 DEF Promise!RemoveHeader, Promise!RemoveAt, RemoveAt, r, n
<1>15. QED
  BY <1>13, <1>14

\* swap_sections: the two headers change places, which keep their patterns.
LEMMA SwapsHeaders ==
  ASSUME NEW f \in Seq(Lines), NEW i \in Of(f, "header"), NEW j \in Of(f, "header"), i # j,
         NEW g, g = [f EXCEPT ![i] = f[j], ![j] = f[i]]
  PROVE  Outline(g) = Outline(f) \/ Promise!SwapHeaders(Outline(f), Outline(g))
<1> DEFINE a == f[i].text
           b == f[j].text
           f1 == ReplaceAt(f, i, Header(b))
           r == Outline(f)
           r1 == Outline(f1)
           n == Outline(g)
<1>1. /\ i \in 1 .. Len(f) /\ f[i] = Header(a) /\ a \in Actions
      /\ j \in 1 .. Len(f) /\ f[j] = Header(b) /\ b \in Actions /\ f[j] \in Lines
  BY HeaderText
<1> HIDE DEF a, b
<1>2. f1 \in Seq(Lines) /\ Len(f1) = Len(f) /\ f1[j] = f[j]
  <2>1. /\ [f EXCEPT ![i] = f[j]] \in Seq(Lines) /\ Len([f EXCEPT ![i] = f[j]]) = Len(f)
        /\ \A m \in 1 .. Len(f) : [f EXCEPT ![i] = f[j]][m] = IF m = i THEN f[j] ELSE f[m]
    BY <1>1, ExceptSeq
  <2>2. QED
    BY <1>1, <2>1 DEF ReplaceAt
<1>3. g = ReplaceAt(f1, j, Header(a))
  BY <1>1 DEF ReplaceAt
<1> HIDE DEF f1
<1>4. j \in Of(f1, "header") /\ f1[j].text = b
  <2>1. j \in DOMAIN f1 /\ f[j].kind = "header"
    BY <1>1, <1>2 DEF Of
  <2>2. QED
    BY <1>2, <2>1 DEF Of, b
<1>5. PICK z \in Seq(Patterns), ss \in Seq(SectionType), u \in Seq(Patterns),
           ts \in Seq(SectionType) : HeaderIn(f, i, z, ss, u, ts)
  BY HeaderChange
<1>6. PICK z1 \in Seq(Patterns), ss1 \in Seq(SectionType), u1 \in Seq(Patterns),
           ts1 \in Seq(SectionType) : HeaderIn(f1, j, z1, ss1, u1, ts1)
  BY <1>2, <1>4, HeaderChange
<1>7. r = Placed(z, ss, a, u, ts) /\ r1 = Placed(z, ss, b, u, ts)
  BY <1>1, <1>5 DEF HeaderIn, a, f1
<1>8. r1 = Placed(z1, ss1, b, u1, ts1) /\ n = Placed(z1, ss1, a, u1, ts1)
  BY <1>1, <1>3, <1>4, <1>6 DEF HeaderIn
<1>9. r \in OutlineType /\ r1 \in OutlineType
  BY <1>2, OutlineSteps
<1> HIDE DEF r, r1, n
<1> DEFINE k == Len(ss) + 1
           k1 == Len(ss1) + 1
<1>10. Spot(r, k, z, ss, a, u, ts) /\ Spot(r1, k, z, ss, b, u, ts)
  BY <1>1, <1>7, PutSection
<1>11. Spot(r1, k1, z1, ss1, b, u1, ts1)
  BY <1>1, <1>8, PutSection
<1> HIDE DEF k, k1
<1>12. r1 = WithActions(r, k, b) /\ n = WithActions(r1, k1, a)
  BY <1>1, <1>7, <1>8, <1>10, <1>11 DEF Spot
<1>13. CASE k1 = k
  <2>1. WithActions(r1, k, a) = r
    BY <1>1, <1>7, <1>10 DEF Spot
  <2>2. QED
    BY <1>12, <1>13, <2>1 DEF r, n
<1>14. CASE k1 # k
  <2>1. k \in DOMAIN r.sections /\ r.sections[k].actions = a
    BY <1>10 DEF Spot
  <2>2. k1 \in DOMAIN r1.sections /\ r1.sections[k1].actions = b
    BY <1>11 DEF Spot
  <2>3. r1 = [stray |-> r.stray,
              sections |-> [r.sections EXCEPT ![k] = [actions |-> b, urls |-> r.sections[k].urls]]]
    BY <1>9, <1>12, <2>1, InSection
  <2> DEFINE rs == r.sections
             y == [actions |-> b, urls |-> r.sections[k].urls]
             rs1 == [rs EXCEPT ![k] = y]
  <2>4. r1.sections = rs1
    BY <2>3
  <2> HIDE DEF y
  <2>5. k1 \in DOMAIN rs /\ rs[k1] = rs1[k1]
    BY <1>14, <2>2, <2>4
  <2>6. r.sections[k1].actions = b /\ k1 \in DOMAIN r.sections
    BY <2>2, <2>4, <2>5
  <2>7. n = [[r EXCEPT !.sections[k].actions = b] EXCEPT !.sections[k1].actions = a]
    BY <1>12 DEF WithActions
  <2>8. n = [r EXCEPT !.sections[k].actions = r.sections[k1].actions,
                      !.sections[k1].actions = r.sections[k].actions]
    BY <2>1, <2>6, <2>7
  <2>9. Promise!SwapHeaders(r, n)
    BY <2>1, <2>6, <2>8 DEF Promise!SwapHeaders
  <2>10. QED
    BY <2>9 DEF r, n
<1>15. QED
  BY <1>13, <1>14

-----------------------------------------------------------------------------
\* Two files that are written alike have their headers and patterns in the same
\* places, and what a page offers of the one it offers of the other.
LEMMA SameOffers ==
  ASSUME NEW f \in Seq(Lines), NEW g \in Seq(Lines), Plain(f) = Plain(g), NEW r, Offers(f, r)
  PROVE  Offers(g, r) /\ Len(f) = Len(g)
<1>1. DOMAIN f = DOMAIN g
  <2>1. DOMAIN Plain(f) = DOMAIN f /\ DOMAIN Plain(g) = DOMAIN g
    BY DEF Plain
  <2>2. QED
    BY <2>1
<1>2. Len(f) = Len(g)
  <2>1. DOMAIN f = 1 .. Len(f) /\ DOMAIN g = 1 .. Len(g) /\ Len(f) \in Nat /\ Len(g) \in Nat
    OBVIOUS
  <2> DEFINE m == Len(f)
             n == Len(g)
  <2>2. 1 .. m = 1 .. n /\ m \in Nat /\ n \in Nat
    BY <1>1, <2>1
  <2> HIDE DEF m, n
  <2>3. m \in 1 .. m \/ m = 0
    BY <2>2
  <2>4. n \in 1 .. n \/ n = 0
    BY <2>2
  <2>5. m = n
    BY <2>2, <2>3, <2>4
  <2>6. QED
    BY <2>5 DEF m, n
<1>3. ASSUME NEW i \in DOMAIN f PROVE f[i].kind \in {"header", "url"} => g[i] = f[i]
  <2>1. Plain(f)[i] = Plain(g)[i]
    OBVIOUS
  <2>2. /\ Plain(f)[i] = IF f[i] = CommentLine THEN Blank ELSE f[i]
        /\ Plain(g)[i] = IF g[i] = CommentLine THEN Blank ELSE g[i]
    BY <1>1, <1>3 DEF Plain
  <2>3. CommentLine.kind = "comment" /\ Blank.kind = "blank"
    BY DEF CommentLine, Blank
  <2>4. QED
    BY <2>1, <2>2, <2>3
<1>4. ASSUME NEW i \in DOMAIN f PROVE g[i].kind \in {"header", "url"} => g[i] = f[i]
  <2>1. Plain(f)[i] = Plain(g)[i]
    OBVIOUS
  <2>2. /\ Plain(f)[i] = IF f[i] = CommentLine THEN Blank ELSE f[i]
        /\ Plain(g)[i] = IF g[i] = CommentLine THEN Blank ELSE g[i]
    BY <1>1, <1>4 DEF Plain
  <2>3. CommentLine.kind = "comment" /\ Blank.kind = "blank"
    BY DEF CommentLine, Blank
  <2>4. QED
    BY <2>1, <2>2, <2>3
<1>5. Of(f, "header") = Of(g, "header") /\ Of(f, "url") = Of(g, "url")
  BY <1>1, <1>3, <1>4 DEF Of
<1>6. QED
  BY <1>2, <1>5 DEF Offers

-----------------------------------------------------------------------------
\* A request in progress asks for what its page offered, and of what it has read
\* a pattern never comes before all headers.
EditRequests ==
  [op : Operations \union {"none"}, line : Nat, other : Nat,
   text : Actions \union Patterns \union {""}]

EditorInv ==
  /\ file \in Seq(Lines)
  /\ pc \in [Sessions -> {"idle", "asked", "edit"}]
  /\ request \in [Sessions -> EditRequests]
  /\ shown \in [Sessions -> Seq(Lines)]
  /\ copy \in [Sessions -> Seq(Lines)]
  /\ reply \in [Sessions -> {"none", "refused", "unsaved", "saved", "failed"}]
  /\ \A s \in Sessions :
       /\ Parses(copy[s])
       /\ pc[s] # "idle" => Offers(shown[s], request[s])
       /\ pc[s] # "idle" /\ request[s].op = "swap_sections" => request[s].line < request[s].other

\* A session may have these lines written.
MayWrite(s, lines) ==
  /\ lines \in Seq(Drafts)
  /\ Plain(shown[s]) = Plain(copy[s])
       => Promise!OneEdit(Outline(copy[s]), Outline(Whole(lines)))

\* What an edit leaves is lines, whatever line it hits.
LEMMA Edited ==
  ASSUME NEW f \in Seq(Lines), NEW i \in Nat \ {0}, NEW l \in Drafts
  PROVE  /\ InsertAfter(f, i, l) \in Seq(Drafts)
         /\ i \in DOMAIN f => ReplaceAt(f, i, l) \in Seq(Drafts) /\ RemoveAt(f, i) \in Seq(Drafts)
<1>1. f \in Seq(Drafts) /\ Len(f) \in Nat /\ DOMAIN f = 1 .. Len(f)
  BY LinesAreDrafts
<1>2. CASE i > Len(f)
  <2>1. InsertAfter(f, i, l) = Append(f, l)
    BY <1>2 DEF InsertAfter
  <2>2. Append(f, l) \in Seq(Drafts)
    BY <1>1, AppendProperties
  <2>3. ~(i \in DOMAIN f)
    BY <1>1, <1>2
  <2>4. QED
    BY <2>1, <2>2, <2>3
<1>3. CASE ~(i > Len(f))
  <2> DEFINE p == SubSeq(f, 1, i - 1)
             q == SubSeq(f, i + 1, Len(f))
  <2>1. i \in 1 .. Len(f)
    BY <1>1, <1>3
  <2>2. p \in Seq(Drafts) /\ q \in Seq(Drafts) /\ f[i] \in Drafts
    BY <1>1, <2>1, CutAt
  <2>3. ReplaceAt(f, i, l) = Append(p, l) \o q /\ RemoveAt(f, i) = p \o q
    BY <1>1, <2>1, CutAt
  <2>4. InsertAfter(f, i, l) = Append(p, f[i]) \o (<<l>> \o q)
    BY <1>1, <2>1, CutAt
  <2> HIDE DEF p, q
  <2>5. Append(p, l) \in Seq(Drafts) /\ Append(p, f[i]) \in Seq(Drafts) /\ <<l>> \in Seq(Drafts)
    BY <2>2
  <2>6. <<l>> \o q \in Seq(Drafts)
    BY <2>2, <2>5, ConcatProperties
  <2>7. /\ Append(p, l) \o q \in Seq(Drafts) /\ p \o q \in Seq(Drafts)
        /\ Append(p, f[i]) \o (<<l>> \o q) \in Seq(Drafts)
    BY <2>2, <2>5, <2>6, ConcatProperties
  <2>8. QED
    BY <2>3, <2>4, <2>7
<1>4. QED
  BY <1>2, <1>3

\* What a session's state gives an edit to work with.
LEMMA AtHand ==
  ASSUME EditorInv, NEW s \in Sessions, pc[s] = "edit"
  PROVE  /\ copy[s] \in Seq(Lines) /\ Parses(copy[s]) /\ Outline(copy[s]).stray = <<>>
         /\ request[s] \in EditRequests
         /\ Offers(shown[s], request[s])
         /\ request[s].line \in Nat \ {0}
         /\ request[s].op = "swap_sections" =>
              request[s].line < request[s].other /\ request[s].other \in Nat
         /\ Plain(shown[s]) = Plain(copy[s]) =>
              Offers(copy[s], request[s]) /\ Len(shown[s]) = Len(copy[s])
<1>1. /\ copy[s] \in Seq(Lines) /\ shown[s] \in Seq(Lines) /\ Parses(copy[s])
      /\ request[s] \in EditRequests /\ Offers(shown[s], request[s])
      /\ request[s].op = "swap_sections" => request[s].line < request[s].other
  BY DEF EditorInv
<1>2. request[s].line \in Nat /\ request[s].other \in Nat
  BY <1>1 DEF EditRequests
<1>3. request[s].line # 0
  <2>1. Len(shown[s]) \in Nat /\ DOMAIN shown[s] = 1 .. Len(shown[s])
    BY <1>1
  <2>2. CASE request[s].line = Len(shown[s]) + 1
    BY <2>1, <2>2
  <2>3. CASE request[s].line \in DOMAIN shown[s]
    BY <2>1, <2>3
  <2>4. QED
    BY <1>1, <2>2, <2>3 DEF Offers, Of
<1>4. Outline(copy[s]).stray = <<>>
  BY <1>1, Sectioned
<1>5. QED
  BY <1>1, <1>2, <1>3, <1>4, SameOffers

LEMMA WholeOfLines ==
  ASSUME NEW f \in Seq(Lines)
  PROVE  f \in Seq(Drafts) /\ Outline(Whole(f)) = Outline(f)
BY LinesAreDrafts, WholeOutline

LEMMA UrlAdded ==
  ASSUME NEW f \in Seq(Lines), NEW i \in Of(f, "header"), NEW t \in Patterns
  PROVE  InsertAfter(f, i, Url(t)) \in Seq(Lines)
<1> DEFINE p == SubSeq(f, 1, i - 1)
           q == SubSeq(f, i + 1, Len(f))
           l == Url(t)
<1>1. i \in 1 .. Len(f)
  BY HeaderText
<1>2. /\ p \in Seq(Lines) /\ q \in Seq(Lines) /\ f[i] \in Lines
      /\ InsertAfter(f, i, l) = Append(p, f[i]) \o (<<l>> \o q)
  <2>1. p \in Seq(Lines) /\ q \in Seq(Lines)
    BY <1>1, CutAt
  <2>2. InsertAfter(f, i, l) = Append(p, f[i]) \o (<<l>> \o q)
    BY <1>1, CutAt
  <2>3. QED
    BY <1>1, <2>1, <2>2
<1> HIDE DEF p, q
<1>3. <<l>> \o q \in Seq(Lines)
  BY <1>2, FrontUrl
<1>4. Append(p, f[i]) \in Seq(Lines)
  BY <1>2
<1>5. QED
  BY <1>2, <1>3, <1>4, ConcatProperties

\* Every operation writes lines that one edit of the rules accounts for.
LEMMA AddUrlWrites ==
  ASSUME EditorInv, NEW s \in Sessions, AddUrl(s)
  PROVE  MayWrite(s, InsertAfter(copy[s], request[s].line, Url(request[s].text)))
<1> DEFINE f == copy[s]
           i == request[s].line
           t == request[s].text
           new == InsertAfter(f, i, Url(t))
<1>1. /\ f \in Seq(Lines) /\ i \in Nat \ {0} /\ Outline(f).stray = <<>>
      /\ Offers(shown[s], request[s]) /\ request[s].op = "add_url" /\ t # ""
      /\ Plain(shown[s]) = Plain(f) => Offers(f, request[s])
  BY AtHand DEF AddUrl, Editing
<1>2. t \in Patterns
  BY <1>1 DEF Offers
<1>3. Url(t) \in Lines /\ Url(t) \in Drafts
  BY <1>2 DEF Lines, Drafts
<1>4. new \in Seq(Drafts)
  BY <1>1, <1>3, Edited
<1>5. ASSUME Plain(shown[s]) = Plain(f) PROVE Promise!OneEdit(Outline(f), Outline(Whole(new)))
  <2>1. i \in Of(f, "header")
    BY <1>1, <1>5 DEF Offers
  <2>2. Promise!AddUrl(Outline(f), Outline(new))
    BY <1>1, <1>2, <2>1, AddsUrl
  <2>3. new \in Seq(Lines)
    BY <1>1, <1>2, <2>1, UrlAdded
  <2>4. QED
    BY <1>1, <2>2, <2>3, WholeOfLines DEF Promise!OneEdit
<1>6. QED
  BY <1>4, <1>5 DEF MayWrite

LEMMA AddSectionWrites ==
  ASSUME EditorInv, NEW s \in Sessions, AddSection(s)
  PROVE  MayWrite(s, InsertAfter(copy[s], request[s].line, Header(request[s].text)))
<1> DEFINE f == copy[s]
           i == request[s].line
           t == request[s].text
           new == InsertAfter(f, i, Header(t))
<1>1. /\ f \in Seq(Lines) /\ i \in Nat \ {0} /\ Outline(f).stray = <<>>
      /\ Offers(shown[s], request[s]) /\ request[s].op = "add_section"
      /\ Plain(shown[s]) = Plain(f) => Len(shown[s]) = Len(f)
  BY AtHand DEF AddSection, Editing
<1>2. t \in Actions /\ i = Len(shown[s]) + 1
  BY <1>1 DEF Offers
<1>3. Header(t) \in Lines /\ Header(t) \in Drafts
  BY <1>2 DEF Lines, Drafts
<1>4. new \in Seq(Drafts)
  BY <1>1, <1>3, Edited
<1>5. ASSUME Plain(shown[s]) = Plain(f) PROVE Promise!OneEdit(Outline(f), Outline(Whole(new)))
  <2>1. i = Len(f) + 1
    BY <1>1, <1>2, <1>5
  <2>2. Promise!AddSection(Outline(f), Outline(new))
    BY <1>1, <1>2, <2>1, AddsSection
  <2>3. new \in Seq(Lines)
    <3>1. new = Append(f, Header(t))
      BY <1>1, <2>1 DEF InsertAfter
    <3>2. QED
      BY <1>1, <1>3, <3>1, AppendProperties
  <2>4. QED
    BY <1>1, <2>2, <2>3, WholeOfLines DEF Promise!OneEdit
<1>6. QED
  BY <1>4, <1>5 DEF MayWrite

\* A line of the file replaced, removed, or the file as it is.
LEMMA StillLines ==
  ASSUME NEW f \in Seq(Lines), NEW i \in DOMAIN f
  PROVE  /\ \A l \in Lines : ReplaceAt(f, i, l) \in Seq(Lines)
         /\ RemoveAt(f, i) \in Seq(Lines)
<1> DEFINE p == SubSeq(f, 1, i - 1)
           q == SubSeq(f, i + 1, Len(f))
<1>1. i \in 1 .. Len(f)
  OBVIOUS
<1>2. p \in Seq(Lines) /\ q \in Seq(Lines) /\ RemoveAt(f, i) = p \o q
  BY <1>1, CutAt
<1>3. \A y : ReplaceAt(f, i, y) = Append(p, y) \o q
  BY <1>1, CutAt
<1> HIDE DEF p, q
<1>4. \A l \in Lines : Append(p, l) \in Seq(Lines)
  BY <1>2
<1>5. QED
  BY <1>2, <1>3, <1>4, ConcatProperties

LEMMA EditUrlWrites ==
  ASSUME EditorInv, NEW s \in Sessions, EditUrl(s)
  PROVE  MayWrite(s, IF copy[s][request[s].line].kind = "url"
                     THEN ReplaceAt(copy[s], request[s].line, Url(request[s].text))
                     ELSE copy[s])
<1> DEFINE f == copy[s]
           i == request[s].line
           t == request[s].text
           new == ReplaceAt(f, i, Url(t))
<1>1. /\ f \in Seq(Lines) /\ Parses(f) /\ i \in Nat \ {0} /\ Outline(f).stray = <<>>
      /\ Offers(shown[s], request[s]) /\ request[s].op = "edit_url" /\ i \in DOMAIN f
      /\ Plain(shown[s]) = Plain(f) => Offers(f, request[s])
  BY AtHand DEF EditUrl, Editing, InFile
<1>2. t \in Patterns \union {""}
  BY <1>1 DEF Offers
<1>3. Url(t) \in Drafts /\ (t \in Patterns => Url(t) \in Lines)
  BY <1>2 DEF Lines, Drafts
<1>4. new \in Seq(Drafts)
  BY <1>1, <1>3, Edited
<1>5. CASE f[i].kind = "url"
  <2>1. i \in Of(f, "url")
    BY <1>1, <1>5 DEF Of
  <2>2. Promise!OneEdit(Outline(f), Outline(Whole(new)))
    <3>1. CASE t \in Patterns
      <4>1. Promise!EditUrl(Outline(f), Outline(new))
        BY <1>1, <2>1, <3>1, EditsUrl
      <4>2. Outline(Whole(new)) = Outline(new)
        BY <1>1, <1>3, <3>1, StillLines, WholeOfLines
      <4>3. QED
        BY <1>1, <4>1, <4>2 DEF Promise!OneEdit
    <3>2. CASE t = ""
      <4>1. Promise!RemoveUrl(Outline(f), Outline(Whole(ReplaceAt(f, i, Url("")))))
        BY <1>1, <2>1, EditsUrl
      <4>2. QED
        BY <1>1, <3>2, <4>1 DEF Promise!OneEdit
    <3>3. QED
      BY <1>2, <3>1, <3>2
  <2>3. QED
    BY <1>4, <1>5, <2>2 DEF MayWrite
<1>6. CASE f[i].kind # "url"
  <2>1. f \in Seq(Drafts) /\ Outline(Whole(f)) = Outline(f)
    BY <1>1, WholeOfLines
  <2>2. Promise!OneEdit(Outline(f), Outline(Whole(f)))
    BY <1>1, <2>1 DEF Promise!OneEdit
  <2>3. QED
    BY <1>6, <2>1, <2>2 DEF MayWrite
<1>7. QED
  BY <1>5, <1>6

LEMMA RemoveLineWrites ==
  ASSUME EditorInv, NEW s \in Sessions, RemoveLine(s)
  PROVE  MayWrite(s, RemoveAt(copy[s], request[s].line))
<1> DEFINE f == copy[s]
           i == request[s].line
           new == RemoveAt(f, i)
<1>1. /\ f \in Seq(Lines) /\ Parses(f) /\ Outline(f).stray = <<>>
      /\ request[s].op \in {"remove_url", "remove_section"} /\ i \in DOMAIN f
      /\ Plain(shown[s]) = Plain(f) => Offers(f, request[s])
  BY AtHand DEF RemoveLine, Editing, InFile
<1>2. new \in Seq(Lines)
  BY <1>1, StillLines
<1>3. new \in Seq(Drafts) /\ Outline(Whole(new)) = Outline(new)
  <2> HIDE DEF new
  <2>1. QED
    BY <1>2, WholeOfLines
<1>4. ASSUME Plain(shown[s]) = Plain(f) PROVE Promise!OneEdit(Outline(f), Outline(Whole(new)))
  <2>1. CASE request[s].op = "remove_url"
    <3>1. i \in Of(f, "url")
      BY <1>1, <1>4, <2>1 DEF Offers
    <3>2. Promise!RemoveUrl(Outline(f), Outline(new))
      BY <1>1, <3>1, EditsUrl
    <3>3. QED
      BY <1>1, <1>3, <3>2 DEF Promise!OneEdit
  <2>2. CASE request[s].op = "remove_section"
    <3>1. i \in Of(f, "header")
      BY <1>1, <1>4, <2>2 DEF Offers
    <3>2. Promise!RemoveHeader(Outline(f), Outline(new))
      BY <1>1, <3>1, RemovesHeader
    <3>3. QED
      BY <1>1, <1>3, <3>2 DEF Promise!OneEdit
  <2>3. QED
    BY <1>1, <2>1, <2>2
<1>5. QED
  BY <1>3, <1>4 DEF MayWrite

LEMMA SwapLinesWrites ==
  ASSUME EditorInv, NEW s \in Sessions, SwapLines(s),
         NEW new, new = [copy[s] EXCEPT ![request[s].line] = copy[s][request[s].other],
                                        ![request[s].other] = copy[s][request[s].line]]
  PROVE  MayWrite(s, new)
<1> DEFINE f == copy[s]
           i == request[s].line
           j == request[s].other
<1>1. /\ f \in Seq(Lines) /\ Outline(f).stray = <<>> /\ i # j
      /\ request[s].op = "swap_sections" /\ i \in DOMAIN f /\ j \in DOMAIN f
      /\ Plain(shown[s]) = Plain(f) => Offers(f, request[s])
  BY AtHand DEF SwapLines, Editing, InFile
<1>2. new = [f EXCEPT ![i] = f[j], ![j] = f[i]]
  OBVIOUS
<1> HIDE DEF f, i, j
<1>3. new \in Seq(Lines)
  <2> DEFINE g == ReplaceAt(f, i, f[j])
  <2>1. f[i] \in Lines /\ f[j] \in Lines
    BY <1>1
  <2>2. g \in Seq(Lines)
    BY <1>1, <2>1, StillLines
  <2>3. DOMAIN g = DOMAIN f
    BY DEF ReplaceAt
  <2>4. new = ReplaceAt(g, j, f[i])
    BY <1>2 DEF ReplaceAt
  <2> HIDE DEF g
  <2>5. j \in DOMAIN g
    BY <1>1, <2>3
  <2>6. ReplaceAt(g, j, f[i]) \in Seq(Lines)
    BY <2>1, <2>2, <2>5, StillLines
  <2>7. QED
    BY <2>4, <2>6
<1>4. new \in Seq(Drafts) /\ Outline(Whole(new)) = Outline(new)
  BY <1>3, WholeOfLines
<1>5. ASSUME Plain(shown[s]) = Plain(f) PROVE Promise!OneEdit(Outline(f), Outline(Whole(new)))
  <2>1. i \in Of(f, "header") /\ j \in Of(f, "header")
    BY <1>1, <1>5 DEF Offers, i, j
  <2>2. Outline(new) = Outline(f) \/ Promise!SwapHeaders(Outline(f), Outline(new))
    BY <1>1, <1>2, <2>1, SwapsHeaders
  <2>3. QED
    BY <1>1, <1>4, <2>2 DEF Promise!OneEdit
<1>6. QED
  BY <1>4, <1>5 DEF MayWrite, f

LEMMA SubmitWrites ==
  ASSUME EditorInv, NEW s \in Sessions, Submit(s)
  PROVE  MayWrite(s, IF copy[s][request[s].line].kind = "header"
                     THEN ReplaceAt(copy[s], request[s].line, Header(request[s].text))
                     ELSE copy[s])
<1> DEFINE f == copy[s]
           i == request[s].line
           t == request[s].text
           new == ReplaceAt(f, i, Header(t))
<1>1. /\ f \in Seq(Lines) /\ Outline(f).stray = <<>>
      /\ Offers(shown[s], request[s]) /\ request[s].op = "submit" /\ i \in DOMAIN f
  BY AtHand DEF Submit, Editing, InFile
<1>2. t \in Actions
  BY <1>1 DEF Offers
<1>3. Header(t) \in Lines
  BY <1>2 DEF Lines
<1>4. CASE f[i].kind = "header"
  <2>1. i \in Of(f, "header")
    BY <1>1, <1>4 DEF Of
  <2>2. Promise!ChangeActions(Outline(f), Outline(new))
    BY <1>1, <1>2, <2>1, ChangesActions
  <2>3. new \in Seq(Lines)
    BY <1>1, <1>3, StillLines
  <2>4. new \in Seq(Drafts) /\ Outline(Whole(new)) = Outline(new)
    <3> HIDE DEF new
    <3>1. QED
      BY <2>3, WholeOfLines
  <2>5. Promise!OneEdit(Outline(f), Outline(Whole(new)))
    BY <1>1, <2>2, <2>4 DEF Promise!OneEdit
  <2>6. QED
    BY <1>4, <2>4, <2>5 DEF MayWrite
<1>5. CASE f[i].kind # "header"
  <2>1. f \in Seq(Drafts) /\ Outline(Whole(f)) = Outline(f)
    BY <1>1, WholeOfLines
  <2>2. Promise!OneEdit(Outline(f), Outline(Whole(f)))
    BY <1>1, <2>1 DEF Promise!OneEdit
  <2>3. QED
    BY <1>5, <2>1, <2>2 DEF MayWrite
<1>6. QED
  BY <1>4, <1>5

-----------------------------------------------------------------------------
\* A request that has been read either writes what one edit accounts for, or
\* answers without writing.
Unsaved(s) == Reply(s, "unsaved") /\ UNCHANGED <<file, request, shown, copy, asked>>

LEMMA EditCases ==
  ASSUME EditorInv, NEW s \in Sessions,
         \/ AddUrl(s) \/ AddSection(s) \/ EditUrl(s) \/ RemoveLine(s) \/ SwapLines(s) \/ Submit(s)
  PROVE  Unsaved(s) \/ \E lines : MayWrite(s, lines) /\ Save(s, lines)
<1> USE DEF Unsaved
<1>1. CASE AddUrl(s)
  BY <1>1, AddUrlWrites DEF AddUrl, SaveUnless
<1>2. CASE AddSection(s)
  BY <1>2, AddSectionWrites DEF AddSection, SaveUnless
<1>3. CASE EditUrl(s)
  BY <1>3, EditUrlWrites DEF EditUrl, SaveUnless
<1>4. CASE RemoveLine(s)
  BY <1>4, RemoveLineWrites DEF RemoveLine
<1>5. CASE SwapLines(s)
  BY <1>5, SwapLinesWrites DEF SwapLines
<1>6. CASE Submit(s)
  BY <1>6, SubmitWrites DEF Submit
<1>7. QED
  BY <1>1, <1>2, <1>3, <1>4, <1>5, <1>6

\* What is written, up to wherever the disk fails, is lines.
LEMMA SaveTyped ==
  ASSUME EditorInv, NEW s \in Sessions, NEW lines \in Seq(Drafts), Save(s, lines)
  PROVE  /\ file' \in Seq(Lines)
         /\ \/ file' = Whole(lines) /\ Reply(s, "saved")
            \/ Reply(s, "failed")
         /\ UNCHANGED <<request, shown, copy, asked>>
<1>1. Whole(lines) \in Seq(Lines)
  BY WholeSteps
<1> DEFINE w == Whole(lines)
<1>2. ASSUME NEW n \in 0 .. Len(w) - 1 PROVE SubSeq(w, 1, n) \in Seq(Lines)
  <2>1. w \in Seq(Lines) /\ Len(w) \in Nat
    BY <1>1
  <2> HIDE DEF w
  <2>2. \A i \in 1 .. n : w[i] \in Lines
    <3>1. \A i \in 1 .. n : i \in 1 .. Len(w)
      BY <2>1
    <3>2. QED
      BY <2>1, <3>1
  <2>3. 1 \in Int /\ n \in Int
    OBVIOUS
  <2>4. QED
    BY <2>2, <2>3, SubSeqProperties
<1>3. QED
  BY <1>1, <1>2 DEF Save

LEMMA EditorStarts == EditorInit => EditorInv
<1> SUFFICES ASSUME EditorInit PROVE EditorInv
  OBVIOUS
<1>1. file \in Seq(Lines) /\ Parses(file)
  BY EditorAssumption DEF EditorInit
<1>2. NoRequest \in EditRequests
  BY DEF NoRequest, EditRequests
<1>3. QED
  BY <1>1, <1>2 DEF EditorInit, EditorInv

LEMMA EditorGoesOn == EditorInv /\ [EditorNext]_editor_vars => EditorInv'
<1> SUFFICES ASSUME EditorInv, [EditorNext]_editor_vars PROVE EditorInv'
  OBVIOUS
<1>1. ASSUME NEW s \in Sessions, Ask(s) PROVE EditorInv'
  <2>1. file \in Seq(Lines) /\ Len(file) \in Nat
    <3>1. file \in Seq(Lines)
      BY DEF EditorInv
    <3>2. QED
      BY <3>1
  <2>2. PICK op, line, text :
          /\ op \in Operations /\ line \in 1 .. Len(file) + 1
          /\ text \in Actions \union Patterns \union {""}
          /\ \E other \in IF op = "swap_sections" THEN line + 1 .. Len(file) ELSE {1} :
               LET r == [op |-> op, line |-> line, other |-> other, text |-> text]
               IN Offers(file, r) /\ request' = [request EXCEPT ![s] = r]
    BY <1>1 DEF Ask
  <2>3. line \in Nat /\ Len(file) \in Nat
    <3>1. line \in 1 .. Len(file) + 1
      BY <2>2
    <3>2. QED
      BY <2>1, <3>1
  <2>4. PICK other :
          /\ other \in IF op = "swap_sections" THEN line + 1 .. Len(file) ELSE {1}
          /\ LET r == [op |-> op, line |-> line, other |-> other, text |-> text]
             IN Offers(file, r) /\ request' = [request EXCEPT ![s] = r]
    BY <2>2
  <2> DEFINE r == [op |-> op, line |-> line, other |-> other, text |-> text]
  <2>5. other \in Nat /\ (op = "swap_sections" => line < other)
    <3>1. CASE op = "swap_sections"
      <4>1. other \in line + 1 .. Len(file)
        BY <2>4, <3>1
      <4>2. QED
        BY <2>3, <4>1
    <3>2. CASE op # "swap_sections"
      <4>1. other = 1
        BY <2>4, <3>2
      <4>2. QED
        BY <3>2, <4>1
    <3>3. QED
      BY <3>1, <3>2
  <2>6. r \in EditRequests /\ (r.op = "swap_sections" => r.line < r.other)
    BY <2>2, <2>3, <2>5 DEF EditRequests
  <2> HIDE DEF r
  <2>7. Offers(file, r) /\ request' = [request EXCEPT ![s] = r]
    BY <2>4 DEF r
  <2>8. /\ pc' = [pc EXCEPT ![s] = "asked"] /\ shown' = [shown EXCEPT ![s] = file]
        /\ UNCHANGED <<file, copy, reply>>
    BY <1>1 DEF Ask
  <2>9. QED
    BY <2>6, <2>7, <2>8 DEF EditorInv
<1>2. ASSUME NEW s \in Sessions, ReadFile(s) PROVE EditorInv'
  BY <1>2 DEF ReadFile, EditorInv
<1>3. ASSUME NEW s \in Sessions, ReadFails(s) \/ EditFails(s) PROVE EditorInv'
  BY <1>3 DEF ReadFails, EditFails, Reply, EditorInv
<1>4. ASSUME NEW s \in Sessions,
             \/ AddUrl(s) \/ AddSection(s) \/ EditUrl(s) \/ RemoveLine(s) \/ SwapLines(s) \/ Submit(s)
      PROVE  EditorInv'
  <2>1. CASE Unsaved(s)
    BY <2>1 DEF Unsaved, Reply, EditorInv
  <2>2. ASSUME NEW lines, MayWrite(s, lines), Save(s, lines) PROVE EditorInv'
    <3>1. /\ file' \in Seq(Lines) /\ (Reply(s, "saved") \/ Reply(s, "failed"))
          /\ UNCHANGED <<request, shown, copy, asked>>
      BY <2>2, SaveTyped DEF MayWrite
    <3>2. QED
      BY <3>1 DEF Reply, EditorInv
  <2>3. QED
    BY <1>4, <2>1, <2>2, EditCases
<1>5. CASE UNCHANGED editor_vars
  BY <1>5 DEF editor_vars, EditorInv
<1>6. QED
  BY <1>1, <1>2, <1>3, <1>4, <1>5 DEF EditorNext, Handle

LEMMA EditorKeepsOn == EditorSpec => []EditorInv
  BY EditorStarts, EditorGoesOn, PTL DEF EditorSpec

-----------------------------------------------------------------------------
\* Steps of the editor as RuleList sees them.
taken == [s \in Sessions |-> Outline(copy[s])]
fresh == [s \in Sessions |-> Plain(shown[s]) = Plain(copy[s])]
seen == <<Outline(file), taken, fresh, reply>>

LEMMA StepRefines == EditorInv /\ [EditorNext]_editor_vars => [Promise!Next]_seen
<1> SUFFICES ASSUME EditorInv, [EditorNext]_editor_vars PROVE [Promise!Next]_seen
  OBVIOUS
<1>1. ASSUME NEW s \in Sessions, Ask(s) PROVE Promise!Next
  <2>1. /\ shown' = [shown EXCEPT ![s] = file] /\ shown \in [Sessions -> Seq(Lines)]
        /\ UNCHANGED <<file, copy, reply>>
    BY <1>1 DEF Ask, EditorInv
  <2>2. fresh' \in [Sessions -> BOOLEAN] /\ \A t \in Sessions \ {s} : fresh'[t] = fresh[t]
    BY <2>1 DEF fresh
  <2>3. taken' = taken /\ Outline(file)' = Outline(file)
    BY <2>1 DEF taken
  <2>4. Promise!Show(s)
    BY <2>1, <2>2, <2>3 DEF Promise!Show, taken, fresh
  <2>5. QED
    BY <2>4 DEF Promise!Next
<1>2. ASSUME NEW s \in Sessions, ReadFile(s) PROVE Promise!Next
  <2>1. /\ copy' = [copy EXCEPT ![s] = file] /\ copy \in [Sessions -> Seq(Lines)]
        /\ reply' = [reply EXCEPT ![s] = "none"]
        /\ UNCHANGED <<file, shown>>
    BY <1>2 DEF ReadFile, EditorInv
  <2>2. fresh' \in [Sessions -> BOOLEAN] /\ \A t \in Sessions \ {s} : fresh'[t] = fresh[t]
    BY <2>1 DEF fresh
  <2>3. taken' = [taken EXCEPT ![s] = Outline(file)] /\ Outline(file)' = Outline(file)
    BY <2>1 DEF taken
  <2>4. Promise!Take(s)
    BY <2>1, <2>2, <2>3 DEF Promise!Take, Promise!Answer, taken, fresh
  <2>5. QED
    BY <2>4 DEF Promise!Next
<1>3. ASSUME NEW s \in Sessions, NEW a \in {"refused", "unsaved"}, Reply(s, a),
             UNCHANGED <<file, shown, copy>>
      PROVE  Promise!Next
  <2>1. taken' = taken /\ fresh' = fresh /\ Outline(file)' = Outline(file)
    BY <1>3 DEF taken, fresh
  <2>2. Promise!Refuse(s)
    BY <1>3, <2>1 DEF Promise!Refuse, Promise!Answer, Reply, taken, fresh
  <2>3. QED
    BY <2>2 DEF Promise!Next
<1>4. ASSUME NEW s \in Sessions, ReadFails(s) \/ EditFails(s) \/ Unsaved(s) PROVE Promise!Next
  BY <1>3, <1>4 DEF ReadFails, EditFails, Unsaved
<1>5. ASSUME NEW s \in Sessions, NEW lines, MayWrite(s, lines), Save(s, lines) PROVE Promise!Next
  <2>1. /\ \/ file' = Whole(lines) /\ Reply(s, "saved")
           \/ Reply(s, "failed")
        /\ UNCHANGED <<shown, copy>>
    BY <1>5, SaveTyped DEF MayWrite
  <2>2. taken' = taken /\ fresh' = fresh
    BY <2>1 DEF taken, fresh
  <2>3. taken[s] = Outline(copy[s]) /\ fresh[s] = (Plain(shown[s]) = Plain(copy[s]))
    BY DEF taken, fresh
  <2>4. CASE file' = Whole(lines) /\ Reply(s, "saved")
    <3>1. Outline(file)' = Outline(Whole(lines))
      BY <2>4
    <3>2. fresh[s] => Promise!OneEdit(taken[s], Outline(file)')
      BY <1>5, <2>3, <3>1 DEF MayWrite
    <3>3. Promise!Save(s)
      BY <2>2, <2>4, <3>2 DEF Promise!Save, Promise!Answer, Reply, taken, fresh
    <3>4. QED
      BY <3>3 DEF Promise!Next
  <2>5. CASE Reply(s, "failed")
    <3>1. Promise!Fail(s)
      BY <2>2, <2>5 DEF Promise!Fail, Promise!Answer, Reply, taken, fresh
    <3>2. QED
      BY <3>1 DEF Promise!Next
  <2>6. QED
    BY <2>1, <2>4, <2>5
<1>6. ASSUME NEW s \in Sessions,
             \/ AddUrl(s) \/ AddSection(s) \/ EditUrl(s) \/ RemoveLine(s) \/ SwapLines(s) \/ Submit(s)
      PROVE  Promise!Next
  BY <1>4, <1>5, <1>6, EditCases
<1>7. CASE UNCHANGED editor_vars
  BY <1>7 DEF editor_vars, seen, taken, fresh
<1>8. QED
  BY <1>1, <1>2, <1>4, <1>6, <1>7 DEF EditorNext, Handle

\* The editor keeps its promise: a request answered as saved has made one edit to
\* the rules it read, if they are those its page showed, whatever the sessions,
\* the actions files and the lines between the rules.
THEOREM EditorRefines == EditorSpec => KeepsPromise
<1>1. EditorInit => Promise!Init
  <2> SUFFICES ASSUME EditorInit PROVE Promise!Init
    OBVIOUS
  <2>1. file \in Seq(Lines) /\ Parses(file)
    BY EditorAssumption DEF EditorInit
  <2>2. Outline(file).stray = <<>>
    BY <2>1, Sectioned
  <2>3. QED
    BY <2>2 DEF EditorInit, Promise!Init
<1>2. QED
  BY <1>1, StepRefines, EditorKeepsOn, PTL DEF EditorSpec, KeepsPromise, Promise!Spec, seen, taken, fresh
=============================================================================
