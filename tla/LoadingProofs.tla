---------------------------- MODULE LoadingProofs ----------------------------
(* Proofs about Loading, for every configuration, every actions file, every    *)
(* pattern and every request: the settings, the rules and the access list in    *)
(* force are those that are written, and the look-ups follow the rules.         *)
(*                                                                              *)
(* What a definition by recursion over the characters of a pattern or the       *)
(* elements of a sequence computes is shown by induction with a set: of a set   *)
(* of numbers, or of sequences, that has the first one and with each one the    *)
(* next.                                                                        *)
EXTENDS Loading, SequenceTheorems, WellFoundedInduction, TLAPS

\* A set of numbers that is not empty has a least one.
LEMMA LeastNat ==
  ASSUME NEW S, S \subseteq Nat, S # {}
  PROVE  \E n \in S : \A m \in S : n <= m
<1> DEFINE R == OpToRel(<, Nat)
<1>1. \A m, n \in Nat : m < n => <<m, n>> \in R
  BY DEF OpToRel
<1>2. IsWellFoundedOn(R, Nat)
  BY NatLessThanWellFounded
<1> HIDE DEF R
<1>3. PICK n \in S : \A m \in S : <<m, n>> \notin R
  BY <1>2, WFMin
<1>4. \A m \in S : m \in Nat /\ n \in Nat /\ ~(m < n)
  BY <1>1, <1>3
<1>5. QED
  BY <1>4

\* Induction over the numbers, with a set.
LEMMA Induction ==
  ASSUME NEW S, 0 \in S, \A n \in Nat : n \in S => n + 1 \in S
  PROVE  Nat \subseteq S
<1> SUFFICES ASSUME Nat \ S # {} PROVE FALSE
  OBVIOUS
<1>1. PICK n \in Nat \ S : \A m \in Nat \ S : n <= m
  BY LeastNat
<1>2. n # 0 /\ n - 1 \in Nat /\ n - 1 \in S
  BY <1>1
<1>3. QED
  BY <1>1, <1>2

\* Induction from k down to 0.
LEMMA Downward ==
  ASSUME NEW k \in Nat, NEW S, k \in S, \A n \in 1 .. k : n \in S => n - 1 \in S
  PROVE  0 .. k \subseteq S
<1> DEFINE T == {n \in Nat : n <= k => k - n \in S}
<1>1. 0 \in T /\ \A n \in Nat : n \in T => n + 1 \in T
  OBVIOUS
<1>2. Nat \subseteq T
  BY <1>1, Induction
<1>3. ASSUME NEW n \in 0 .. k PROVE n \in S
  <2>1. k - n \in T /\ k - n <= k /\ k - (k - n) = n
    BY <1>2
  <2>2. QED
    BY <2>1
<1>4. QED
  BY <1>3

\* Induction over sequences, with a set.
LEMMA SeqInduction ==
  ASSUME NEW T, NEW S, <<>> \in S, \A s \in Seq(T), e \in T : s \in S => Append(s, e) \in S
  PROVE  Seq(T) \subseteq S
<1> DEFINE L == {n \in Nat : \A s \in Seq(T) : Len(s) = n => s \in S}
<1>1. 0 \in L
  BY EmptySeq
<1>2. ASSUME NEW n \in Nat, n \in L PROVE n + 1 \in L
  <2> SUFFICES ASSUME NEW s \in Seq(T), Len(s) = n + 1 PROVE s \in S
    OBVIOUS
  <2>1. s # <<>>
    OBVIOUS
  <2>2. PICK r \in Seq(T), e \in T : s = Append(r, e)
    BY <2>1, SequenceEmptyOrAppend
  <2>3. Len(r) = n
    BY <2>2
  <2>4. QED
    BY <2>2, <2>3, <1>2
<1>3. Nat \subseteq L
  <2> HIDE DEF L
  <2>1. QED
    BY <1>1, <1>2, Induction
<1>4. ASSUME NEW s \in Seq(T) PROVE s \in S
  <2>1. Len(s) \in Nat
    OBVIOUS
  <2>2. Len(s) \in L
    BY <2>1, <1>3
  <2>3. QED
    BY <2>2
<1>5. QED
  BY <1>4

-----------------------------------------------------------------------------
\* The pieces of a pattern's characters, from the p-th on, and what simplematch
\* says of them.
Step(pat, txt, cut, i) ==
  IF pat[i] = "*" THEN cut[i - 1] <= cut[i]
  ELSE cut[i] = cut[i - 1] + 1 /\ pat[i] \in {"?", txt[cut[i]]}
Rest(pat, txt, p, t) ==
  \E cut \in [p - 1 .. Len(pat) -> 0 .. Len(txt)] :
    /\ cut[p - 1] = t - 1 /\ cut[Len(pat)] = Len(txt)
    /\ \A i \in p .. Len(pat) : Step(pat, txt, cut, i)
Recursion(from, pat, txt) ==
  from = [p \in 1 .. Len(pat) + 1 |->
           IF p > Len(pat) THEN {Len(txt) + 1}
           ELSE IF pat[p] = "*" THEN UNION {1 .. t : t \in from[p + 1]}
           ELSE {t \in DOMAIN txt : pat[p] \in {"?", txt[t]} /\ t + 1 \in from[p + 1]}]

\* The rest of a pattern covers the rest of a text if its first character covers
\* a piece at the beginning and the others what follows.
LEMMA RestStep ==
  ASSUME NEW pat \in Seq(STRING), NEW txt \in Seq(STRING), NEW p \in 1 .. Len(pat),
         NEW t \in 1 .. Len(txt) + 1
  PROVE  Rest(pat, txt, p, t) <=>
           \E n \in 1 .. Len(txt) + 1 :
             /\ Rest(pat, txt, p + 1, n)
             /\ IF pat[p] = "*" THEN t <= n
                ELSE n = t + 1 /\ pat[p] \in {"?", txt[t]}
<1> DEFINE N == Len(pat)
           M == Len(txt)
<1>a. N \in Nat /\ M \in Nat
  OBVIOUS
<1>1. ASSUME Rest(pat, txt, p, t)
      PROVE  \E n \in 1 .. M + 1 :
               /\ Rest(pat, txt, p + 1, n)
               /\ IF pat[p] = "*" THEN t <= n
                  ELSE n = t + 1 /\ pat[p] \in {"?", txt[t]}
  <2>1. PICK cut \in [p - 1 .. N -> 0 .. M] :
               /\ cut[p - 1] = t - 1 /\ cut[N] = M
               /\ \A i \in p .. N : Step(pat, txt, cut, i)
    BY <1>1 DEF Rest
  <2> DEFINE c == [i \in (p + 1) - 1 .. N |-> cut[i]]
             n == cut[p] + 1
  <2>2. cut[p] \in 0 .. M /\ cut[p - 1] \in 0 .. M /\ p \in p .. N /\ n \in 1 .. M + 1
    <3>1. p \in p - 1 .. N /\ p - 1 \in p - 1 .. N /\ p \in p .. N
      BY <1>a
    <3>2. cut[p] \in 0 .. M /\ cut[p - 1] \in 0 .. M
      BY <3>1
    <3>3. QED
      BY <1>a, <3>1, <3>2
  <2>3. c \in [(p + 1) - 1 .. N -> 0 .. M]
    BY <1>a
  <2>4. c[(p + 1) - 1] = n - 1 /\ c[N] = M
    BY <1>a, <2>1, <2>2
  <2>5. ASSUME NEW i \in p + 1 .. N PROVE Step(pat, txt, c, i)
    <3>1. c[i] = cut[i] /\ c[i - 1] = cut[i - 1] /\ i \in p .. N
      BY <1>a
    <3>2. QED
      BY <3>1, <2>1 DEF Step
  <2>6. Rest(pat, txt, p + 1, n)
    BY <2>3, <2>4, <2>5 DEF Rest
  <2>7. Step(pat, txt, cut, p)
    BY <2>1, <2>2
  <2>8. IF pat[p] = "*" THEN t <= n ELSE n = t + 1 /\ pat[p] \in {"?", txt[t]}
    BY <2>7, <2>1, <2>2 DEF Step
  <2>9. QED
    BY <2>2, <2>6, <2>8
<1>2. ASSUME NEW n \in 1 .. M + 1, Rest(pat, txt, p + 1, n),
             IF pat[p] = "*" THEN t <= n ELSE n = t + 1 /\ pat[p] \in {"?", txt[t]}
      PROVE  Rest(pat, txt, p, t)
  <2>1. PICK cut \in [(p + 1) - 1 .. N -> 0 .. M] :
               /\ cut[(p + 1) - 1] = n - 1 /\ cut[N] = M
               /\ \A i \in p + 1 .. N : Step(pat, txt, cut, i)
    BY <1>2 DEF Rest
  <2> DEFINE c == [i \in p - 1 .. N |-> IF i = p - 1 THEN t - 1 ELSE cut[i]]
  <2>2. c \in [p - 1 .. N -> 0 .. M]
    BY <1>a
  <2>3. c[p - 1] = t - 1 /\ c[N] = M /\ c[p] = n - 1
    BY <1>a, <2>1
  <2>4. ASSUME NEW i \in p + 1 .. N PROVE Step(pat, txt, c, i)
    <3>1. c[i] = cut[i] /\ c[i - 1] = cut[i - 1]
      BY <1>a
    <3>2. QED
      BY <3>1, <2>1 DEF Step
  <2>5. Step(pat, txt, c, p)
    BY <2>3, <1>2 DEF Step
  <2>6. \A i \in p .. N : Step(pat, txt, c, i)
    BY <2>4, <2>5
  <2>7. QED
    BY <2>2, <2>3, <2>6 DEF Rest
<1>3. QED
  BY <1>1, <1>2

\* The sets of positions where the rest of the pattern covers the rest of the text
\* solve the equation of simplematch.
LEMMA Solution ==
  ASSUME NEW pat \in Seq(STRING), NEW txt \in Seq(STRING)
  PROVE  Recursion([p \in 1 .. Len(pat) + 1 |->
                      {t \in 1 .. Len(txt) + 1 : Rest(pat, txt, p, t)}], pat, txt)
<1> DEFINE N == Len(pat)
           M == Len(txt)
           D == [p \in 1 .. N + 1 |-> {t \in 1 .. M + 1 : Rest(pat, txt, p, t)}]
<1>a. N \in Nat /\ M \in Nat /\ DOMAIN txt = 1 .. M
  OBVIOUS
<1>1. D[N + 1] = {M + 1}
  <2>1. ASSUME NEW t \in 1 .. M + 1 PROVE Rest(pat, txt, N + 1, t) <=> t = M + 1
    <3>1. ASSUME Rest(pat, txt, N + 1, t) PROVE t = M + 1
      <4>1. PICK cut \in [(N + 1) - 1 .. N -> 0 .. M] : cut[(N + 1) - 1] = t - 1 /\ cut[N] = M
        BY <3>1 DEF Rest
      <4>2. QED
        BY <4>1, <1>a
    <3>2. ASSUME t = M + 1 PROVE Rest(pat, txt, N + 1, t)
      <4> DEFINE c == [i \in (N + 1) - 1 .. N |-> M]
      <4>1. c \in [(N + 1) - 1 .. N -> 0 .. M] /\ c[(N + 1) - 1] = t - 1 /\ c[N] = M
        BY <3>2, <1>a
      <4>2. N + 1 .. N = {}
        BY <1>a
      <4>3. QED
        BY <4>1, <4>2 DEF Rest
    <3>3. QED
      BY <3>1, <3>2
  <2>2. QED
    BY <2>1, <1>a
<1>2. ASSUME NEW p \in 1 .. N
      PROVE  D[p] = IF pat[p] = "*" THEN UNION {1 .. t : t \in D[p + 1]}
                    ELSE {t \in DOMAIN txt : pat[p] \in {"?", txt[t]} /\ t + 1 \in D[p + 1]}
  <2>1. \A t \in 1 .. M + 1 : t \in D[p] <=>
           \E n \in 1 .. M + 1 :
             /\ n \in D[p + 1]
             /\ IF pat[p] = "*" THEN t <= n ELSE n = t + 1 /\ pat[p] \in {"?", txt[t]}
    <3> SUFFICES ASSUME NEW t \in 1 .. M + 1
                 PROVE  t \in D[p] <=>
                          \E n \in 1 .. M + 1 :
                            /\ n \in D[p + 1]
                            /\ IF pat[p] = "*" THEN t <= n
                               ELSE n = t + 1 /\ pat[p] \in {"?", txt[t]}
      OBVIOUS
    <3>1. \A q \in 1 .. N + 1 : \A n \in 1 .. M + 1 : n \in D[q] <=> Rest(pat, txt, q, n)
      OBVIOUS
    <3>2. p \in 1 .. N + 1 /\ p + 1 \in 1 .. N + 1
      BY <1>a
    <3> HIDE DEF D
    <3>3. Rest(pat, txt, p, t) <=>
           \E n \in 1 .. M + 1 :
             /\ Rest(pat, txt, p + 1, n)
             /\ IF pat[p] = "*" THEN t <= n
                ELSE n = t + 1 /\ pat[p] \in {"?", txt[t]}
      BY RestStep
    <3>4. QED
      BY <3>1, <3>2, <3>3
  <2>2. D[p] \subseteq 1 .. M + 1 /\ D[p + 1] \subseteq 1 .. M + 1
    BY <1>a
  <2> HIDE DEF D
  <2>3. CASE pat[p] = "*"
    BY <2>1, <2>2, <2>3, <1>a
  <2>4. CASE pat[p] # "*"
    <3>1. ASSUME NEW t \in D[p]
          PROVE  t \in DOMAIN txt /\ pat[p] \in {"?", txt[t]} /\ t + 1 \in D[p + 1]
      BY <2>1, <2>2, <2>4, <1>a
    <3>2. ASSUME NEW t \in DOMAIN txt, pat[p] \in {"?", txt[t]}, t + 1 \in D[p + 1]
          PROVE  t \in D[p]
      BY <2>1, <2>2, <2>4, <3>2, <1>a
    <3>3. QED
      BY <3>1, <3>2, <2>4
  <2>5. QED
    BY <2>3, <2>4
<1>3. QED
  <2>1. ASSUME NEW p \in 1 .. N + 1
        PROVE  D[p] = IF p > N THEN {M + 1}
                      ELSE IF pat[p] = "*" THEN UNION {1 .. t : t \in D[p + 1]}
                      ELSE {t \in DOMAIN txt : pat[p] \in {"?", txt[t]} /\ t + 1 \in D[p + 1]}
    <3> HIDE DEF D
    <3>1. CASE p = N + 1
      <4>1. D[p] = {M + 1}
        BY <1>1, <3>1
      <4>2. p > N
        BY <3>1, <1>a
      <4>3. QED
        BY <4>1, <4>2
    <3>2. CASE p \in 1 .. N
      <4>1. ~(p > N)
        BY <3>2, <1>a
      <4>2. QED
        BY <1>2, <3>2, <4>1
    <3>3. QED
      BY <3>1, <3>2, <1>a
  <2>2. D = [p \in 1 .. N + 1 |-> D[p]]
    OBVIOUS
  <2> HIDE DEF D
  <2>3. D = [p \in 1 .. N + 1 |->
              IF p > N THEN {M + 1}
              ELSE IF pat[p] = "*" THEN UNION {1 .. t : t \in D[p + 1]}
              ELSE {t \in DOMAIN txt : pat[p] \in {"?", txt[t]} /\ t + 1 \in D[p + 1]}]
    BY <2>1, <2>2
  <2>4. QED
    BY <2>3 DEF Recursion, D

\* The equation has one solution.
LEMMA Unique ==
  ASSUME NEW pat \in Seq(STRING), NEW txt \in Seq(STRING), NEW f, NEW g,
         Recursion(f, pat, txt), Recursion(g, pat, txt)
  PROVE  f[1] = g[1]
<1> DEFINE N == Len(pat)
           S == {n \in Nat : n <= N => f[n + 1] = g[n + 1]}
<1>a. N \in Nat
  OBVIOUS
<1>1. N \in S
  BY <1>a DEF Recursion
<1>2. ASSUME NEW n \in 1 .. N, n \in S PROVE n - 1 \in S
  <2>1. f[n + 1] = g[n + 1]
    BY <1>2
  <2>2. /\ f[n] = IF pat[n] = "*" THEN UNION {1 .. t : t \in f[n + 1]}
                  ELSE {t \in DOMAIN txt : pat[n] \in {"?", txt[t]} /\ t + 1 \in f[n + 1]}
        /\ g[n] = IF pat[n] = "*" THEN UNION {1 .. t : t \in g[n + 1]}
                  ELSE {t \in DOMAIN txt : pat[n] \in {"?", txt[t]} /\ t + 1 \in g[n + 1]}
    <3>1. n \in 1 .. N + 1 /\ ~(n > N)
      BY <1>a
    <3>2. QED
      BY <3>1, Zenon DEF Recursion
  <2>3. f[n] = g[n]
    BY <2>1, <2>2
  <2>4. QED
    BY <2>3
<1>3. 0 \in S
  <2> HIDE DEF S, N
  <2>1. 0 .. N \subseteq S
    BY <1>1, <1>2, <1>a, Downward
  <2>2. QED
    BY <2>1, <1>a
<1>4. QED
  BY <1>3, <1>a

\* simplematch finds a cut of the text if there is one: a star and the characters
\* after it are tried at every place where they can match.
LEMMA SimplematchDenotes ==
  ASSUME NEW pat \in Seq(STRING), NEW txt \in Seq(STRING)
  PROVE  simplematch(pat, txt) <=> Denotes(pat, txt)
<1> DEFINE D == [p \in 1 .. Len(pat) + 1 |->
                   {t \in 1 .. Len(txt) + 1 : Rest(pat, txt, p, t)}]
           F == CHOOSE f : Recursion(f, pat, txt)
<1>a. Len(pat) \in Nat /\ Len(txt) \in Nat /\ DOMAIN pat = 1 .. Len(pat)
  OBVIOUS
<1>1. Recursion(D, pat, txt)
  BY Solution
<1>2. Recursion(F, pat, txt)
  BY <1>1
<1>3. simplematch(pat, txt) <=> 1 \in F[1]
  BY DEF simplematch, Recursion
<1>4. F[1] = D[1]
  <2> HIDE DEF F, D
  <2>1. QED
    BY <1>1, <1>2, Unique
<1>5. D[1] = {t \in 1 .. Len(txt) + 1 : Rest(pat, txt, 1, t)}
  BY <1>a
<1>6. 1 \in D[1] <=> Rest(pat, txt, 1, 1)
  BY <1>5, <1>a
<1>7. Rest(pat, txt, 1, 1) <=> Denotes(pat, txt)
  <2>1. 1 - 1 = 0
    OBVIOUS
  <2>2. QED
    BY <1>a, <2>1 DEF Rest, Denotes, Step
<1>8. QED
  BY <1>3, <1>4, <1>6, <1>7

-----------------------------------------------------------------------------
\* domain_components_match compares the labels with those of the host from the
\* n-th on.
LEMMA ComponentsAt ==
  ASSUME NEW host \in Seq(Seq(STRING)), NEW core \in Seq(Seq(STRING)),
         NEW n \in Nat, n + Len(core) <= Len(host)
  PROVE  domain_components_match(core, SubSeq(host, n + 1, n + Len(core))) <=>
           \A i \in 1 .. Len(core) : Denotes(core[i], host[n + i])
<1> DEFINE c == Len(core)
           sub == SubSeq(host, n + 1, n + c)
<1>1. c \in Nat /\ DOMAIN core = 1 .. c /\ Len(host) \in Nat
  OBVIOUS
<1>2. \A i \in n + 1 .. n + c : host[i] \in Seq(STRING)
  BY <1>1
<1>3. Len(sub) = c /\ \A i \in 1 .. c : sub[i] = host[n + i]
  <2> DEFINE m == n + 1
             k == n + c
  <2>1. m \in Int /\ k \in Int /\ \A i \in m .. k : host[i] \in Seq(STRING)
    BY <1>1, <1>2
  <2>2. k - m + 1 = c /\ (m <= k <=> c # 0) /\ \A i \in 1 .. c : m + i - 1 = n + i
    BY <1>1
  <2>3. sub = SubSeq(host, m, k)
    OBVIOUS
  <2> HIDE DEF m, k, c, sub
  <2>4. /\ Len(sub) = IF m <= k THEN k - m + 1 ELSE 0
        /\ \A i \in 1 .. k - m + 1 : sub[i] = host[m + i - 1]
    BY <2>1, <2>3, SubSeqProperties
  <2>5. QED
    BY <1>1, <2>2, <2>4
<1>4. \A i \in 1 .. c : core[i] \in Seq(STRING) /\ host[n + i] \in Seq(STRING)
  <2>1. \A i \in 1 .. c : n + i \in n + 1 .. n + c
    BY <1>1
  <2>2. QED
    BY <1>1, <1>2, <2>1
<1>5. \A i \in 1 .. c : simplematch(core[i], host[n + i]) <=> Denotes(core[i], host[n + i])
  BY <1>4, SimplematchDenotes
<1> HIDE DEF sub
<1>6. domain_components_match(core, sub) <=> \A i \in 1 .. c : simplematch(core[i], host[n + i])
  BY <1>1, <1>3 DEF domain_components_match
<1>7. QED
  BY <1>5, <1>6 DEF sub

\* Where the labels of a pattern may lie in a host.
Placed(p, host) ==
  \E first \in 1 .. Len(host) :
    LET last == first + Len(p.core) - 1
    IN /\ last <= Len(host)
       /\ first > 1 => p.left
       /\ last < Len(host) => p.right
       /\ \A i \in 1 .. Len(p.core) : Denotes(p.core[i], host[first + i - 1])

\* host_pattern_matches tries every place that the dots at the ends allow.
LEMMA HostPlaced ==
  ASSUME NEW p \in PatternType, NEW host \in Seq(Seq(STRING)), p.core # <<>>
  PROVE  host_pattern_matches(host, p) <=> Placed(p, host)
<1> DEFINE core == p.core
           c == Len(core)
           h == Len(host)
<1>1. core \in Seq(Seq(STRING)) /\ c \in Nat \ {0} /\ h \in Nat
  BY DEF PatternType
<1>2. ASSUME NEW n \in 0 .. h - c, p.left \/ n = 0, p.right \/ n = h - c,
             domain_components_match(core, SubSeq(host, n + 1, n + c))
      PROVE  Placed(p, host)
  <2>1. n \in Nat /\ n + c <= h /\ n + 1 \in 1 .. h
    <3> HIDE DEF h, c
    <3>1. QED
      BY <1>1
  <2>2. \A i \in 1 .. c : Denotes(core[i], host[n + i])
    BY <1>1, <1>2, <2>1, ComponentsAt
  <2>3. \A i \in 1 .. c : (n + 1) + i - 1 = n + i
    BY <1>1, <2>1
  <2>4. (n + 1) + c - 1 = n + c /\ (n + c < h => n # h - c) /\ (n + 1 > 1 => n # 0)
    <3> HIDE DEF h, c
    <3>1. QED
      BY <1>1, <2>1
  <2>5. QED
    BY <1>2, <2>1, <2>2, <2>3, <2>4 DEF Placed
<1>3. ASSUME Placed(p, host)
      PROVE  \E n \in 0 .. h - c :
               /\ p.left \/ n = 0
               /\ p.right \/ n = h - c
               /\ domain_components_match(core, SubSeq(host, n + 1, n + c))
  <2>1. PICK first \in 1 .. h :
               /\ first + c - 1 <= h
               /\ first > 1 => p.left
               /\ first + c - 1 < h => p.right
               /\ \A i \in 1 .. c : Denotes(core[i], host[first + i - 1])
    BY <1>3 DEF Placed
  <2> DEFINE n == first - 1
  <2>2. n \in Nat /\ n + c <= h /\ n \in 0 .. h - c
    BY <1>1, <2>1
  <2>3. \A i \in 1 .. c : first + i - 1 = n + i
    BY <1>1
  <2>4. (p.left \/ n = 0) /\ (p.right \/ n = h - c)
    <3>1. (first > 1 \/ n = 0) /\ (first + c - 1 < h \/ n = h - c)
      <4> HIDE DEF h, c
      <4>1. first \in Nat /\ first >= 1 /\ first + c - 1 <= h
        BY <1>1, <2>1
      <4>2. QED
        BY <1>1, <4>1
    <3>2. QED
      BY <2>1, <3>1
  <2>5. \A i \in 1 .. c : Denotes(core[i], host[n + i])
    BY <2>1, <2>3
  <2> HIDE DEF n, h, c
  <2>6. domain_components_match(core, SubSeq(host, n + 1, n + c))
    BY <1>1, <2>2, <2>5, ComponentsAt DEF h, c
  <2>7. QED
    BY <2>2, <2>4, <2>6
<1>4. host_pattern_matches(host, p) <=>
        \E n \in 0 .. h - c :
          /\ p.left \/ n = 0
          /\ p.right \/ n = h - c
          /\ domain_components_match(core, SubSeq(host, n + 1, n + c))
  BY DEF host_pattern_matches
<1> HIDE DEF h, c
<1>5. QED
  BY <1>2, <1>3, <1>4

\* url_matches_pattern answers what the pattern stands for, where the target is a
\* path or an authority.
LEMMA UrlMatchesCovered ==
  ASSUME NEW p \in PatternType, NEW r \in RequestType, r.form \in {"origin", "connect"}
  PROVE  url_matches_pattern(r, p) <=> Covers(p, r)
<1> DEFINE path == IF r.form = "connect" THEN <<"/">> ELSE r.path
<1>1. parse_url_components(r) = [host |-> r.host, path |-> path]
  BY DEF parse_url_components
<1>2. r.host \in Seq(Seq(STRING))
  BY DEF RequestType
<1>3. url_matches_pattern(r, p) <=>
        \/ AnyHost(p)
        \/ host_pattern_matches(r.host, p) /\ (Len(p.path) <= 1 \/ path_pattern_matches(path, p))
  BY <1>1 DEF url_matches_pattern
<1>4. Covers(p, r) <=>
        /\ p.core = <<>> \/ AnyHost(p) \/ Placed(p, r.host)
        /\ Len(p.path) <= 1 \/ path_pattern_matches(path, p)
  BY DEF Covers, Placed
<1>5. AnyHost(p) => Len(p.path) <= 1
  BY DEF AnyHost
<1>6. host_pattern_matches(r.host, p) <=> p.core = <<>> \/ Placed(p, r.host)
  <2>1. CASE p.core = <<>>
    BY <2>1 DEF host_pattern_matches
  <2>2. CASE p.core # <<>>
    BY <1>2, <2>2, HostPlaced
  <2>3. QED
    BY <2>1, <2>2
<1> HIDE DEF path
<1>7. QED
  BY <1>3, <1>4, <1>5, <1>6

\* A pattern without wildcards stands for its own text.
LEMMA PlainDenotes ==
  ASSUME NEW pat \in Seq(STRING), NEW txt \in Seq(STRING),
         \A k \in DOMAIN pat : pat[k] \notin {"*", "?"}
  PROVE  Denotes(pat, txt) <=> pat = txt
<1>a. Len(pat) \in Nat /\ Len(txt) \in Nat /\ DOMAIN pat = 1 .. Len(pat)
  OBVIOUS
<1>1. ASSUME Denotes(pat, txt) PROVE pat = txt
  <2>1. PICK cut \in [0 .. Len(pat) -> 0 .. Len(txt)] :
               /\ cut[0] = 0 /\ cut[Len(pat)] = Len(txt)
               /\ \A i \in 1 .. Len(pat) : cut[i] = cut[i - 1] + 1 /\ pat[i] = txt[cut[i]]
    BY <1>1, <1>a DEF Denotes
  <2> DEFINE S == {n \in Nat : n <= Len(pat) => cut[n] = n}
  <2>2. 0 \in S
    BY <2>1
  <2>3. ASSUME NEW n \in Nat, n \in S PROVE n + 1 \in S
    <3> SUFFICES ASSUME n + 1 <= Len(pat) PROVE cut[n + 1] = n + 1
      OBVIOUS
    <3>1. cut[n] = n /\ n + 1 \in 1 .. Len(pat) /\ (n + 1) - 1 = n
      BY <2>3, <1>a
    <3>2. cut[n + 1] = cut[(n + 1) - 1] + 1
      BY <3>1, <2>1
    <3>3. QED
      BY <3>1, <3>2
  <2>4. Nat \subseteq S
    <3> HIDE DEF S
    <3>1. QED
      BY <2>2, <2>3, Induction
  <2>5. \A n \in 0 .. Len(pat) : cut[n] = n
    BY <2>4, <1>a
  <2>6. Len(pat) = Len(txt)
    BY <2>1, <2>5, <1>a
  <2>7. \A i \in 1 .. Len(pat) : pat[i] = txt[i]
    BY <2>1, <2>5, <1>a
  <2>8. QED
    BY <2>6, <2>7, SeqEqual
<1>2. ASSUME pat = txt PROVE Denotes(pat, txt)
  <2> DEFINE cut == [i \in 0 .. Len(pat) |-> i]
  <2>1. cut \in [0 .. Len(pat) -> 0 .. Len(txt)] /\ cut[0] = 0 /\ cut[Len(pat)] = Len(txt)
    BY <1>a, <1>2
  <2>2. \A i \in DOMAIN pat : cut[i] = cut[i - 1] + 1 /\ pat[i] = txt[cut[i]]
    BY <1>a, <1>2
  <2> HIDE DEF cut
  <2>3. QED
    BY <2>1, <2>2 DEF Denotes
<1>3. QED
  BY <1>1, <1>2

\* On hosts and domains matches_host_pattern answers what the pattern stands for.
LEMMA PlainHost ==
  ASSUME NEW p \in PatternType, NEW r \in RequestType, Plain(p)
  PROVE  matches_host_pattern(r.host, p) <=> Covers(p, r)
<1> DEFINE core == p.core
           host == r.host
           c == Len(core)
           h == Len(host)
<1>1. /\ core \in Seq(Seq(STRING)) /\ host \in Seq(Seq(STRING))
      /\ c \in Nat \ {0} /\ h \in Nat /\ DOMAIN core = 1 .. c
      /\ core # <<>> /\ ~p.right /\ Len(p.path) <= 1
  BY DEF PatternType, RequestType, Plain
<1>2. \A i \in 1 .. c : \A k \in DOMAIN core[i] : core[i][k] \notin {"*", "?"}
  BY <1>1 DEF Plain, Uses
<1>3. ~AnyHost(p)
  <2> SUFFICES ASSUME core = <<<<"*">>>> PROVE FALSE
    BY <1>1 DEF AnyHost
  <2>1. 1 \in 1 .. c /\ core[1] = <<"*">> /\ 1 \in DOMAIN core[1] /\ core[1][1] = "*"
    BY <1>1
  <2>2. QED
    BY <1>2, <2>1
<1>4. \A i \in 1 .. c : \A t \in Seq(STRING) : Denotes(core[i], t) <=> core[i] = t
  <2>1. \A i \in 1 .. c : core[i] \in Seq(STRING)
    BY <1>1
  <2>2. QED
    BY <2>1, <1>2, PlainDenotes
<1>5. Covers(p, r) <=> Placed(p, host)
  BY <1>1, <1>3 DEF Covers, Placed
<1>6. Placed(p, host) <=>
        /\ c <= h
        /\ h - c + 1 > 1 => p.left
        /\ \A i \in 1 .. c : core[i] = host[h - c + i]
  <2>1. ASSUME Placed(p, host)
        PROVE  c <= h /\ (h - c + 1 > 1 => p.left) /\ \A i \in 1 .. c : core[i] = host[h - c + i]
    <3>1. PICK first \in 1 .. h :
                 /\ first + c - 1 <= h
                 /\ first > 1 => p.left
                 /\ first + c - 1 < h => p.right
                 /\ \A i \in 1 .. c : Denotes(core[i], host[first + i - 1])
      BY <2>1 DEF Placed
    <3>2. first = h - c + 1 /\ c <= h
      <4> HIDE DEF h, c
      <4>1. first \in Nat /\ first >= 1 /\ first + c - 1 <= h /\ ~(first + c - 1 < h)
        BY <3>1, <1>1
      <4>2. QED
        BY <1>1, <4>1
    <3>3. ASSUME NEW i \in 1 .. c PROVE core[i] = host[h - c + i]
      <4>1. first + i - 1 = h - c + i /\ first + i - 1 \in 1 .. h
        <5> HIDE DEF h, c
        <5>1. QED
          BY <3>2, <1>1
      <4>2. host[first + i - 1] \in Seq(STRING)
        BY <4>1, <1>1
      <4>3. QED
        BY <3>1, <4>1, <4>2, <1>4
    <3>4. QED
      BY <3>1, <3>2, <3>3
  <2>2. ASSUME c <= h, h - c + 1 > 1 => p.left, \A i \in 1 .. c : core[i] = host[h - c + i]
        PROVE  Placed(p, host)
    <3> DEFINE first == h - c + 1
    <3>1. first \in 1 .. h /\ first + c - 1 = h
      <4> HIDE DEF h, c
      <4>1. QED
        BY <1>1, <2>2
    <3>2. ASSUME NEW i \in 1 .. c PROVE Denotes(core[i], host[first + i - 1])
      <4>1. first + i - 1 = h - c + i
        BY <1>1
      <4>2. core[i] \in Seq(STRING) /\ core[i] = host[h - c + i]
        <5> HIDE DEF h, c, core, host
        <5>1. QED
          BY <1>1, <2>2
      <4>3. QED
        BY <4>1, <4>2, <1>4
    <3>3. /\ first + c - 1 <= h
          /\ first > 1 => p.left
          /\ first + c - 1 < h => p.right
      <4> HIDE DEF h, c
      <4>1. first + c - 1 <= h /\ ~(first + c - 1 < h)
        BY <1>1, <3>1
      <4>2. QED
        BY <2>2, <4>1
    <3> HIDE DEF first
    <3>4. QED
      BY <3>1, <3>2, <3>3 DEF Placed
  <2>3. QED
    BY <2>1, <2>2
<1>7. CASE p.left
  <2>1. matches_host_pattern(host, p) <=>
          c <= h /\ SubSeq(host, h - c + 1, h) = core
    BY <1>1, <1>7 DEF matches_host_pattern, EndsWith
  <2>2. ASSUME c <= h
        PROVE  SubSeq(host, h - c + 1, h) = core <=> \A i \in 1 .. c : core[i] = host[h - c + i]
    <3> DEFINE sub == SubSeq(host, h - c + 1, h)
    <3>1. h - c + 1 \in Int /\ h \in Int /\ h - (h - c + 1) + 1 = c
      BY <1>1
    <3>2. \A i \in h - c + 1 .. h : host[i] \in Seq(STRING)
      BY <1>1, <2>2
    <3> HIDE DEF h, c
    <3>3. /\ sub \in Seq(Seq(STRING))
          /\ Len(sub) = IF h - c + 1 <= h THEN h - (h - c + 1) + 1 ELSE 0
          /\ \A i \in 1 .. h - (h - c + 1) + 1 : sub[i] = host[h - c + 1 + i - 1]
      BY <3>1, <3>2, SubSeqProperties
    <3> HIDE DEF sub
    <3>4. Len(sub) = c /\ \A i \in 1 .. c : sub[i] = host[h - c + i]
      <4>1. Len(sub) = c
        BY <3>1, <3>3, <1>1
      <4>2. ASSUME NEW i \in 1 .. c PROVE sub[i] = host[h - c + i]
        <5>1. h - c + 1 + i - 1 = h - c + i
          BY <1>1
        <5>2. QED
          BY <3>1, <3>3, <5>1
      <4>3. QED
        BY <4>1, <4>2
    <3>5. sub = core <=> \A i \in 1 .. c : core[i] = sub[i]
      BY <3>3, <3>4, <1>1, SeqEqual DEF c
    <3>6. QED
      BY <3>4, <3>5 DEF sub
  <2>3. h - c + 1 > 1 => p.left
    BY <1>7
  <2>4. QED
    BY <1>5, <1>6, <2>1, <2>2, <2>3
<1>8. CASE ~p.left
  <2>1. matches_host_pattern(host, p) <=> host = core
    <3>1. ~Uses(core, {"*"})
      BY <1>1, <1>2 DEF Uses
    <3>2. QED
      BY <1>1, <1>8, <3>1 DEF matches_host_pattern
  <2>2. host = core <=> c = h /\ \A i \in 1 .. c : core[i] = host[i]
    BY <1>1, SeqEqual
  <2> HIDE DEF h, c, core, host
  <2>3. c <= h /\ ~(h - c + 1 > 1) <=> c = h
    BY <1>1
  <2>4. c = h => \A i \in 1 .. c : h - c + i = i
    BY <1>1
  <2>5. Placed(p, host) <=> c = h /\ \A i \in 1 .. c : core[i] = host[i]
    <3>1. CASE c = h
      <4>1. \A i \in 1 .. c : host[h - c + i] = host[i]
        BY <2>4, <3>1
      <4>2. QED
        BY <1>6, <1>8, <2>3, <3>1, <4>1
    <3>2. CASE c # h
      BY <1>6, <1>8, <2>3, <3>2
    <3>3. QED
      BY <3>1, <3>2
  <2>6. QED
    BY <1>5, <2>1, <2>2, <2>5 DEF host
<1>9. QED
  BY <1>7, <1>8

-----------------------------------------------------------------------------
\* FlattenSeq by its prefixes: f[i] is the first i sequences put together.
Chain(f, ss, n) ==
  \A i \in 1 .. n : f[i] = IF i = 1 THEN ss[i] ELSE f[i - 1] \o ss[i]

\* There is such a sequence of prefixes.
LEMMA ChainExists ==
  ASSUME NEW T, NEW ss \in Seq(Seq(T))
  PROVE  \E f \in [1 .. Len(ss) -> Seq(T)] : Chain(f, ss, Len(ss))
<1> DEFINE S == {n \in Nat : n <= Len(ss) => \E f \in [1 .. n -> Seq(T)] : Chain(f, ss, n)}
<1>a. Len(ss) \in Nat
  OBVIOUS
<1>1. 0 \in S
  <2> DEFINE f == [i \in 1 .. 0 |-> <<>>]
  <2>1. f \in [1 .. 0 -> Seq(T)] /\ 1 .. 0 = {}
    OBVIOUS
  <2> HIDE DEF f
  <2>2. Chain(f, ss, 0)
    BY <2>1 DEF Chain
  <2>3. QED
    BY <2>1, <2>2
<1>2. ASSUME NEW n \in Nat, n \in S PROVE n + 1 \in S
  <2> SUFFICES ASSUME n + 1 <= Len(ss)
               PROVE  \E g \in [1 .. n + 1 -> Seq(T)] : Chain(g, ss, n + 1)
    OBVIOUS
  <2>1. PICK f \in [1 .. n -> Seq(T)] : Chain(f, ss, n)
    BY <1>2, <1>a
  <2>2. ss[n + 1] \in Seq(T)
    BY <1>a
  <2> DEFINE new == IF n = 0 THEN ss[n + 1] ELSE f[n] \o ss[n + 1]
             g == [i \in 1 .. n + 1 |-> IF i = n + 1 THEN new ELSE f[i]]
  <2>3. new \in Seq(T)
    <3>1. CASE n = 0
      BY <2>2, <3>1
    <3>2. CASE n # 0
      <4>1. f[n] \in Seq(T)
        <5>1. n \in 1 .. n
          BY <3>2
        <5>2. QED
          BY <5>1
      <4>2. f[n] \o ss[n + 1] \in Seq(T)
        BY <4>1, <2>2, ConcatProperties
      <4>3. QED
        BY <4>2, <3>2
    <3>3. QED
      BY <3>1, <3>2
  <2>4. g \in [1 .. n + 1 -> Seq(T)]
    <3> HIDE DEF new
    <3>1. QED
      BY <2>3
  <2>5. Chain(g, ss, n + 1)
    <3> SUFFICES ASSUME NEW i \in 1 .. n + 1
                 PROVE  g[i] = IF i = 1 THEN ss[i] ELSE g[i - 1] \o ss[i]
      BY DEF Chain
    <3>1. CASE i = n + 1
      <4>1. g[i] = new /\ (n # 0 => g[i - 1] = f[n])
        <5> HIDE DEF new
        <5>1. i - 1 = n /\ (n # 0 => n \in 1 .. n + 1 /\ n # n + 1)
          BY <3>1
        <5>2. QED
          BY <3>1, <5>1
      <4>2. QED
        BY <4>1, <3>1
    <3>2. CASE i \in 1 .. n
      <4>1. g[i] = f[i] /\ (i # 1 => g[i - 1] = f[i - 1])
        <5> HIDE DEF new
        <5>1. i # n + 1 /\ (i # 1 => i - 1 \in 1 .. n + 1 /\ i - 1 # n + 1)
          BY <3>2
        <5>2. QED
          BY <3>2, <5>1
      <4>2. f[i] = IF i = 1 THEN ss[i] ELSE f[i - 1] \o ss[i]
        BY <2>1, <3>2 DEF Chain
      <4>3. QED
        BY <4>1, <4>2
    <3>3. QED
      BY <3>1, <3>2
  <2>6. QED
    BY <2>4, <2>5
<1>3. Nat \subseteq S
  <2> HIDE DEF S
  <2>1. QED
    BY <1>1, <1>2, Induction
<1>4. QED
  BY <1>3, <1>a

\* There is only one.
LEMMA ChainUnique ==
  ASSUME NEW ss, NEW n \in Nat \ {0}, NEW f, NEW g, Chain(f, ss, n), Chain(g, ss, n)
  PROVE  f[n] = g[n]
<1> DEFINE S == {k \in Nat : k \in 1 .. n => f[k] = g[k]}
<1>1. 0 \in S
  OBVIOUS
<1>2. ASSUME NEW k \in Nat, k \in S PROVE k + 1 \in S
  <2> SUFFICES ASSUME k + 1 \in 1 .. n PROVE f[k + 1] = g[k + 1]
    OBVIOUS
  <2>1. CASE k = 0
    BY <2>1 DEF Chain
  <2>2. CASE k # 0
    <3>1. f[k] = g[k] /\ k + 1 # 1 /\ (k + 1) - 1 = k
      BY <2>2, <1>2
    <3>2. f[k + 1] = f[(k + 1) - 1] \o ss[k + 1] /\ g[k + 1] = g[(k + 1) - 1] \o ss[k + 1]
      BY <3>1 DEF Chain
    <3>3. QED
      BY <3>1, <3>2
  <2>3. QED
    BY <2>1, <2>2
<1>3. Nat \subseteq S
  <2> HIDE DEF S
  <2>1. QED
    BY <1>1, <1>2, Induction
<1>4. n \in S
  BY <1>3
<1>5. QED
  BY <1>4

\* FlattenSeq is the last of the prefixes.
LEMMA FlattenChain ==
  ASSUME NEW T, NEW ss \in Seq(Seq(T)), Len(ss) # 0, NEW g, Chain(g, ss, Len(ss))
  PROVE  FlattenSeq(ss) = g[Len(ss)]
<1> DEFINE Flat(f) == f = [i \in 1 .. Len(ss) |-> IF i = 1 THEN ss[i] ELSE f[i - 1] \o ss[i]]
           F == CHOOSE f : Flat(f)
<1>a. Len(ss) \in Nat \ {0}
  OBVIOUS
<1>1. \E f : Flat(f)
  <2>1. PICK f \in [1 .. Len(ss) -> Seq(T)] : Chain(f, ss, Len(ss))
    BY ChainExists
  <2>2. f = [i \in 1 .. Len(ss) |-> f[i]]
    OBVIOUS
  <2>3. Flat(f)
    BY <2>1, <2>2 DEF Chain
  <2>4. QED
    BY <2>3
<1>2. Flat(F)
  BY <1>1
<1>3. FlattenSeq(ss) = F[Len(ss)]
  BY <1>a DEF FlattenSeq
<1>4. Chain(F, ss, Len(ss))
  <2> HIDE DEF F
  <2>1. QED
    BY <1>2 DEF Chain
<1>5. F[Len(ss)] = g[Len(ss)]
  <2> HIDE DEF F
  <2>1. QED
    BY <1>4, <1>a, ChainUnique
<1>6. QED
  BY <1>3, <1>5

\* Of no sequences it is the empty one.
LEMMA FlattenEmpty == FlattenSeq(<<>>) = <<>>
  BY DEF FlattenSeq

\* One more sequence is put at the end.
LEMMA FlattenAppend ==
  ASSUME NEW T, NEW ss \in Seq(Seq(T)), NEW s \in Seq(T)
  PROVE  /\ FlattenSeq(ss) \in Seq(T)
         /\ FlattenSeq(Append(ss, s)) = FlattenSeq(ss) \o s
<1> DEFINE tt == Append(ss, s)
           n == Len(ss)
<1>1. tt \in Seq(Seq(T)) /\ Len(tt) = n + 1 /\ n \in Nat /\ tt[n + 1] = s
      /\ \A i \in 1 .. n : tt[i] = ss[i]
  BY AppendProperties
<1>2. PICK g \in [1 .. n + 1 -> Seq(T)] : Chain(g, tt, n + 1)
  BY <1>1, ChainExists, ZenonT(40)
<1>3. FlattenSeq(tt) = g[n + 1]
  <2> HIDE DEF tt, n
  <2>1. QED
    BY <1>1, <1>2, FlattenChain
<1>4. CASE n = 0
  <2>1. ss = <<>>
    BY <1>4
  <2>2. FlattenSeq(ss) = <<>> /\ <<>> \in Seq(T)
    BY <2>1, FlattenEmpty
  <2>3. g[n + 1] = s
    BY <1>1, <1>2, <1>4 DEF Chain
  <2>4. <<>> \o s = s
    BY ConcatEmptySeq
  <2>5. QED
    BY <1>3, <2>2, <2>3, <2>4
<1>5. CASE n # 0
  <2>1. Chain(g, ss, n)
    <3> HIDE DEF tt, n
    <3>1. \A i \in 1 .. n : i \in 1 .. n + 1
      BY <1>1
    <3>2. QED
      BY <1>1, <1>2, <3>1 DEF Chain
  <2>2. FlattenSeq(ss) = g[n]
    <3> HIDE DEF tt
    <3>1. QED
      BY <2>1, <1>5, FlattenChain
  <2>3. g[n + 1] = g[n] \o s
    <3>1. n + 1 \in 1 .. n + 1 /\ n + 1 # 1 /\ (n + 1) - 1 = n
      BY <1>1, <1>5
    <3> HIDE DEF tt, n
    <3>2. g[n + 1] = g[(n + 1) - 1] \o tt[n + 1]
      BY <1>2, <3>1 DEF Chain
    <3>3. QED
      BY <3>1, <3>2, <1>1
  <2>4. g[n] \in Seq(T)
    BY <1>1, <1>5
  <2>5. QED
    BY <1>3, <2>2, <2>3, <2>4
<1>6. QED
  BY <1>4, <1>5

\* What g makes of each element, put together.
Collect(g, s) == FlattenSeq([i \in DOMAIN s |-> g[s[i]]])
Lister(U, T) == [U -> Seq(T)]

\* The elements are of those that g gives.
LEMMA CollectTyped ==
  ASSUME NEW T, NEW U, NEW g \in Lister(U, T), NEW s \in Seq(U)
  PROVE  Collect(g, s) \in Seq(T)
<1> DEFINE ss == [i \in DOMAIN s |-> g[s[i]]]
<1>1. \A u \in U : g[u] \in Seq(T)
  BY DEF Lister
<1>2. DOMAIN s = 1 .. Len(s) /\ Len(s) \in Nat /\ \A i \in 1 .. Len(s) : s[i] \in U
  OBVIOUS
<1>3. ss \in Seq(Seq(T))
  BY <1>1, <1>2
<1>4. <<>> \in Seq(T)
  OBVIOUS
<1>5. Collect(g, s) = FlattenSeq(ss)
  BY DEF Collect
<1> HIDE DEF ss
<1>6. QED
  BY <1>3, <1>4, <1>5, FlattenAppend

\* Nothing is made of nothing.
LEMMA CollectEmpty ==
  ASSUME NEW g
  PROVE  Collect(g, <<>>) = <<>>
<1>1. [i \in DOMAIN <<>> |-> g[<<>>[i]]] = <<>>
  OBVIOUS
<1>2. QED
  BY <1>1, FlattenEmpty DEF Collect

\* One more element adds what g makes of it.
LEMMA CollectAppend ==
  ASSUME NEW T, NEW U, NEW g \in Lister(U, T), NEW s \in Seq(U), NEW x \in U
  PROVE  Collect(g, Append(s, x)) = Collect(g, s) \o g[x]
<1> DEFINE ss == [i \in DOMAIN s |-> g[s[i]]]
           tt == [i \in DOMAIN Append(s, x) |-> g[Append(s, x)[i]]]
<1>0. \A u \in U : g[u] \in Seq(T)
  BY DEF Lister
<1>1. DOMAIN s = 1 .. Len(s) /\ Len(s) \in Nat /\ \A i \in 1 .. Len(s) : s[i] \in U
  OBVIOUS
<1>2. ss \in Seq(Seq(T)) /\ Len(ss) = Len(s)
  BY <1>0, <1>1
<1>3. /\ DOMAIN Append(s, x) = 1 .. Len(s) + 1
      /\ \A i \in 1 .. Len(s) : Append(s, x)[i] = s[i]
      /\ Append(s, x)[Len(s) + 1] = x
  BY AppendProperties, <1>1
<1>4. tt = Append(ss, g[x])
  <2>1. tt \in Seq(Seq(T)) /\ Len(tt) = Len(s) + 1
    <3>1. tt = [i \in 1 .. Len(s) + 1 |-> g[Append(s, x)[i]]]
      BY <1>3
    <3>2. \A i \in 1 .. Len(s) + 1 : g[Append(s, x)[i]] \in Seq(T)
      <4>1. \A i \in 1 .. Len(s) + 1 : Append(s, x)[i] \in U
        BY <1>1, <1>3
      <4>2. QED
        BY <1>0, <4>1
    <3>3. QED
      BY <1>1, <3>1, <3>2
  <2>2. /\ Append(ss, g[x]) \in Seq(Seq(T)) /\ Len(Append(ss, g[x])) = Len(s) + 1
        /\ \A i \in 1 .. Len(s) : Append(ss, g[x])[i] = ss[i]
        /\ Append(ss, g[x])[Len(s) + 1] = g[x]
    <3> HIDE DEF ss
    <3>1. QED
      BY <1>0, <1>1, <1>2, AppendProperties
  <2>3. \A i \in 1 .. Len(s) : tt[i] = ss[i]
    BY <1>1, <1>3
  <2>4. tt[Len(s) + 1] = g[x]
    BY <1>1, <1>3
  <2> HIDE DEF tt, ss
  <2>5. QED
    BY <1>1, <2>1, <2>2, <2>3, <2>4, SeqEqual
<1>5. Collect(g, s) = FlattenSeq(ss) /\ Collect(g, Append(s, x)) = FlattenSeq(tt)
  BY DEF Collect
<1> HIDE DEF ss, tt
<1>6. QED
  BY <1>0, <1>2, <1>4, <1>5, FlattenAppend

\* Two sequences, one after the other, add up.
LEMMA CollectConcat ==
  ASSUME NEW T, NEW U, NEW g \in Lister(U, T), NEW s \in Seq(U), NEW t \in Seq(U)
  PROVE  Collect(g, s \o t) = Collect(g, s) \o Collect(g, t)
<1> DEFINE S == {u \in Seq(U) : Collect(g, s \o u) = Collect(g, s) \o Collect(g, u)}
<1>a. \A u \in Seq(U) : Collect(g, u) \in Seq(T)
  BY CollectTyped
<1>b. \A u \in Seq(U), x \in U : Collect(g, Append(u, x)) = Collect(g, u) \o g[x]
  BY CollectAppend
<1>1. <<>> \in S
  <2>1. s \o <<>> = s /\ <<>> \in Seq(U)
    BY ConcatEmptySeq
  <2>2. Collect(g, <<>>) = <<>>
    BY CollectEmpty
  <2>3. Collect(g, s) \o <<>> = Collect(g, s)
    BY <1>a, ConcatEmptySeq
  <2>4. QED
    BY <2>1, <2>2, <2>3
<1>2. ASSUME NEW u \in Seq(U), NEW x \in U, u \in S PROVE Append(u, x) \in S
  <2>1. s \o Append(u, x) = Append(s \o u, x) /\ s \o u \in Seq(U)
    OBVIOUS
  <2>2. Collect(g, Append(s \o u, x)) = Collect(g, s \o u) \o g[x]
    BY <2>1, <1>b
  <2>3. Collect(g, Append(u, x)) = Collect(g, u) \o g[x]
    BY <1>b
  <2>4. Collect(g, s \o u) = Collect(g, s) \o Collect(g, u)
    BY <1>2
  <2>5. (Collect(g, s) \o Collect(g, u)) \o g[x] = Collect(g, s) \o (Collect(g, u) \o g[x])
    <3>1. Collect(g, s) \in Seq(T) /\ Collect(g, u) \in Seq(T) /\ g[x] \in Seq(T)
      BY <1>a DEF Lister
    <3>2. QED
      <4> DEFINE a == Collect(g, s)  b == Collect(g, u)  c == g[x]
      <4>1. a \in Seq(T) /\ b \in Seq(T) /\ c \in Seq(T)
        BY <3>1
      <4> HIDE DEF a, b, c
      <4>2. (a \o b) \o c = a \o (b \o c)
        BY <4>1, ConcatAssociative, SMTT(30)
      <4>3. QED
        BY <4>2 DEF a, b, c
  <2>6. Append(u, x) \in Seq(U)
    OBVIOUS
  <2>7. QED
    BY <2>1, <2>2, <2>3, <2>4, <2>5, <2>6
<1>3. Seq(U) \subseteq S
  <2> HIDE DEF S
  <2>1. QED
    BY <1>1, <1>2, SeqInduction
<1>4. QED
  BY <1>3

\* One more element is one more member.
LEMMA ToSetAppend ==
  ASSUME NEW T, NEW s \in Seq(T), NEW x \in T
  PROVE  ToSet(Append(s, x)) = ToSet(s) \union {x}
<1>1. DOMAIN s = 1 .. Len(s) /\ Len(s) \in Nat
  OBVIOUS
<1>2. /\ DOMAIN Append(s, x) = 1 .. Len(s) + 1
      /\ \A i \in 1 .. Len(s) : Append(s, x)[i] = s[i]
      /\ Append(s, x)[Len(s) + 1] = x
  BY AppendProperties, <1>1
<1>3. 1 .. Len(s) + 1 = (1 .. Len(s)) \union {Len(s) + 1}
  BY <1>1
<1>4. QED
  BY <1>1, <1>2, <1>3 DEF ToSet

\* retain with a condition: one element is gone, the others are there.
LEMMA WithoutRemoves ==
  ASSUME NEW T, NEW s \in Seq(T), NEW e
  PROVE  Without(s, e) \in Seq(T) /\ ToSet(Without(s, e)) = ToSet(s) \ {e}
<1> DEFINE g == [x \in T |-> IF x = e THEN <<>> ELSE <<x>>]
           S == {u \in Seq(T) : /\ Without(u, e) \in Seq(T)
                                /\ ToSet(Without(u, e)) = ToSet(u) \ {e}}
<1>1. g \in Lister(T, T)
  BY DEF Lister
<1>2. ASSUME NEW u \in Seq(T) PROVE Without(u, e) = Collect(g, u)
  <2>1. [i \in DOMAIN u |-> IF u[i] = e THEN <<>> ELSE <<u[i]>>] = [i \in DOMAIN u |-> g[u[i]]]
    OBVIOUS
  <2>2. QED
    BY <2>1 DEF Without, Collect
<1>3. <<>> \in S
  <2>1. [i \in DOMAIN <<>> |-> IF <<>>[i] = e THEN <<>> ELSE <<<<>>[i]>>] = <<>>
    OBVIOUS
  <2>2. Without(<<>>, e) = <<>>
    BY <2>1, FlattenEmpty DEF Without
  <2>3. ToSet(<<>>) = {}
    BY DEF ToSet
  <2>4. <<>> \in Seq(T)
    OBVIOUS
  <2>5. QED
    BY <2>2, <2>3, <2>4
<1>4. ASSUME NEW u \in Seq(T), NEW x \in T, u \in S PROVE Append(u, x) \in S
  <2>1. Append(u, x) \in Seq(T)
    OBVIOUS
  <2> HIDE DEF g
  <2>2. Without(Append(u, x), e) = Without(u, e) \o g[x]
    <3>1. Collect(g, Append(u, x)) = Collect(g, u) \o g[x]
      BY <1>1, CollectAppend
    <3>2. QED
      BY <1>2, <2>1, <3>1
  <2>3. ToSet(Append(u, x)) = ToSet(u) \union {x}
    BY ToSetAppend
  <2>4. Without(u, e) \in Seq(T) /\ ToSet(Without(u, e)) = ToSet(u) \ {e}
    BY <1>4
  <2>5. CASE x = e
    <3>1. g[x] = <<>>
      BY <2>5 DEF g
    <3>2. Without(Append(u, x), e) = Without(u, e)
      BY <2>2, <2>4, <3>1, ConcatEmptySeq
    <3>3. QED
      BY <2>1, <2>3, <2>4, <2>5, <3>2
  <2>6. CASE x # e
    <3>1. g[x] = <<x>>
      BY <2>6 DEF g
    <3>2. Without(Append(u, x), e) = Append(Without(u, e), x)
      BY <2>2, <2>4, <3>1, AppendIsConcat
    <3>3. ToSet(Append(Without(u, e), x)) = ToSet(Without(u, e)) \union {x}
      BY <2>4, ToSetAppend
    <3>4. Append(Without(u, e), x) \in Seq(T)
      BY <2>4
    <3>5. QED
      BY <2>1, <2>3, <2>4, <2>6, <3>2, <3>3, <3>4
  <2>7. QED
    BY <2>5, <2>6
<1>5. Seq(T) \subseteq S
  <2> HIDE DEF S
  <2>1. QED
    BY <1>3, <1>4, SeqInduction
<1>6. QED
  BY <1>5

\* The largest of some positions is one of them.
LEMMA MaxOf ==
  ASSUME NEW n \in Nat, NEW S, S \subseteq 1 .. n, S # {}
  PROVE  Max(S) \in S /\ \A m \in S : m <= Max(S)
<1> DEFINE D == {n - m : m \in S}
<1>1. D \subseteq Nat /\ D # {}
  <2>1. \A m \in S : n - m \in Nat
    OBVIOUS
  <2>2. QED
    BY <2>1
<1>2. PICK d \in D : \A k \in D : d <= k
  <2> HIDE DEF D
  <2>1. QED
    BY <1>1, LeastNat
<1>3. PICK x \in S : d = n - x
  BY <1>2
<1>4. \A m \in S : n - x <= n - m
  BY <1>2, <1>3
<1>5. \A m \in S : m <= x
  BY <1>4
<1>6. QED
  BY <1>5 DEF Max

\* The largest position is the new one.
LEMMA MaxTop ==
  ASSUME NEW n \in Nat, NEW S, S \subseteq 1 .. n
  PROVE  Max(S \union {n + 1}) = n + 1
<1>1. S \union {n + 1} \subseteq 1 .. n + 1
  OBVIOUS
<1> DEFINE R == S \union {n + 1}
<1>2. Max(R) \in R /\ n + 1 <= Max(R)
  <2>1. n + 1 \in Nat /\ R # {} /\ n + 1 \in R
    OBVIOUS
  <2> HIDE DEF R
  <2>2. QED
    BY <1>1, <2>1, MaxOf DEF R
<1>3. \A m \in R : n + 1 <= m => m = n + 1
  OBVIOUS
<1>4. QED
  BY <1>2, <1>3

\* The smallest of some numbers is one of them.
LEMMA MinOf ==
  ASSUME NEW S, S \subseteq Nat, S # {}
  PROVE  Min(S) \in S
<1>1. \E n \in S : \A m \in S : n <= m
  BY LeastNat
<1>2. QED
  BY <1>1 DEF Min

\* One more action is the last word on the settings it speaks of.
LEMMA LastAppend ==
  ASSUME NEW T, NEW s \in Seq(T), NEW t \in T, NEW S
  PROVE  LastOf(Append(s, t), S) = IF t \in S THEN t ELSE LastOf(s, S)
<1> DEFINE n == Len(s)
           js == {j \in DOMAIN s : s[j] \in S}
           ks == {j \in DOMAIN Append(s, t) : Append(s, t)[j] \in S}
<1>1. n \in Nat /\ DOMAIN s = 1 .. n /\ js \subseteq 1 .. n
  OBVIOUS
<1>2. /\ DOMAIN Append(s, t) = 1 .. n + 1
      /\ \A i \in 1 .. n : Append(s, t)[i] = s[i]
      /\ Append(s, t)[n + 1] = t
  BY AppendProperties, <1>1
<1>3. 1 .. n + 1 = (1 .. n) \union {n + 1}
  BY <1>1
<1>4. CASE t \in S
  <2>1. ks = js \union {n + 1}
    BY <1>1, <1>2, <1>3, <1>4
  <2>2. Max(ks) = n + 1
    <3> HIDE DEF n, js, ks
    <3>1. QED
      BY <1>1, <2>1, MaxTop
  <2>3. ks # {}
    BY <2>1
  <2>4. LastOf(Append(s, t), S) = Append(s, t)[n + 1]
    BY <2>2, <2>3 DEF LastOf
  <2>5. QED
    BY <1>2, <1>4, <2>4
<1>5. CASE t \notin S
  <2>1. ks = js
    BY <1>1, <1>2, <1>3, <1>5
  <2>2. CASE js = {}
    BY <1>5, <2>1, <2>2 DEF LastOf
  <2>3. CASE js # {}
    <3>1. Max(js) \in 1 .. n
      <4> HIDE DEF n, js, ks
      <4>1. QED
        BY <1>1, <2>3, MaxOf
    <3>2. Append(s, t)[Max(js)] = s[Max(js)]
      BY <1>2, <3>1
    <3>3. QED
      BY <1>5, <2>1, <2>3, <3>2 DEF LastOf
  <2>4. QED
    BY <2>2, <2>3
<1>6. QED
  BY <1>4, <1>5

-----------------------------------------------------------------------------
\* The lines that do not reject the file.
ReadLines == {l \in Lines : ~Fails(l)}

\* One more line is one more line of its own field.
LEMMA LinesAppend ==
  ASSUME NEW ls \in Seq(ReadLines), NEW l \in ReadLines, NEW f
  PROVE  /\ LinesOf(ls, f) \subseteq 1 .. Len(ls)
         /\ LinesOf(Append(ls, l), f) =
              IF Stands(l) /\ Field(l.key) = f THEN LinesOf(ls, f) \union {Len(ls) + 1}
              ELSE LinesOf(ls, f)
<1> DEFINE n == Len(ls)
<1>1. n \in Nat /\ DOMAIN ls = 1 .. n
  OBVIOUS
<1>2. /\ DOMAIN Append(ls, l) = 1 .. n + 1
      /\ \A i \in 1 .. n : Append(ls, l)[i] = ls[i]
      /\ Append(ls, l)[n + 1] = l
  BY AppendProperties, <1>1
<1>3. 1 .. n + 1 = (1 .. n) \union {n + 1} /\ n + 1 \notin 1 .. n
  BY <1>1
<1> HIDE DEF n
<1>4. LinesOf(ls, f) \subseteq 1 .. n
  BY <1>1 DEF LinesOf
<1>5. LinesOf(Append(ls, l), f) =
        IF Stands(l) /\ Field(l.key) = f THEN LinesOf(ls, f) \union {n + 1} ELSE LinesOf(ls, f)
  BY <1>1, <1>2, <1>3 DEF LinesOf
<1>6. QED
  BY <1>4, <1>5 DEF n

\* The entries of the lists, line by line.
Entries == {ListEntry(l) : l \in {k \in Lines : Stands(k) /\ AddsToList(k)}}
ListLister ==
  [l \in ReadLines |-> IF Stands(l) /\ AddsToList(l) THEN <<ListEntry(l)>> ELSE <<>>]

\* The list that is stated is made line by line.
LEMMA StatedListIs ==
  ASSUME NEW ls \in Seq(ReadLines)
  PROVE  /\ ListLister \in Lister(ReadLines, Entries)
         /\ StatedList(ls) = Collect(ListLister, ls)
         /\ StatedList(ls) \in Seq(Entries)
<1>1. ListLister \in Lister(ReadLines, Entries)
  <2>1. ASSUME NEW l \in ReadLines
        PROVE  (IF Stands(l) /\ AddsToList(l) THEN <<ListEntry(l)>> ELSE <<>>) \in Seq(Entries)
    <3>1. CASE Stands(l) /\ AddsToList(l)
      <4>1. ListEntry(l) \in Entries
        BY <3>1 DEF ReadLines, Entries
      <4>2. QED
        BY <3>1, <4>1
    <3>2. CASE ~(Stands(l) /\ AddsToList(l))
      BY <3>2
    <3>3. QED
      BY <3>1, <3>2
  <2>2. QED
    BY <2>1 DEF ListLister, Lister
<1>2. StatedList(ls) = Collect(ListLister, ls)
  <2>1. \A i \in DOMAIN ls : ls[i] \in ReadLines
    OBVIOUS
  <2>2. [i \in DOMAIN ls |->
           IF Stands(ls[i]) /\ AddsToList(ls[i]) THEN <<ListEntry(ls[i])>> ELSE <<>>]
          = [i \in DOMAIN ls |-> ListLister[ls[i]]]
    BY <2>1 DEF ListLister
  <2>3. QED
    BY <2>2 DEF StatedList, Collect
<1>3. QED
  BY <1>1, <1>2, CollectTyped

\* A line that is no entry leaves the list as it is, another one is its last entry.
LEMMA ListAppend ==
  ASSUME NEW ls \in Seq(ReadLines), NEW l \in ReadLines
  PROVE  StatedList(Append(ls, l)) =
           IF Stands(l) /\ AddsToList(l) THEN Append(StatedList(ls), ListEntry(l))
           ELSE StatedList(ls)
<1>1. Append(ls, l) \in Seq(ReadLines)
  OBVIOUS
<1>2. Collect(ListLister, Append(ls, l)) = Collect(ListLister, ls) \o ListLister[l]
  BY StatedListIs, CollectAppend
<1>3. StatedList(Append(ls, l)) = StatedList(ls) \o ListLister[l]
  BY <1>1, <1>2, StatedListIs
<1>4. StatedList(ls) \in Seq(Entries)
  BY StatedListIs
<1>5. CASE Stands(l) /\ AddsToList(l)
  <2>1. ListLister[l] = <<ListEntry(l)>> /\ ListEntry(l) \in Entries
    BY <1>5 DEF ListLister, Entries, ReadLines
  <2>2. QED
    BY <1>3, <1>4, <1>5, <2>1, AppendIsConcat
<1>6. CASE ~(Stands(l) /\ AddsToList(l))
  <2>1. ListLister[l] = <<>>
    BY <1>6 DEF ListLister
  <2>2. QED
    BY <1>3, <1>4, <1>6, <2>1, ConcatEmptySeq
<1>7. QED
  BY <1>5, <1>6

\* The addresses to listen on, line by line.
AddressSet == UNION {{Listen[l.words[i]] : i \in DOMAIN l.words} : l \in Lines}
ListenLister ==
  [l \in ReadLines |->
     IF Stands(l) /\ Field(l.key) = "listen-address" THEN Addresses(l) ELSE <<>>]
AllAddresses(ls) == Collect(ListenLister, ls)

\* The addresses that are stated are those of the lines, or the default.
LEMMA ListenIs ==
  ASSUME NEW ls \in Seq(ReadLines)
  PROVE  /\ ListenLister \in Lister(ReadLines, AddressSet)
         /\ AllAddresses(ls) \in Seq(AddressSet)
         /\ StatedListen(ls) =
              IF LinesOf(ls, "listen-address") = {} THEN DefaultListen ELSE AllAddresses(ls)
<1>1. ListenLister \in Lister(ReadLines, AddressSet)
  <2>1. ASSUME NEW l \in ReadLines PROVE Addresses(l) \in Seq(AddressSet)
    <3>1. l \in Lines
      BY DEF ReadLines
    <3>2. Len(l.words) \in Nat /\ DOMAIN l.words = 1 .. Len(l.words)
      BY <3>1, LoadingAssumption
    <3>3. \A i \in DOMAIN l.words : Listen[l.words[i]] \in AddressSet
      BY <3>1 DEF AddressSet
    <3>4. QED
      BY <3>2, <3>3 DEF Addresses
  <2>2. <<>> \in Seq(AddressSet)
    OBVIOUS
  <2>3. QED
    BY <2>1, <2>2 DEF ListenLister, Lister
<1>2. FlattenSeq([i \in DOMAIN ls |->
        IF i \in LinesOf(ls, "listen-address") THEN Addresses(ls[i]) ELSE <<>>])
        = AllAddresses(ls)
  <2>1. \A i \in DOMAIN ls :
          /\ ls[i] \in ReadLines
          /\ i \in LinesOf(ls, "listen-address") <=>
               Stands(ls[i]) /\ Field(ls[i].key) = "listen-address"
    BY DEF LinesOf
  <2>2. [i \in DOMAIN ls |->
           IF i \in LinesOf(ls, "listen-address") THEN Addresses(ls[i]) ELSE <<>>]
          = [i \in DOMAIN ls |-> ListenLister[ls[i]]]
    BY <2>1 DEF ListenLister
  <2>3. QED
    BY <2>2 DEF AllAddresses, Collect
<1>3. QED
  BY <1>1, <1>2, CollectTyped DEF StatedListen, AllAddresses

\* No line, no address.
LEMMA NoAddresses ==
  \A ls \in Seq(ReadLines) : LinesOf(ls, "listen-address") = {} => AllAddresses(ls) = <<>>
<1> DEFINE S == {ls \in Seq(ReadLines) :
                   LinesOf(ls, "listen-address") = {} => AllAddresses(ls) = <<>>}
<1>1. <<>> \in S
  BY CollectEmpty DEF AllAddresses
<1>2. ASSUME NEW ls \in Seq(ReadLines), NEW l \in ReadLines, ls \in S
      PROVE  Append(ls, l) \in S
  <2>1. AllAddresses(Append(ls, l)) = AllAddresses(ls) \o ListenLister[l]
    BY ListenIs, CollectAppend DEF AllAddresses
  <2>2. Append(ls, l) \in Seq(ReadLines)
    OBVIOUS
  <2>3. ASSUME LinesOf(Append(ls, l), "listen-address") = {}
        PROVE  AllAddresses(Append(ls, l)) = <<>>
    <3>1. ~(Stands(l) /\ Field(l.key) = "listen-address")
          /\ LinesOf(ls, "listen-address") = {}
      BY <2>3, LinesAppend
    <3>2. ListenLister[l] = <<>> /\ AllAddresses(ls) = <<>>
      BY <1>2, <3>1 DEF ListenLister
    <3>3. QED
      BY <2>1, <3>2
  <2>4. QED
    BY <2>2, <2>3
<1>3. Seq(ReadLines) \subseteq S
  <2> HIDE DEF S
  <2>1. QED
    BY <1>1, <1>2, SeqInduction
<1>4. QED
  BY <1>3

\* A line of addresses adds to those of the lines before, but not to the default.
LEMMA ListenAppend ==
  ASSUME NEW ls \in Seq(ReadLines), NEW l \in ReadLines
  PROVE  StatedListen(Append(ls, l)) =
           IF Stands(l) /\ Field(l.key) = "listen-address"
           THEN (IF LinesOf(ls, "listen-address") = {} THEN <<>> ELSE StatedListen(ls))
                  \o Addresses(l)
           ELSE StatedListen(ls)
<1>1. AllAddresses(Append(ls, l)) = AllAddresses(ls) \o ListenLister[l]
  BY ListenIs, CollectAppend DEF AllAddresses
<1>2. Append(ls, l) \in Seq(ReadLines)
  OBVIOUS
<1>3. AllAddresses(ls) \in Seq(AddressSet)
  BY ListenIs
<1>4. CASE Stands(l) /\ Field(l.key) = "listen-address"
  <2>1. ListenLister[l] = Addresses(l)
    BY <1>4 DEF ListenLister
  <2>2. LinesOf(Append(ls, l), "listen-address") # {}
    BY <1>4, LinesAppend
  <2>3. StatedListen(Append(ls, l)) = AllAddresses(ls) \o Addresses(l)
    BY <1>1, <1>2, <2>1, <2>2, ListenIs
  <2>4. AllAddresses(ls) =
          IF LinesOf(ls, "listen-address") = {} THEN <<>> ELSE StatedListen(ls)
    BY ListenIs, NoAddresses
  <2>5. QED
    BY <1>4, <2>3, <2>4
<1>5. CASE ~(Stands(l) /\ Field(l.key) = "listen-address")
  <2>1. ListenLister[l] = <<>>
    BY <1>5 DEF ListenLister
  <2>2. LinesOf(Append(ls, l), "listen-address") = LinesOf(ls, "listen-address")
    BY <1>5, LinesAppend
  <2>3. AllAddresses(Append(ls, l)) = AllAddresses(ls)
    BY <1>1, <1>3, <2>1, ConcatEmptySeq
  <2>4. QED
    BY <1>2, <1>5, <2>2, <2>3, ListenIs
<1>6. QED
  BY <1>4, <1>5

\* A line of a field that has one value replaces the value.
LEMMA ValueAppend ==
  ASSUME NEW ls \in Seq(ReadLines), NEW l \in ReadLines
  PROVE  StatedValue(Append(ls, l)) =
           IF Stands(l) /\ Scalar(l)
           THEN [g \in DOMAIN StatedValue(ls) \union {Field(l.key)} |->
                   IF g = Field(l.key) THEN Value(l) ELSE StatedValue(ls)[g]]
           ELSE StatedValue(ls)
<1> DEFINE n == Len(ls)
           ms == Append(ls, l)
           Scalars(s) == {k \in DOMAIN s : Stands(s[k]) /\ Scalar(s[k])}
           Fields(s) == {Field(s[i].key) : i \in Scalars(s)}
<1>1. n \in Nat /\ DOMAIN ls = 1 .. n
  OBVIOUS
<1>2. /\ DOMAIN ms = 1 .. n + 1
      /\ \A i \in 1 .. n : ms[i] = ls[i]
      /\ ms[n + 1] = l
  BY AppendProperties, <1>1
<1>3. 1 .. n + 1 = (1 .. n) \union {n + 1} /\ n + 1 \notin 1 .. n
  BY <1>1
<1>4. \A f : /\ LinesOf(ls, f) \subseteq 1 .. n
             /\ LinesOf(ms, f) = IF Stands(l) /\ Field(l.key) = f
                                 THEN LinesOf(ls, f) \union {n + 1} ELSE LinesOf(ls, f)
  BY LinesAppend
<1>5. \A s : StatedValue(s) = [f \in Fields(s) |-> Value(s[Max(LinesOf(s, f))])]
  BY DEF StatedValue
<1> HIDE DEF n, ms
<1>6. \A f \in Fields(ls) : LinesOf(ls, f) # {} /\ Max(LinesOf(ls, f)) \in 1 .. n
  <2>1. \A f \in Fields(ls) : LinesOf(ls, f) # {}
    BY DEF LinesOf
  <2>2. QED
    BY <1>1, <1>4, <2>1, MaxOf
<1>7. Scalars(ms) = IF Stands(l) /\ Scalar(l) THEN Scalars(ls) \union {n + 1} ELSE Scalars(ls)
  BY <1>1, <1>2, <1>3
<1>8. Fields(ms) = IF Stands(l) /\ Scalar(l) THEN Fields(ls) \union {Field(l.key)}
                 ELSE Fields(ls)
  <2>1. \A i \in Scalars(ls) : ms[i] = ls[i]
    BY <1>1, <1>2
  <2>2. QED
    BY <1>2, <1>7, <2>1
<1>9. ASSUME NEW f \in Fields(ls), ~(Stands(l) /\ Field(l.key) = f)
      PROVE  Value(ms[Max(LinesOf(ms, f))]) = Value(ls[Max(LinesOf(ls, f))])
  BY <1>2, <1>4, <1>6, <1>9
<1>10. CASE Stands(l) /\ Scalar(l)
  <2>1. Max(LinesOf(ms, Field(l.key))) = n + 1
    BY <1>1, <1>4, <1>10, MaxTop
  <2>2. Value(ms[Max(LinesOf(ms, Field(l.key)))]) = Value(l)
    BY <1>2, <2>1
  <2>3. DOMAIN StatedValue(ls) = Fields(ls)
        /\ \A f \in Fields(ls) : StatedValue(ls)[f] = Value(ls[Max(LinesOf(ls, f))])
    BY <1>5
  <2> HIDE DEF Fields
  <2>4. QED
    BY <1>5, <1>8, <1>9, <1>10, <2>2, <2>3 DEF ms
<1>11. CASE ~(Stands(l) /\ Scalar(l))
  <2>1. \A f \in Fields(ls) : ~(Stands(l) /\ Field(l.key) = f)
    BY <1>11 DEF Scalar
  <2> HIDE DEF Fields
  <2>2. QED
    BY <1>5, <1>8, <1>9, <1>11, <2>1 DEF ms
<1>12. QED
  BY <1>10, <1>11

\* A directive is of one kind.
LEMMA Kinds ==
  ASSUME NEW l
  PROVE  /\ Scalar(l) => ~AddsToList(l) /\ Field(l.key) \notin {"debug", "listen-address"}
         /\ AddsToList(l) => Field(l.key) \notin {"debug", "listen-address"}
         /\ Field(l.key) = "listen-address" <=> l.key = "listen-address"
         /\ ListEntry(l)[1] = l.key
<1>1. l.key \in Repeated => Field(l.key) = l.key
  BY DEF Repeated, Forwarding, Access, Field, Alias
<1>2. Repeated \intersect
        (Switch \union Count \union Text \union {"debug", "listen-address"}) = {}
  BY DEF Repeated, Forwarding, Access, Switch, Count, Text
<1>3. (Switch \union Count \union Text) \intersect {"debug", "listen-address"} = {}
  BY DEF Switch, Count, Text
<1>4. Field(l.key) = "listen-address" <=> l.key = "listen-address"
  BY DEF Field, Alias
<1>5. QED
  BY <1>1, <1>2, <1>3, <1>4 DEF Scalar, AddsToList, ListEntry

\* Config::parse, one line further: the settings stated by the lines before and
\* this one are those that parse_line makes of it.
LEMMA ParseLine ==
  ASSUME NEW ls \in Seq(ReadLines), NEW l \in ReadLines
  PROVE  parse_line(Stated(ls), l) = Stated(Append(ls, l))
<1> DEFINE c == Stated(ls)
           d == Stated(Append(ls, l))
           Debug(s) == UNION {Levels(s[i]) : i \in LinesOf(s, "debug")}
           listens == Stands(l) /\ Field(l.key) = "listen-address"
<1>1. /\ d.value = StatedValue(Append(ls, l)) /\ d.listed = StatedList(Append(ls, l))
      /\ d.levels = Usual \union Debug(Append(ls, l))
      /\ d.listen = StatedListen(Append(ls, l))
      /\ d.first_listen = (LinesOf(Append(ls, l), "listen-address") = {})
      /\ d = [value |-> d.value, listed |-> d.listed, levels |-> d.levels,
              listen |-> d.listen, first_listen |-> d.first_listen]
  BY DEF Stated
<1>2. /\ c.value = StatedValue(ls) /\ c.listed = StatedList(ls)
      /\ c.levels = Usual \union Debug(ls)
      /\ c.listen = StatedListen(ls)
      /\ c.first_listen = (LinesOf(ls, "listen-address") = {})
      /\ c = [value |-> c.value, listed |-> c.listed, levels |-> c.levels,
              listen |-> c.listen, first_listen |-> c.first_listen]
  BY DEF Stated
<1>3. d.value = IF Stands(l) /\ Scalar(l)
                THEN [g \in DOMAIN c.value \union {Field(l.key)} |->
                        IF g = Field(l.key) THEN Value(l) ELSE c.value[g]]
                ELSE c.value
  BY <1>1, <1>2, ValueAppend
<1>4. d.listed = IF Stands(l) /\ AddsToList(l) THEN Append(c.listed, ListEntry(l)) ELSE c.listed
  BY <1>1, <1>2, ListAppend
<1>5. d.listen = IF listens THEN (IF c.first_listen THEN <<>> ELSE c.listen) \o Addresses(l)
                 ELSE c.listen
  BY <1>1, <1>2, ListenAppend
<1>6. d.first_listen = IF listens THEN FALSE ELSE c.first_listen
  <2>1. LinesOf(Append(ls, l), "listen-address") = {}
          <=> ~listens /\ LinesOf(ls, "listen-address") = {}
    BY LinesAppend
  <2> HIDE DEF listens
  <2>2. CASE listens
    BY <1>1, <2>1, <2>2
  <2>3. CASE ~listens
    <3>1. (LinesOf(Append(ls, l), "listen-address") = {}) = (LinesOf(ls, "listen-address") = {})
      BY <2>1, <2>3
    <3>2. d.first_listen = c.first_listen
      BY <1>1, <1>2, <3>1
    <3>3. QED
      BY <2>3, <3>2
  <2>4. QED
    BY <2>2, <2>3
<1>7. d.levels = IF Stands(l) /\ Field(l.key) = "debug" THEN c.levels \union Levels(l)
                 ELSE c.levels
  <2>1. /\ LinesOf(ls, "debug") \subseteq 1 .. Len(ls)
        /\ LinesOf(Append(ls, l), "debug") =
             IF Stands(l) /\ Field(l.key) = "debug"
             THEN LinesOf(ls, "debug") \union {Len(ls) + 1} ELSE LinesOf(ls, "debug")
    BY LinesAppend
  <2>2. /\ \A i \in 1 .. Len(ls) : Append(ls, l)[i] = ls[i]
        /\ Append(ls, l)[Len(ls) + 1] = l
    BY AppendProperties
  <2>3. Debug(Append(ls, l)) = IF Stands(l) /\ Field(l.key) = "debug"
                               THEN Debug(ls) \union Levels(l) ELSE Debug(ls)
    BY <2>1, <2>2
  <2>4. QED
    BY <1>1, <1>2, <2>3
<1>8. Scalar(l) => SetField(c, Field(l.key), Value(l)) =
        [value |-> [g \in DOMAIN c.value \union {Field(l.key)} |->
                      IF g = Field(l.key) THEN Value(l) ELSE c.value[g]],
         listed |-> c.listed, levels |-> c.levels, listen |-> c.listen,
         first_listen |-> c.first_listen]
  <2> HIDE DEF c
  <2>1. \A f, x : SetField([value |-> c.value, listed |-> c.listed, levels |-> c.levels,
                          listen |-> c.listen, first_listen |-> c.first_listen], f, x)
          = [value |-> [g \in DOMAIN c.value \union {f} |-> IF g = f THEN x ELSE c.value[g]],
             listed |-> c.listed, levels |-> c.levels, listen |-> c.listen,
             first_listen |-> c.first_listen]
    BY SMTT(30) DEF SetField
  <2>2. \A f, x : SetField(c, f, x) = SetField([value |-> c.value, listed |-> c.listed,
                     levels |-> c.levels, listen |-> c.listen,
                     first_listen |-> c.first_listen], f, x)
    BY <1>2
  <2>3. QED
    BY <2>1, <2>2
<1> HIDE DEF c, d, Debug
<1>9. CASE ~Stands(l)
  <2>1. parse_line(c, l) = c
    BY <1>9 DEF parse_line, Stands
  <2>2. d = c
    BY <1>1, <1>2, <1>3, <1>4, <1>5, <1>6, <1>7, <1>9
  <2>3. QED
    BY <2>1, <2>2 DEF c, d
<1>10. CASE Stands(l) /\ Scalar(l)
  <2>1. parse_line(c, l) = SetField(c, Field(l.key), Value(l))
    BY <1>10 DEF parse_line, Stands
  <2>2. d.listed = c.listed /\ d.listen = c.listen /\ d.first_listen = c.first_listen
        /\ d.levels = c.levels
    BY <1>4, <1>5, <1>6, <1>7, <1>10, Kinds
  <2>3. parse_line(c, l) = d
    BY <1>1, <1>3, <1>8, <1>10, <2>1, <2>2
  <2>4. QED
    BY <2>3 DEF c, d
<1>11. CASE Stands(l) /\ AddsToList(l)
  <2>1. parse_line(c, l) = [c EXCEPT !.listed = Append(@, ListEntry(l))]
    BY <1>11, Kinds DEF parse_line, Stands
  <2>2. d.value = c.value /\ d.listen = c.listen /\ d.first_listen = c.first_listen
        /\ d.levels = c.levels
    BY <1>3, <1>5, <1>6, <1>7, <1>11, Kinds
  <2>3. parse_line(c, l) = d
    BY <1>1, <1>2, <1>4, <1>11, <2>1, <2>2
  <2>4. QED
    BY <2>3 DEF c, d
<1>12. CASE Stands(l) /\ Field(l.key) = "debug"
  <2>1. ~Scalar(l) /\ ~AddsToList(l) /\ l.key # "listen-address"
    BY <1>12, Kinds
  <2>2. parse_line(c, l) = [c EXCEPT !.levels = @ \union Levels(l)]
    BY <1>12, <2>1 DEF parse_line, Stands
  <2>3. d.value = c.value /\ d.listed = c.listed /\ d.listen = c.listen
        /\ d.first_listen = c.first_listen
    BY <1>3, <1>4, <1>5, <1>6, <1>12, <2>1
  <2>4. parse_line(c, l) = d
    BY <1>1, <1>2, <1>7, <1>12, <2>2, <2>3
  <2>5. QED
    BY <2>4 DEF c, d
<1>13. CASE listens
  <2>1. ~Scalar(l) /\ ~AddsToList(l) /\ l.key = "listen-address" /\ Field(l.key) # "debug"
    BY <1>13, Kinds
  <2>2. parse_line(c, l) =
          [c EXCEPT !.listen = (IF c.first_listen THEN <<>> ELSE @) \o Addresses(l),
                    !.first_listen = FALSE]
    BY <1>13, <2>1 DEF parse_line, Stands, ListenOn
  <2>3. d.value = c.value /\ d.listed = c.listed /\ d.levels = c.levels
    BY <1>3, <1>4, <1>7, <1>13, <2>1
  <2>4. parse_line(c, l) = d
    BY <1>1, <1>2, <1>5, <1>6, <1>13, <2>2, <2>3
  <2>5. QED
    BY <2>4 DEF c, d
<1>14. CASE /\ Stands(l) /\ ~Scalar(l) /\ ~AddsToList(l)
            /\ Field(l.key) \notin {"debug", "listen-address"}
  <2>1. parse_line(c, l) = c
    BY <1>14, Kinds DEF parse_line, Stands
  <2>2. d = c
    BY <1>1, <1>2, <1>3, <1>4, <1>5, <1>6, <1>7, <1>14
  <2>3. QED
    BY <2>1, <2>2 DEF c, d
<1>15. QED
  BY <1>9, <1>10, <1>11, <1>12, <1>13, <1>14

\* A configuration without lines states the defaults.
LEMMA NothingStated == Stated(<<>>) = DefaultConfig
<1>1. \A f : LinesOf(<<>>, f) = {}
  BY DEF LinesOf
<1>2. StatedValue(<<>>) = <<>>
  BY DEF StatedValue
<1>3. StatedList(<<>>) = <<>>
  <2>1. <<>> \in Seq(ReadLines)
    OBVIOUS
  <2>2. QED
    BY <2>1, CollectEmpty, StatedListIs
<1>4. StatedListen(<<>>) = DefaultListen
  BY <1>1 DEF StatedListen
<1>5. UNION {Levels(<<>>[i]) : i \in LinesOf(<<>>, "debug")} = {}
  BY <1>1
<1>6. QED
  BY <1>1, <1>2, <1>3, <1>4, <1>5 DEF Stated, DefaultConfig

-----------------------------------------------------------------------------
\* What the lines say of an address: whether one permits it and no later one
\* denies it, and whether any line restricts the access at all.
On(l, key, addr) == l.key = key /\ matches_pattern(addr, l.words)
Grants(ls, addr) ==
  \E i \in DOMAIN ls :
    /\ On(ls[i], "permit-access", addr)
    /\ \A j \in DOMAIN ls : j > i => ~On(ls[j], "deny-access", addr)
Restricts(ls) == \E i \in DOMAIN ls : ls[i].key \in Access /\ Stands(ls[i])

\* One more line has the last word on the addresses it matches.
LEMMA GrantsAppend ==
  ASSUME NEW ls \in Seq(ReadLines), NEW l \in ReadLines, NEW addr
  PROVE  /\ Grants(Append(ls, l), addr) <=>
              \/ On(l, "permit-access", addr)
              \/ ~On(l, "deny-access", addr) /\ Grants(ls, addr)
         /\ Restricts(Append(ls, l)) <=> (l.key \in Access /\ Stands(l)) \/ Restricts(ls)
<1> DEFINE n == Len(ls)
           ms == Append(ls, l)
           P(k) == On(k, "permit-access", addr)
           D(k) == On(k, "deny-access", addr)
<1>1. n \in Nat /\ DOMAIN ls = 1 .. n
  OBVIOUS
<1>2. /\ DOMAIN ms = 1 .. n + 1
      /\ \A i \in 1 .. n : ms[i] = ls[i]
      /\ ms[n + 1] = l
  BY AppendProperties, <1>1
<1>3. 1 .. n + 1 = (1 .. n) \union {n + 1} /\ \A i \in 1 .. n : n + 1 > i /\ ~(i > n + 1)
  BY <1>1
<1>4. ~(n + 1 > n + 1)
  BY <1>1
<1>5. ~(P(l) /\ D(l))
  BY DEF On
<1> HIDE DEF n, ms, P, D
<1>6. Restricts(ms) <=> (l.key \in Access /\ Stands(l)) \/ Restricts(ls)
  BY <1>1, <1>2, <1>3 DEF Restricts
<1>7. CASE P(l)
  <2>1. \A j \in 1 .. n + 1 : ~(j > n + 1)
    BY <1>3, <1>4
  <2>2. Grants(ms, addr)
    BY <1>2, <1>3, <1>7, <2>1 DEF Grants, P
  <2>3. QED
    BY <1>6, <1>7, <2>2 DEF ms, P
<1>8. CASE D(l)
  <2>1. ~Grants(ms, addr)
    BY <1>2, <1>3, <1>5, <1>8 DEF Grants, P, D
  <2>2. QED
    BY <1>5, <1>6, <1>8, <2>1 DEF ms, P, D
<1>9. CASE ~P(l) /\ ~D(l)
  <2>1. Grants(ms, addr) => Grants(ls, addr)
    <3>1. SUFFICES ASSUME NEW i \in DOMAIN ms, P(ms[i]),
                          \A j \in DOMAIN ms : j > i => ~D(ms[j])
                   PROVE  Grants(ls, addr)
      BY DEF Grants, P, D
    <3>2. i \in 1 .. n
      BY <1>2, <1>3, <1>9, <3>1
    <3>3. QED
      BY <1>1, <1>2, <1>3, <3>1, <3>2 DEF Grants, P, D
  <2>2. Grants(ls, addr) => Grants(ms, addr)
    <3>1. SUFFICES ASSUME NEW i \in DOMAIN ls, P(ls[i]),
                          \A j \in DOMAIN ls : j > i => ~D(ls[j])
                   PROVE  Grants(ms, addr)
      BY DEF Grants, P, D
    <3>2. \A j \in DOMAIN ms : j > i => ~D(ms[j])
      BY <1>1, <1>2, <1>3, <1>9, <3>1
    <3>3. QED
      BY <1>1, <1>2, <1>3, <3>1, <3>2 DEF Grants, P, D
  <2>3. QED
    BY <1>6, <1>9, <2>1, <2>2 DEF ms, P, D
<1>10. QED
  BY <1>7, <1>8, <1>9

\* What the entries say, as is_access_allowed reads them.
Judges(e, addr) == e[1] \in Access /\ matches_pattern(addr, e[2])
Permitted(es, addr) ==
  LET on == {i \in DOMAIN es : Judges(es[i], addr)}
  IN \E i \in on : es[i][1] = "permit-access" /\ \A j \in on : j <= i
Restricted(es) == \E i \in DOMAIN es : es[i][1] \in Access

\* One more entry decides for the addresses it matches.
LEMMA PermittedAppend ==
  ASSUME NEW T, NEW es \in Seq(T), NEW e \in T, NEW addr
  PROVE  Permitted(Append(es, e), addr) <=>
           IF Judges(e, addr) THEN e[1] = "permit-access" ELSE Permitted(es, addr)
<1> DEFINE n == Len(es)
           fs == Append(es, e)
           J(k) == Judges(k, addr)
           P(k) == k[1] = "permit-access"
           on(s) == {i \in DOMAIN s : J(s[i])}
<1>1. n \in Nat /\ DOMAIN es = 1 .. n
  OBVIOUS
<1>2. /\ DOMAIN fs = 1 .. n + 1
      /\ \A i \in 1 .. n : fs[i] = es[i]
      /\ fs[n + 1] = e
  BY AppendProperties, <1>1
<1>3. 1 .. n + 1 = (1 .. n) \union {n + 1} /\ \A i \in 1 .. n : i <= n + 1 /\ ~(n + 1 <= i)
  BY <1>1
<1>4. n + 1 <= n + 1
  BY <1>1
<1> HIDE DEF n, fs, J, P
<1>5. on(fs) = IF J(e) THEN on(es) \union {n + 1} ELSE on(es)
  BY <1>1, <1>2, <1>3
<1>6. \A s : Permitted(s, addr) <=> \E i \in on(s) : P(s[i]) /\ \A j \in on(s) : j <= i
  BY DEF Permitted, P, J
<1>7. on(es) \subseteq 1 .. n /\ \A i \in on(es) : fs[i] = es[i]
  BY <1>1, <1>2
<1> HIDE DEF on
<1>8. CASE J(e)
  <2>1. Permitted(fs, addr) <=> P(e)
    BY <1>2, <1>3, <1>4, <1>5, <1>6, <1>7, <1>8
  <2>2. QED
    BY <1>8, <2>1 DEF J, P, fs
<1>9. CASE ~J(e)
  <2>1. Permitted(fs, addr) <=> Permitted(es, addr)
    BY <1>5, <1>6, <1>7, <1>9
  <2>2. QED
    BY <1>9, <2>1 DEF J, fs
<1>10. QED
  BY <1>8, <1>9

\* A line of the access list is an entry as it is written, and no address matches
\* a line without words.
LEMMA AccessEntries ==
  ASSUME NEW l
  PROVE  /\ l.key \in Access => AddsToList(l) /\ ListEntry(l) = <<l.key, l.words>>
         /\ ListEntry(l)[1] = l.key
         /\ \A addr : ~matches_pattern(addr, <<>>)
<1>1. Access \subseteq Repeated /\ "client-specific-tag" \notin Access
      /\ Access \intersect Forwarding = {}
  BY DEF Access, Repeated, Forwarding
<1>2. \A addr : ~matches_pattern(addr, <<>>)
  BY DEF matches_pattern, Everyone
<1>3. QED
  BY <1>1, <1>2 DEF AddsToList, ListEntry

\* The entries say what the lines say.
LEMMA AccessStated ==
  \A ls \in Seq(ReadLines) :
    /\ Restricted(StatedList(ls)) <=> Restricts(ls)
    /\ \A addr : Permitted(StatedList(ls), addr) <=> Grants(ls, addr)
<1> DEFINE S == {ls \in Seq(ReadLines) :
                   /\ Restricted(StatedList(ls)) <=> Restricts(ls)
                   /\ \A addr : Permitted(StatedList(ls), addr) <=> Grants(ls, addr)}
<1>1. <<>> \in S
  <2>1. StatedList(<<>>) = <<>>
    BY NothingStated DEF Stated, DefaultConfig
  <2>2. QED
    BY <2>1 DEF Restricted, Restricts, Permitted, Grants
<1>2. ASSUME NEW ls \in Seq(ReadLines), NEW l \in ReadLines, ls \in S
      PROVE  Append(ls, l) \in S
  <2> DEFINE L == StatedList(ls)
             M == StatedList(Append(ls, l))
  <2>1. L \in Seq(Entries) /\ Append(ls, l) \in Seq(ReadLines)
    BY StatedListIs
  <2>2. M = IF Stands(l) /\ AddsToList(l) THEN Append(L, ListEntry(l)) ELSE L
    BY ListAppend
  <2>3. Restricted(L) <=> Restricts(ls)
    BY <1>2
  <2>4. \A addr : Permitted(L, addr) <=> Grants(ls, addr)
    BY <1>2
  <2>5. Stands(l) /\ AddsToList(l) => ListEntry(l) \in Entries
    BY DEF Entries, ReadLines
  <2> HIDE DEF L, M
  <2>6. Restricted(M) <=> (l.key \in Access /\ Stands(l)) \/ Restricted(L)
    <3>1. CASE Stands(l) /\ AddsToList(l)
      <4>1. /\ DOMAIN L = 1 .. Len(L) /\ Len(L) \in Nat
            /\ DOMAIN Append(L, ListEntry(l)) = 1 .. Len(L) + 1
            /\ \A i \in 1 .. Len(L) : Append(L, ListEntry(l))[i] = L[i]
            /\ Append(L, ListEntry(l))[Len(L) + 1] = ListEntry(l)
        BY <2>1, <2>5, <3>1, AppendProperties
      <4>2. 1 .. Len(L) + 1 = (1 .. Len(L)) \union {Len(L) + 1}
        BY <4>1
      <4>3. ListEntry(l)[1] = l.key
        BY AccessEntries
      <4>4. QED
        BY <2>2, <3>1, <4>1, <4>2, <4>3 DEF Restricted
    <3>2. CASE ~(Stands(l) /\ AddsToList(l))
      BY <2>2, <3>2, AccessEntries
    <3>3. QED
      BY <3>1, <3>2
  <2>7. ASSUME NEW addr
        PROVE  Permitted(M, addr) <=>
                 \/ On(l, "permit-access", addr)
                 \/ ~On(l, "deny-access", addr) /\ Permitted(L, addr)
    <3>1. CASE Stands(l) /\ AddsToList(l)
      <4>1. Permitted(M, addr) <=> IF Judges(ListEntry(l), addr)
                                   THEN ListEntry(l)[1] = "permit-access"
                                   ELSE Permitted(L, addr)
        BY <2>1, <2>2, <2>5, <3>1, PermittedAppend
      <4>2. Judges(ListEntry(l), addr) <=>
              On(l, "permit-access", addr) \/ On(l, "deny-access", addr)
        BY AccessEntries DEF Judges, On, Access
      <4>3. ListEntry(l)[1] = l.key
        BY AccessEntries
      <4>4. QED
        BY <4>1, <4>2, <4>3 DEF On
    <3>2. CASE ~(Stands(l) /\ AddsToList(l))
      <4>1. ~On(l, "permit-access", addr) /\ ~On(l, "deny-access", addr)
        BY <3>2, AccessEntries DEF On, Stands, Access
      <4>2. QED
        BY <2>2, <3>2, <4>1
    <3>3. QED
      BY <3>1, <3>2
  <2>8. Restricted(M) <=> Restricts(Append(ls, l))
    BY <2>3, <2>6, GrantsAppend
  <2>9. \A addr : Permitted(M, addr) <=> Grants(Append(ls, l), addr)
    BY <2>4, <2>7, GrantsAppend
  <2>10. QED
    BY <2>1, <2>8, <2>9 DEF M
<1>3. Seq(ReadLines) \subseteq S
  <2> HIDE DEF S
  <2>1. QED
    BY <1>1, <1>2, SeqInduction
<1>4. QED
  BY <1>3

\* is_access_allowed, of the settings that some lines state, answers what the lines
\* say.
LEMMA AllowedAsStated ==
  ASSUME NEW ls \in Seq(ReadLines), NEW addr
  PROVE  is_access_allowed(Stated(ls), addr) <=> ~Restricts(ls) \/ Grants(ls, addr)
<1> DEFINE c == Stated(ls)
<1>1. c.listed = StatedList(ls)
  BY DEF Stated
<1>2. Of(c, Access) = {} <=> ~Restricted(c.listed)
  BY DEF Of, Restricted
<1>3. (\E i \in {k \in Of(c, Access) : matches_pattern(addr, c.listed[k][2])} :
         /\ c.listed[i][1] = "permit-access"
         /\ \A j \in {k \in Of(c, Access) : matches_pattern(addr, c.listed[k][2])} : j <= i)
      <=> Permitted(c.listed, addr)
  BY DEF Of, Permitted, Judges
<1> HIDE DEF c
<1>4. is_access_allowed(c, addr) <=> ~Restricted(c.listed) \/ Permitted(c.listed, addr)
  BY <1>2, <1>3 DEF is_access_allowed
<1>5. QED
  BY <1>1, <1>4, AccessStated DEF c

-----------------------------------------------------------------------------
\* The actions that a header can come to: names and arguments are those of its
\* tokens, or the defaults.
Named == {t.name : t \in Tokens}
Texts == {t.arg : t \in Tokens} \union {Default[n] : n \in DOMAIN Default}
ArgumentType == [off : -2 .. 1, text : Texts]
Values == UNION {[S -> ArgumentType] : S \in SUBSET Named}
ActionType ==
  [on : SUBSET Named, value : Values, listed : Seq(Named \X ArgumentType)]

\* What the parts of a token are.
LEMMA TokenFacts ==
  ASSUME NEW t \in Tokens
  PROVE  /\ t.sign \in {"+", "-"} /\ t.bare \in BOOLEAN /\ t.name \in Named
         /\ Stored(t) \in ArgumentType
         /\ \A n \in DOMAIN Default : [off |-> 0, text |-> Default[n]] \in ArgumentType
<1>1. t.sign \in {"+", "-"} /\ t.bare \in BOOLEAN
  BY LoadingAssumption DEF TokenType
<1>2. t.name \in Named /\ t.arg \in Texts
  BY DEF Named, Texts
<1>3. Offset(t.name) \in -2 .. 1
  BY DEF Offset
<1>4. \A n \in DOMAIN Default : Default[n] \in Texts
  BY DEF Texts
<1>5. QED
  BY <1>1, <1>2, <1>3, <1>4 DEF Stored, ArgumentType

\* parse_action_string makes an action of an action.
LEMMA ApplyType ==
  ASSUME NEW a \in ActionType, NEW t \in Tokens
  PROVE  Apply(a, t) \in ActionType
<1>1. /\ a.on \in SUBSET Named /\ a.value \in Values
      /\ a.listed \in Seq(Named \X ArgumentType)
  BY DEF ActionType
<1>2. Switched(a.on, t) \in SUBSET Named
  BY <1>1, TokenFacts DEF Switched
<1>3. Valued(a.value, t) \in Values
  <2>1. DOMAIN a.value \in SUBSET Named /\ \A n \in DOMAIN a.value : a.value[n] \in ArgumentType
    BY <1>1 DEF Values
  <2>2. \A arg \in ArgumentType : Given(a.value, t.name, arg) \in Values
    <3>1. SUFFICES ASSUME NEW arg \in ArgumentType PROVE Given(a.value, t.name, arg) \in Values
      OBVIOUS
    <3> DEFINE S == DOMAIN a.value \union {t.name}
    <3>2. S \in SUBSET Named
      BY <2>1, TokenFacts
    <3>3. Given(a.value, t.name, arg) \in [S -> ArgumentType]
      BY <2>1, <3>1 DEF Given
    <3>4. QED
      BY <3>2, <3>3 DEF Values
  <2>3. [n \in DOMAIN a.value \ {t.name} |-> a.value[n]] \in Values
    <3> DEFINE S == DOMAIN a.value \ {t.name}
    <3>1. S \in SUBSET Named
      BY <2>1
    <3>2. [n \in S |-> a.value[n]] \in [S -> ArgumentType]
      BY <2>1
    <3>3. QED
      BY <3>1, <3>2 DEF Values
  <2>4. QED
    BY <1>1, <2>2, <2>3, TokenFacts DEF Valued
<1>4. Listed(a.listed, t) \in Seq(Named \X ArgumentType)
  <2>1. Entry(t) \in Named \X ArgumentType
    BY TokenFacts DEF Entry
  <2>2. Append(a.listed, Entry(t)) \in Seq(Named \X ArgumentType)
    BY <1>1, <2>1
  <2>3. Without(a.listed, Entry(t)) \in Seq(Named \X ArgumentType)
    BY <1>1, WithoutRemoves
  <2>4. QED
    BY <1>1, <2>2, <2>3 DEF Listed
<1>5. QED
  BY <1>2, <1>3, <1>4 DEF Apply, ActionType

\* Action::default is one.
LEMMA NoActionType == NoAction \in ActionType
<1>1. <<>> \in [{} -> ArgumentType] /\ {} \in SUBSET Named
  OBVIOUS
<1>2. <<>> \in Values
  BY <1>1 DEF Values
<1>3. QED
  BY <1>2 DEF NoAction, ActionType

\* A name sets one thing.
LEMMA Names ==
  /\ "block" \notin Options /\ "filter" \notin Options
  /\ "block" \notin Switches /\ "filter" \notin Switches
  /\ Options \intersect (Lists \union {"block", "filter"}) = {}
  /\ Switches \intersect (Options \union Lists \union {"block", "filter"}) = {}
  /\ "block" \notin Lists
  /\ DOMAIN Default \subseteq Options
BY DEF Options, Default, Blockers, Numbers, Switches, Lists

\* One more token, as it bears on the switches.
LEMMA OnApplied ==
  ASSUME NEW on, NEW ts \in Seq(Tokens), NEW t \in Tokens,
         on = {n \in Switches \union {"block", "filter"} : LastOf(ts, Switching(n)).sign = "+"}
  PROVE  Switched(on, t) = {n \in Switches \union {"block", "filter"} :
                              LastOf(Append(ts, t), Switching(n)).sign = "+"}
<1> DEFINE N == Switches \union {"block", "filter"}
           now == {n \in N : LastOf(Append(ts, t), Switching(n)).sign = "+"}
<1>1. \A n : LastOf(Append(ts, t), Switching(n)) =
               IF t \in Switching(n) THEN t ELSE LastOf(ts, Switching(n))
  BY LastAppend
<1>2. \A n : t \in Switching(n) <=>
               t.name = n /\ (t.bare \/ (t.sign = "+" /\ n \notin Switches))
  BY DEF Switching
<1>3. t.sign \in {"+", "-"} /\ t.bare \in BOOLEAN
  BY TokenFacts
<1>4. \A n \in N : n \in now <=>
         IF t \in Switching(n) THEN t.sign = "+" ELSE n \in on
  BY <1>1
<1>5. "block" \in N /\ "filter" \in N
  OBVIOUS
<1> HIDE DEF N, now
<1>6. \A n \in N : n \in Switched(on, t) <=>
         IF t \in Switching(n) THEN t.sign = "+" ELSE n \in on
  <2>1. \A n \in N : n \in Switches \/ n \in {"block", "filter"}
    BY DEF N
  <2>2. HasArgument(t) /\ t.sign = "+" /\ t.name \in {"block", "filter"}
          <=> ~t.bare /\ t.sign = "+" /\ t.name \in {"block", "filter"}
    BY DEF HasArgument
  <2>3. t.bare /\ t.sign = "-" /\ t.name \in Switches \union {"block", "filter"}
          <=> t.bare /\ t.sign = "-" /\ t.name \in N
    BY DEF N
  <2>4. t.bare /\ t.sign = "+" /\ t.name \in Switches \union {"block", "filter"}
          <=> t.bare /\ t.sign = "+" /\ t.name \in N
    BY DEF N
  <2>5. Switched(on, t) =
          IF t.bare /\ t.sign = "-" /\ t.name \in N THEN on \ {t.name}
          ELSE IF \/ t.bare /\ t.sign = "+" /\ t.name \in N
                  \/ ~t.bare /\ t.sign = "+" /\ t.name \in {"block", "filter"}
          THEN on \union {t.name} ELSE on
    BY <2>2, <2>3, <2>4 DEF Switched
  <2>6. "block" \notin Switches /\ "filter" \notin Switches
    BY Names
  <2>7. QED
    BY <1>2, <1>3, <1>5, <2>1, <2>5, <2>6
<1>7. on \subseteq N /\ now \subseteq N
  BY DEF N, now
<1>8. Switched(on, t) \subseteq N
  BY <1>5, <1>7 DEF Switched, N
<1>9. Switched(on, t) = now
  BY <1>4, <1>6, <1>7, <1>8
<1>10. QED
  BY <1>9 DEF now, N

\* One more token, as it bears on the options.
LEMMA ValueApplied ==
  ASSUME NEW v \in Values, NEW ts \in Seq(Tokens), NEW t \in Tokens,
         Restrict(v, DOMAIN v \ {"block"}) =
           [n \in {o \in Options : LastOf(ts, Setting(o)).sign = "+"} |->
              Argument(LastOf(ts, Setting(n)))]
  PROVE  LET w == Valued(v, t)
         IN Restrict(w, DOMAIN w \ {"block"}) =
              [n \in {o \in Options : LastOf(Append(ts, t), Setting(o)).sign = "+"} |->
                 Argument(LastOf(Append(ts, t), Setting(n)))]
<1> DEFINE w == Valued(v, t)
           D(s) == {o \in Options : LastOf(s, Setting(o)).sign = "+"}
           A(s) == [n \in D(s) |-> Argument(LastOf(s, Setting(n)))]
           us == Append(ts, t)
<1>1. \A n : LastOf(us, Setting(n)) = IF t \in Setting(n) THEN t ELSE LastOf(ts, Setting(n))
  BY LastAppend
<1>2. \A n : t \in Setting(n) <=>
         t.name = n /\ IF t.bare THEN t.sign = "-" \/ n \in DOMAIN Default ELSE t.sign = "+"
  BY DEF Setting
<1>3. t.sign \in {"+", "-"} /\ t.bare \in BOOLEAN
  BY TokenFacts
<1>4. \A u : Restrict(u, DOMAIN u \ {"block"}) = [n \in DOMAIN u \ {"block"} |-> u[n]]
  BY DEF Restrict
<1>5. /\ DOMAIN v \ {"block"} = D(ts)
      /\ \A n \in DOMAIN v \ {"block"} : v[n] = Argument(LastOf(ts, Setting(n)))
  BY <1>4
<1> HIDE DEF us
<1>6. \A o \in Options : o \in D(us) <=> IF t \in Setting(o) THEN t.sign = "+" ELSE o \in D(ts)
  BY <1>1
<1>7. D(us) \subseteq Options /\ D(ts) \subseteq Options
  OBVIOUS
<1> HIDE DEF D, w
<1>8. DOMAIN w \ {"block"} = D(us) /\ \A n \in D(us) : w[n] = Argument(LastOf(us, Setting(n)))
  <2>1. CASE t.bare /\ t.sign = "-" /\ t.name \in Options
    <3>1. w = [n \in DOMAIN v \ {t.name} |-> v[n]]
      BY <2>1 DEF w, Valued
    <3>2. \A n \in Options : t \in Setting(n) <=> n = t.name
      BY <1>2, <2>1
    <3>3. D(us) = D(ts) \ {t.name}
      BY <1>6, <1>7, <2>1, <3>2
    <3>4. DOMAIN w \ {"block"} = D(us)
      BY <1>5, <3>1, <3>3
    <3>5. QED
      BY <1>1, <1>5, <1>7, <3>1, <3>2, <3>3, <3>4
  <2>2. CASE t.bare /\ t.sign = "+" /\ t.name \in DOMAIN Default
    <3>1. w = Given(v, t.name, [off |-> 0, text |-> Default[t.name]])
      BY <2>2 DEF w, Valued
    <3>2. w = [n \in DOMAIN v \union {t.name} |-> IF n = t.name THEN Argument(t) ELSE v[n]]
      BY <2>2, <3>1 DEF Given, Argument
    <3>3. \A n \in Options : t \in Setting(n) <=> n = t.name
      BY <1>2, <2>2
    <3>4. t.name \in Options /\ t.name # "block"
      BY <2>2, Names
    <3>5. D(us) = D(ts) \union {t.name}
      BY <1>6, <1>7, <2>2, <3>3, <3>4
    <3>6. DOMAIN w \ {"block"} = D(us)
      BY <1>5, <3>2, <3>4, <3>5
    <3>7. QED
      BY <1>1, <1>5, <1>7, <3>2, <3>3, <3>4, <3>5, <3>6
  <2>3. CASE HasArgument(t) /\ t.name \in Options
    <3>0. ~t.bare /\ t.sign = "+" /\ t.name # "block"
      BY <2>3, Names DEF HasArgument
    <3>1. w = Given(v, t.name, Stored(t))
      BY <2>3, <3>0 DEF w, Valued
    <3>2. w = [n \in DOMAIN v \union {t.name} |-> IF n = t.name THEN Argument(t) ELSE v[n]]
      BY <3>0, <3>1 DEF Given, Argument
    <3>3. \A n \in Options : t \in Setting(n) <=> n = t.name
      BY <1>2, <3>0
    <3>5. D(us) = D(ts) \union {t.name}
      BY <1>6, <1>7, <2>3, <3>0, <3>3
    <3>6. DOMAIN w \ {"block"} = D(us)
      BY <1>5, <3>0, <3>2, <3>5
    <3>7. QED
      BY <1>1, <1>5, <1>7, <2>3, <3>0, <3>2, <3>3, <3>5, <3>6
  <2>4. CASE HasArgument(t) /\ t.name = "block"
    <3>0. ~t.bare
      BY <2>4 DEF HasArgument
    <3>1. w = Given(v, "block", Stored(t))
      BY <2>4, <3>0 DEF w, Valued
    <3>2. \A n \in Options : t \notin Setting(n)
      BY <1>2, <2>4, Names
    <3>3. D(us) = D(ts)
      BY <1>6, <1>7, <3>2
    <3>4. DOMAIN w \ {"block"} = D(us) /\ \A n \in DOMAIN w \ {"block"} : w[n] = v[n]
      BY <1>5, <3>1, <3>3 DEF Given
    <3>5. QED
      BY <1>1, <1>5, <1>7, <3>2, <3>3, <3>4
  <2>5. CASE /\ ~(t.bare /\ t.sign = "-" /\ t.name \in Options)
             /\ ~(t.bare /\ t.sign = "+" /\ t.name \in DOMAIN Default)
             /\ ~(HasArgument(t) /\ t.name \in Options \union {"block"})
    <3>1. w = v
      BY <2>5 DEF w, Valued
    <3>2. \A n \in Options : t \notin Setting(n)
      BY <1>2, <1>3, <2>5 DEF HasArgument
    <3>3. D(us) = D(ts)
      BY <1>6, <1>7, <3>2
    <3>4. QED
      BY <1>1, <1>5, <1>7, <3>1, <3>2, <3>3
  <2>6. QED
    BY <2>1, <2>2, <2>3, <2>4, <2>5
<1>9. [n \in DOMAIN w \ {"block"} |-> w[n]] = [n \in D(us) |-> Argument(LastOf(us, Setting(n)))]
  BY <1>8
<1>10. Restrict(w, DOMAIN w \ {"block"}) = [n \in DOMAIN w \ {"block"} |-> w[n]]
  BY <1>4
<1>11. QED
  BY <1>9, <1>10 DEF w, D, us

\* One more token, as it bears on the lists.
LEMMA ListedApplied ==
  ASSUME NEW T, NEW ls \in Seq(T), NEW ts \in Seq(Tokens), NEW t \in Tokens, Entry(t) \in T,
         ToSet(ls) = {Entry(u) : u \in {x \in ToSet(ts) :
                        /\ HasArgument(x) /\ x.name \in Lists \union {"filter"}
                        /\ LastOf(ts, Listing(x)).sign = "+"}}
  PROVE  ToSet(Listed(ls, t)) = {Entry(u) : u \in {x \in ToSet(Append(ts, t)) :
                        /\ HasArgument(x) /\ x.name \in Lists \union {"filter"}
                        /\ LastOf(Append(ts, t), Listing(x)).sign = "+"}}
<1> DEFINE us == Append(ts, t)
           L(x) == HasArgument(x) /\ x.name \in Lists \union {"filter"}
           In(s) == {x \in ToSet(s) : L(x) /\ LastOf(s, Listing(x)).sign = "+"}
<1>1. \A x : LastOf(us, Listing(x)) = IF t \in Listing(x) THEN t ELSE LastOf(ts, Listing(x))
  BY LastAppend
<1>2. \A x : t \in Listing(x) <=> ~t.bare /\ t.name = x.name /\ t.arg = x.arg
  BY DEF Listing
<1>3. ToSet(us) = ToSet(ts) \union {t}
  BY ToSetAppend
<1>4. t.sign \in {"+", "-"} /\ t.bare \in BOOLEAN
  BY TokenFacts
<1>5. \A x : Entry(x) = Entry(t) <=> x.name = t.name /\ x.arg = t.arg
  BY DEF Entry, Stored
<1> HIDE DEF us
<1>6. \A x : x \in In(us) <=>
         /\ x \in ToSet(ts) \union {t} /\ L(x)
         /\ IF t \in Listing(x) THEN t.sign = "+" ELSE LastOf(ts, Listing(x)).sign = "+"
  BY <1>1, <1>3
<1>7. \A x : x \in In(ts) <=> x \in ToSet(ts) /\ L(x) /\ LastOf(ts, Listing(x)).sign = "+"
  OBVIOUS
<1>8. ToSet(ls) = {Entry(x) : x \in In(ts)}
  OBVIOUS
<1> HIDE DEF In
<1>9. CASE ~L(t)
  <2>1. Listed(ls, t) = ls
    BY <1>9 DEF Listed
  <2>2. \A x : L(x) => t \notin Listing(x)
    BY <1>2, <1>4, <1>9 DEF HasArgument
  <2>3. In(us) = In(ts)
    BY <1>6, <1>7, <1>9, <2>2
  <2>4. QED
    BY <1>8, <2>1, <2>3 DEF In, us
<1>10. CASE L(t) /\ t.sign = "+"
  <2>1. Listed(ls, t) = Append(ls, Entry(t))
    BY <1>10 DEF Listed
  <2>2. ToSet(Listed(ls, t)) = ToSet(ls) \union {Entry(t)}
    BY <2>1, ToSetAppend
  <2>3. t \in In(us)
    BY <1>2, <1>6, <1>10 DEF HasArgument
  <2>4. \A x \in In(us) : x \in In(ts) \/ Entry(x) = Entry(t)
    BY <1>2, <1>5, <1>6, <1>7
  <2>5. In(ts) \subseteq In(us)
    BY <1>6, <1>7, <1>10
  <2>6. {Entry(x) : x \in In(us)} = {Entry(x) : x \in In(ts)} \union {Entry(t)}
    BY <2>3, <2>4, <2>5
  <2>7. QED
    BY <1>8, <2>2, <2>6 DEF In, us
<1>11. CASE L(t) /\ t.sign = "-"
  <2>1. Listed(ls, t) = Without(ls, Entry(t))
    BY <1>11 DEF Listed
  <2>2. ToSet(Listed(ls, t)) = ToSet(ls) \ {Entry(t)}
    BY <2>1, WithoutRemoves
  <2>3. ~t.bare
    BY <1>11 DEF HasArgument
  <2>4. \A x : x \in In(us) <=> x \in In(ts) /\ Entry(x) # Entry(t)
    <3>1. \A x : t \in Listing(x) <=> Entry(x) = Entry(t)
      BY <1>2, <1>5, <2>3
    <3>2. t \in Listing(t)
      BY <3>1
    <3>3. QED
      BY <1>6, <1>7, <1>11, <3>1, <3>2
  <2>5. {Entry(x) : x \in In(us)} = {Entry(x) : x \in In(ts)} \ {Entry(t)}
    BY <2>4
  <2>6. QED
    BY <1>8, <2>2, <2>5 DEF In, us
<1>12. QED
  BY <1>4, <1>9, <1>10, <1>11

\* parse_action_string, one token further: what a header's tokens come to is what
\* the last word on each setting says.
LEMMA MeantApply ==
  ASSUME NEW a \in ActionType, NEW ts \in Seq(Tokens), NEW t \in Tokens, Effect(a) = Meant(ts)
  PROVE  Effect(Apply(a, t)) = Meant(Append(ts, t))
<1>1. a.value \in Values /\ a.listed \in Seq(Named \X ArgumentType)
  BY DEF ActionType
<1>2. Entry(t) \in Named \X ArgumentType
  BY TokenFacts DEF Entry
<1>3. /\ a.on = Meant(ts).on /\ ToSet(a.listed) = Meant(ts).listed
      /\ Restrict(a.value, DOMAIN a.value \ {"block"}) = Meant(ts).value
  BY DEF Effect
<1>4. Effect(Apply(a, t)).on = Meant(Append(ts, t)).on
  BY <1>3, OnApplied DEF Effect, Apply, Meant
<1>5. Effect(Apply(a, t)).value = Meant(Append(ts, t)).value
  <2>1. Meant(ts).value = [n \in {o \in Options : LastOf(ts, Setting(o)).sign = "+"} |->
                             Argument(LastOf(ts, Setting(n)))]
    BY DEF Meant
  <2> DEFINE w == Valued(a.value, t)
  <2>2. Restrict(w, DOMAIN w \ {"block"}) =
          [n \in {o \in Options : LastOf(Append(ts, t), Setting(o)).sign = "+"} |->
             Argument(LastOf(Append(ts, t), Setting(n)))]
    BY <1>1, <1>3, <2>1, ValueApplied
  <2>3. Effect(Apply(a, t)).value = Restrict(w, DOMAIN w \ {"block"})
    BY DEF Effect, Apply
  <2> HIDE DEF w
  <2>4. QED
    BY <2>2, <2>3 DEF Meant
<1>6. Effect(Apply(a, t)).listed = Meant(Append(ts, t)).listed
  <2>1. Meant(ts).listed = {Entry(u) : u \in {x \in ToSet(ts) :
                              /\ HasArgument(x) /\ x.name \in Lists \union {"filter"}
                              /\ LastOf(ts, Listing(x)).sign = "+"}}
    BY DEF Meant
  <2>2. ToSet(Listed(a.listed, t)) = {Entry(u) : u \in {x \in ToSet(Append(ts, t)) :
                              /\ HasArgument(x) /\ x.name \in Lists \union {"filter"}
                              /\ LastOf(Append(ts, t), Listing(x)).sign = "+"}}
    BY <1>1, <1>2, <1>3, <2>1, ListedApplied
  <2>3. Effect(Apply(a, t)).listed = ToSet(Listed(a.listed, t))
    BY DEF Effect, Apply
  <2>4. QED
    BY <2>2, <2>3 DEF Meant
<1>7. QED
  BY <1>4, <1>5, <1>6 DEF Effect, Meant

\* A header without tokens means Action::default.
LEMMA MeantNothing == Effect(NoAction) = Meant(<<>>)
<1>1. \A S : LastOf(<<>>, S).sign = "-"
  BY DEF LastOf
<1>2. ToSet(<<>>) = {}
  BY DEF ToSet
<1>3. Restrict(<<>>, DOMAIN <<>> \ {"block"}) = <<>>
  BY DEF Restrict
<1>4. Meant(<<>>).on = {} /\ Meant(<<>>).listed = {}
  BY <1>1, <1>2 DEF Meant
<1>5. Meant(<<>>).value = <<>>
  <2>1. {o \in Options : LastOf(<<>>, Setting(o)).sign = "+"} = {}
    BY <1>1
  <2>2. [n \in {} |-> Argument(LastOf(<<>>, Setting(n)))] = <<>>
    OBVIOUS
  <2>3. QED
    BY <2>1, <2>2 DEF Meant
<1>6. Effect(NoAction) = [on |-> {}, value |-> <<>>, listed |-> {}]
  BY <1>2, <1>3 DEF Effect, NoAction
<1>7. Meant(<<>>) = [on |-> Meant(<<>>).on, value |-> Meant(<<>>).value,
                     listed |-> Meant(<<>>).listed]
  BY DEF Meant
<1>8. QED
  BY <1>4, <1>5, <1>6, <1>7

-----------------------------------------------------------------------------
\* The sections of a file and the rules made of them.
SectionType == [tokens : Seq(Tokens), urls : Seq(Patterns)]
RuleType == [pattern : Patterns, action : ActionType]

\* The types of the variables; what config is SettingsAsWritten says.
Typed ==
  /\ status \in {"config", "rejected", "reading", "panicked", "loaded", "refused", "answered"}
  /\ lines \in Seq(ReadLines)
  /\ file \in Seq(SectionType) /\ accepted \in Seq(SectionType)
  /\ action \in ActionType /\ found \in ActionType
  /\ url_actions \in Seq(RuleType) /\ rules \in Seq(RuleType)
  /\ client \in Clients \union {[family |-> "none"]}
  /\ request \in Requests \union {NoRequest}

\* find_action_for_url returns an action.
LEMMA FoundType ==
  ASSUME Typed, NEW r
  PROVE  find_action_for_url(r) \in ActionType
<1>1. CASE Matching(r) = {}
  BY <1>1, NoActionType DEF find_action_for_url
<1>2. CASE Matching(r) # {}
  <2>1. Matching(r) \subseteq DOMAIN rules /\ DOMAIN rules \subseteq Nat
    BY DEF Matching, Typed
  <2>2. Min(Matching(r)) \in DOMAIN rules
    BY <1>2, <2>1, MinOf
  <2>3. rules[Min(Matching(r))] \in RuleType
    BY <2>2 DEF Typed
  <2>4. QED
    BY <1>2, <2>3 DEF find_action_for_url, RuleType
<1>3. QED
  BY <1>1, <1>2

\* A header, and a file with one more token or pattern in its last section.
NewSection == [tokens |-> <<>>, urls |-> <<>>]
WithToken(f, t) == [f EXCEPT ![Len(f)].tokens = Append(@, t)]
WithUrl(f, p) == [f EXCEPT ![Len(f)].urls = Append(@, p)]

\* A section with one more token or pattern is a section.
LEMMA SectionGrows ==
  ASSUME NEW s \in SectionType
  PROVE  /\ \A t \in Tokens :
              /\ [s EXCEPT !.tokens = Append(@, t)] =
                   [tokens |-> Append(s.tokens, t), urls |-> s.urls]
              /\ [tokens |-> Append(s.tokens, t), urls |-> s.urls] \in SectionType
         /\ \A p \in Patterns :
              /\ [s EXCEPT !.urls = Append(@, p)] =
                   [tokens |-> s.tokens, urls |-> Append(s.urls, p)]
              /\ [tokens |-> s.tokens, urls |-> Append(s.urls, p)] \in SectionType
<1>1. PICK ts \in Seq(Tokens), us \in Seq(Patterns) : s = [tokens |-> ts, urls |-> us]
  BY DEF SectionType
<1>2. ASSUME NEW t \in Tokens
      PROVE  /\ [s EXCEPT !.tokens = Append(@, t)] =
                   [tokens |-> Append(s.tokens, t), urls |-> s.urls]
             /\ [tokens |-> Append(s.tokens, t), urls |-> s.urls] \in SectionType
  <2>1. Append(ts, t) \in Seq(Tokens)
    OBVIOUS
  <2>2. \A v : [s EXCEPT !.tokens = v] = [tokens |-> v, urls |-> us]
    BY <1>1
  <2>3. s.tokens = ts /\ s.urls = us
    BY <1>1
  <2>4. QED
    BY <2>1, <2>2, <2>3 DEF SectionType
<1>3. ASSUME NEW p \in Patterns
      PROVE  /\ [s EXCEPT !.urls = Append(@, p)] =
                   [tokens |-> s.tokens, urls |-> Append(s.urls, p)]
             /\ [tokens |-> s.tokens, urls |-> Append(s.urls, p)] \in SectionType
  <2>1. Append(us, p) \in Seq(Patterns)
    OBVIOUS
  <2>2. \A v : [s EXCEPT !.urls = v] = [tokens |-> ts, urls |-> v]
    BY <1>1
  <2>3. s.tokens = ts /\ s.urls = us
    BY <1>1
  <2>4. QED
    BY <2>1, <2>2, <2>3 DEF SectionType
<1>4. QED
  BY <1>2, <1>3

\* A file that is not empty has a last section, which is the one that grows.
LEMMA FileLast ==
  ASSUME NEW f \in Seq(SectionType), f # <<>>
  PROVE  \E front \in Seq(SectionType), s \in SectionType :
           /\ f = Append(front, s) /\ f[Len(f)] = s
           /\ \A t \in Tokens : WithToken(f, t) =
                Append(front, [tokens |-> Append(s.tokens, t), urls |-> s.urls])
           /\ \A p \in Patterns : WithUrl(f, p) =
                Append(front, [tokens |-> s.tokens, urls |-> Append(s.urls, p)])
<1>1. PICK front \in Seq(SectionType), s \in SectionType : f = Append(front, s)
  BY SequenceEmptyOrAppend
<1>2. /\ Len(f) = Len(front) + 1 /\ DOMAIN f = 1 .. Len(front) + 1 /\ Len(front) \in Nat
      /\ \A i \in 1 .. Len(front) : f[i] = front[i]
      /\ f[Len(f)] = s
  BY <1>1, AppendProperties
<1>3. ASSUME NEW x \in SectionType
      PROVE  [f EXCEPT ![Len(f)] = x] = Append(front, x)
  <2>1. /\ Append(front, x) \in Seq(SectionType) /\ Len(Append(front, x)) = Len(f)
        /\ \A i \in 1 .. Len(front) : Append(front, x)[i] = front[i]
        /\ Append(front, x)[Len(f)] = x
    BY <1>2, AppendProperties
  <2>2. [f EXCEPT ![Len(f)] = x] \in Seq(SectionType) /\ Len([f EXCEPT ![Len(f)] = x]) = Len(f)
    BY <1>2
  <2>3. \A i \in 1 .. Len(f) : [f EXCEPT ![Len(f)] = x][i] = Append(front, x)[i]
    BY <1>2, <2>1
  <2>4. QED
    BY <2>1, <2>2, <2>3, SeqEqual
<1>4. ASSUME NEW t \in Tokens
      PROVE  WithToken(f, t) = Append(front, [tokens |-> Append(s.tokens, t), urls |-> s.urls])
  <2> DEFINE x == [s EXCEPT !.tokens = Append(@, t)]
  <2>1. WithToken(f, t) = [f EXCEPT ![Len(f)] = x]
    BY <1>2 DEF WithToken
  <2>2. x = [tokens |-> Append(s.tokens, t), urls |-> s.urls] /\ x \in SectionType
    BY SectionGrows
  <2> HIDE DEF x
  <2>3. QED
    BY <1>3, <2>1, <2>2
<1>5. ASSUME NEW p \in Patterns
      PROVE  WithUrl(f, p) = Append(front, [tokens |-> s.tokens, urls |-> Append(s.urls, p)])
  <2> DEFINE x == [s EXCEPT !.urls = Append(@, p)]
  <2>1. WithUrl(f, p) = [f EXCEPT ![Len(f)] = x]
    BY <1>2 DEF WithUrl
  <2>2. x = [tokens |-> s.tokens, urls |-> Append(s.urls, p)] /\ x \in SectionType
    BY SectionGrows
  <2> HIDE DEF x
  <2>3. QED
    BY <1>3, <2>1, <2>2
<1>6. QED
  BY <1>1, <1>2, <1>4, <1>5

\* A file with one more token or pattern is a file.
LEMMA FileGrows ==
  ASSUME NEW f \in Seq(SectionType), f # <<>>
  PROVE  /\ \A t \in Tokens : WithToken(f, t) \in Seq(SectionType)
         /\ \A p \in Patterns : WithUrl(f, p) \in Seq(SectionType)
<1>1. PICK front \in Seq(SectionType), s \in SectionType :
           /\ \A t \in Tokens : WithToken(f, t) =
                Append(front, [tokens |-> Append(s.tokens, t), urls |-> s.urls])
           /\ \A p \in Patterns : WithUrl(f, p) =
                Append(front, [tokens |-> s.tokens, urls |-> Append(s.urls, p)])
  BY FileLast
<1>2. \A x \in SectionType : Append(front, x) \in Seq(SectionType)
  OBVIOUS
<1>3. \A t \in Tokens : [tokens |-> Append(s.tokens, t), urls |-> s.urls] \in SectionType
  BY SectionGrows
<1>4. \A p \in Patterns : [tokens |-> s.tokens, urls |-> Append(s.urls, p)] \in SectionType
  BY SectionGrows
<1>5. QED
  BY <1>1, <1>2, <1>3, <1>4

\* Whatever the files contain, the loader's variables keep their types.
THEOREM LoadingTyped == Spec => []Typed
<1>1. Init => Typed
  BY NoActionType DEF Init, Typed
<1>2. Typed /\ [Next]_vars => Typed'
  <2> SUFFICES ASSUME Typed, [Next]_vars PROVE Typed'
    OBVIOUS
  <2> USE DEF Typed, settings, loading, asked
  <2>1. CASE RejectConfig
    BY <2>1 DEF RejectConfig
  <2>2. CASE EndOfConfig
    BY <2>2 DEF EndOfConfig
  <2>3. ASSUME NEW l \in Lines, ReadLine(l) PROVE Typed'
    <3>1. l \in ReadLines
      BY <2>3 DEF ReadLine, ReadLines
    <3>2. lines' \in Seq(ReadLines)
      BY <2>3, <3>1 DEF ReadLine
    <3>3. QED
      BY <2>3, <3>2 DEF ReadLine, Reads
  <2>4. CASE ReadHeader
    <3>1. NewSection \in SectionType
      BY DEF NewSection, SectionType
    <3>2. file' \in Seq(SectionType)
      BY <2>4, <3>1 DEF ReadHeader, NewSection
    <3>3. QED
      BY <2>4, <3>2, NoActionType DEF ReadHeader, Reads
  <2>5. CASE RejectFile
    <3>1. file' \in Seq(SectionType) /\ url_actions' \in Seq(RuleType)
      BY <2>5 DEF RejectFile, NextFile
    <3>2. status' \in {"loaded", "reading"}
      BY <2>5 DEF RejectFile, NextFile
    <3>3. QED
      BY <2>5, <3>1, <3>2, NoActionType DEF RejectFile, NextFile
  <2>6. CASE Panic
    BY <2>6 DEF Panic
  <2>7. CASE EndOfFile
    <3>1. file' \in Seq(SectionType) /\ url_actions' \in Seq(RuleType)
      BY <2>7 DEF EndOfFile, NextFile
    <3>2. accepted' \in Seq(SectionType) /\ rules' \in Seq(RuleType)
      BY <2>7, ConcatProperties DEF EndOfFile
    <3>3. status' \in {"loaded", "reading"}
      BY <2>7 DEF EndOfFile, NextFile
    <3>4. QED
      BY <2>7, <3>1, <3>2, <3>3, NoActionType DEF EndOfFile, NextFile
  <2>8. ASSUME NEW t \in Tokens, ReadToken(t) PROVE Typed'
    <3>1. file' \in Seq(SectionType)
      <4>1. file' = WithToken(file, t) /\ file # <<>>
        BY <2>8 DEF ReadToken, Written, WithToken
      <4>2. QED
        BY <4>1, FileGrows
    <3>2. action' \in ActionType
      BY <2>8, ApplyType DEF ReadToken
    <3>3. QED
      BY <2>8, <3>1, <3>2 DEF ReadToken, Reads
  <2>9. ASSUME NEW p \in Patterns, ReadPattern(p) PROVE Typed'
    <3>1. file' \in Seq(SectionType)
      <4>1. file' = WithUrl(file, p) /\ file # <<>>
        BY <2>9 DEF ReadPattern, WithUrl
      <4>2. QED
        BY <4>1, FileGrows
    <3>2. [pattern |-> p, action |-> action] \in RuleType
      BY DEF RuleType
    <3>3. url_actions' \in Seq(RuleType)
      BY <2>9, <3>2 DEF ReadPattern
    <3>4. QED
      BY <2>9, <3>1, <3>3 DEF ReadPattern, Reads
  <2>10. ASSUME NEW addr \in Clients, TurnAway(addr) PROVE Typed'
    BY <2>10 DEF TurnAway
  <2>11. ASSUME NEW addr \in Clients, NEW r \in Requests, Refuse(addr, r) PROVE Typed'
    <3>1. found' \in ActionType
      BY <2>11, FoundType DEF Refuse
    <3>2. QED
      BY <2>11, <3>1 DEF Refuse
  <2>12. ASSUME NEW addr \in Clients, NEW r \in Requests, Ask(addr, r) PROVE Typed'
    <3>1. found' \in ActionType
      BY <2>12, FoundType DEF Ask
    <3>2. QED
      BY <2>12, <3>1 DEF Ask
  <2>13. CASE UNCHANGED vars
    BY <2>13 DEF vars
  <2>14. QED
    BY <2>1, <2>2, <2>3, <2>4, <2>5, <2>6, <2>7, <2>8, <2>9, <2>10, <2>11, <2>12, <2>13
       DEF Next
<1>3. QED
  BY <1>1, <1>2, PTL DEF Spec

\* Config::parse: after every line the settings are those that the lines so far
\* state: of a value the last one, of lists and log levels all, and of addresses
\* to listen on all or the default.
THEOREM SettingsHold == Spec => []SettingsAsWritten
<1>1. Init => SettingsAsWritten
  BY NothingStated DEF Init, SettingsAsWritten
<1>2. Typed /\ SettingsAsWritten /\ [Next]_vars => SettingsAsWritten'
  <2> SUFFICES ASSUME Typed, SettingsAsWritten, [Next]_vars PROVE SettingsAsWritten'
    OBVIOUS
  <2>1. ASSUME NEW l \in Lines, ReadLine(l) PROVE SettingsAsWritten'
    <3>1. l \in ReadLines /\ lines \in Seq(ReadLines)
      BY <2>1 DEF ReadLine, ReadLines, Typed
    <3>2. config' = parse_line(Stated(lines), l) /\ lines' = Append(lines, l)
      BY <2>1 DEF ReadLine, SettingsAsWritten
    <3>3. config' = Stated(Append(lines, l))
      BY <3>1, <3>2, ParseLine
    <3>4. QED
      BY <3>2, <3>3 DEF SettingsAsWritten
  <2>2. CASE UNCHANGED settings
    BY <2>2 DEF settings, SettingsAsWritten
  <2>3. (\E l \in Lines : ReadLine(l)) \/ UNCHANGED settings
    BY DEF Next, vars, settings, RejectConfig, EndOfConfig, ReadHeader, RejectFile, Panic,
           EndOfFile, NextFile, ReadToken, ReadPattern, TurnAway, Refuse, Ask
  <2>4. QED
    BY <2>1, <2>2, <2>3
<1>3. QED
  BY <1>1, <1>2, LoadingTyped, PTL DEF Spec

-----------------------------------------------------------------------------
\* The rules that a section stands for.
MeantRule == [pattern : Patterns, action : {Meant(ts) : ts \in Seq(Tokens)}]
SectionRules ==
  [s \in SectionType |->
     [k \in DOMAIN s.urls |-> [pattern |-> s.urls[k], action |-> Meant(s.tokens)]]]

\* The rules of a file are made section by section.
LEMMA RulesOfIs ==
  ASSUME NEW f \in Seq(SectionType)
  PROVE  /\ SectionRules \in Lister(SectionType, MeantRule)
         /\ RulesOf(f) = Collect(SectionRules, f)
         /\ RulesOf(f) \in Seq(MeantRule)
<1>1. SectionRules \in Lister(SectionType, MeantRule)
  <2>1. ASSUME NEW s \in SectionType
        PROVE  [k \in DOMAIN s.urls |-> [pattern |-> s.urls[k], action |-> Meant(s.tokens)]]
                 \in Seq(MeantRule)
    <3>1. s.urls \in Seq(Patterns) /\ s.tokens \in Seq(Tokens)
      BY DEF SectionType
    <3>2. \A k \in DOMAIN s.urls :
            [pattern |-> s.urls[k], action |-> Meant(s.tokens)] \in MeantRule
      BY <3>1 DEF MeantRule
    <3> DEFINE n == Len(s.urls)
    <3>3. n \in Nat /\ DOMAIN s.urls = 1 .. n
      BY <3>1
    <3> HIDE DEF n
    <3>4. QED
      BY <3>2, <3>3
  <2>2. QED
    BY <2>1 DEF SectionRules, Lister
<1>2. RulesOf(f) = Collect(SectionRules, f)
  <2>1. \A i \in DOMAIN f : f[i] \in SectionType
    OBVIOUS
  <2>2. [i \in DOMAIN f |->
           [k \in DOMAIN f[i].urls |->
              [pattern |-> f[i].urls[k], action |-> Meant(f[i].tokens)]]]
          = [i \in DOMAIN f |-> SectionRules[f[i]]]
    BY <2>1 DEF SectionRules
  <2>3. QED
    BY <2>2 DEF RulesOf, Collect
<1>3. QED
  BY <1>1, <1>2, CollectTyped

\* One more section adds its rules.
LEMMA RulesOfAppend ==
  ASSUME NEW f \in Seq(SectionType), NEW s \in SectionType
  PROVE  RulesOf(Append(f, s)) = RulesOf(f) \o SectionRules[s]
<1>1. Append(f, s) \in Seq(SectionType)
  OBVIOUS
<1>2. Collect(SectionRules, Append(f, s)) = Collect(SectionRules, f) \o SectionRules[s]
  BY RulesOfIs, CollectAppend
<1>3. QED
  BY <1>1, <1>2, RulesOfIs

\* One more file adds its rules.
LEMMA RulesOfConcat ==
  ASSUME NEW f \in Seq(SectionType), NEW g \in Seq(SectionType)
  PROVE  RulesOf(f \o g) = RulesOf(f) \o RulesOf(g)
<1>1. f \o g \in Seq(SectionType)
  BY ConcatProperties
<1>2. Collect(SectionRules, f \o g) = Collect(SectionRules, f) \o Collect(SectionRules, g)
  BY RulesOfIs, CollectConcat
<1>3. QED
  BY <1>1, <1>2, RulesOfIs

\* An empty file has none.
LEMMA RulesOfNone == RulesOf(<<>>) = <<>>
<1>1. <<>> \in Seq(SectionType)
  OBVIOUS
<1>2. QED
  BY <1>1, RulesOfIs, CollectEmpty

\* What the rules come to.
Summed(r) == [pattern |-> r.pattern, action |-> Effect(r.action)]
Sums(rs) == [i \in DOMAIN rs |-> Summed(rs[i])]
AnySum == {Summed(r) : r \in RuleType}

\* One more rule, and what it comes to.
LEMMA SumsAppend ==
  ASSUME NEW rs \in Seq(RuleType), NEW r \in RuleType
  PROVE  /\ Sums(rs) \in Seq(AnySum)
         /\ Sums(Append(rs, r)) = Append(Sums(rs), Summed(r))
<1> DEFINE n == Len(rs)
<1>1. n \in Nat /\ DOMAIN rs = 1 .. n /\ \A i \in 1 .. n : rs[i] \in RuleType
  OBVIOUS
<1>2. /\ DOMAIN Append(rs, r) = 1 .. n + 1
      /\ \A i \in 1 .. n : Append(rs, r)[i] = rs[i]
      /\ Append(rs, r)[n + 1] = r
  BY AppendProperties, <1>1
<1> HIDE DEF n
<1>3. \A x \in RuleType : Summed(x) \in AnySum
  BY DEF AnySum
<1>4. Sums(rs) \in Seq(AnySum) /\ Len(Sums(rs)) = n
  BY <1>1, <1>3 DEF Sums
<1>5. Sums(Append(rs, r)) \in Seq(AnySum) /\ Len(Sums(Append(rs, r))) = n + 1
  <2>1. \A i \in 1 .. n + 1 : Append(rs, r)[i] \in RuleType
    BY <1>1, <1>2
  <2>2. QED
    BY <1>1, <1>2, <1>3, <2>1 DEF Sums
<1>6. /\ Append(Sums(rs), Summed(r)) \in Seq(AnySum)
      /\ Len(Append(Sums(rs), Summed(r))) = n + 1
      /\ \A i \in 1 .. n : Append(Sums(rs), Summed(r))[i] = Sums(rs)[i]
      /\ Append(Sums(rs), Summed(r))[n + 1] = Summed(r)
  BY <1>3, <1>4, AppendProperties
<1>7. \A i \in 1 .. n : Sums(Append(rs, r))[i] = Sums(rs)[i]
  BY <1>1, <1>2 DEF Sums
<1>8. Sums(Append(rs, r))[n + 1] = Summed(r)
  BY <1>1, <1>2 DEF Sums
<1>9. \A i \in 1 .. n + 1 : Sums(Append(rs, r))[i] = Append(Sums(rs), Summed(r))[i]
  BY <1>1, <1>6, <1>7, <1>8
<1>10. QED
  BY <1>1, <1>4, <1>5, <1>6, <1>9, SeqEqual

\* The rules of two files come to what they come to one by one.
LEMMA SumsConcat ==
  ASSUME NEW rs \in Seq(RuleType), NEW qs \in Seq(RuleType)
  PROVE  Sums(rs \o qs) = Sums(rs) \o Sums(qs)
<1> DEFINE n == Len(rs)
           m == Len(qs)
<1>1. /\ n \in Nat /\ DOMAIN rs = 1 .. n /\ m \in Nat /\ DOMAIN qs = 1 .. m
      /\ \A i \in 1 .. n : rs[i] \in RuleType
      /\ \A i \in 1 .. m : qs[i] \in RuleType
  OBVIOUS
<1>2. /\ rs \o qs \in Seq(RuleType) /\ Len(rs \o qs) = n + m
      /\ \A i \in 1 .. n : (rs \o qs)[i] = rs[i]
      /\ \A i \in n + 1 .. n + m : (rs \o qs)[i] = qs[i - n]
  BY <1>1
<1>3. /\ Sums(rs) \in Seq(AnySum) /\ Len(Sums(rs)) = n
      /\ Sums(qs) \in Seq(AnySum) /\ Len(Sums(qs)) = m
  BY <1>1 DEF Sums, AnySum
<1>4. /\ Sums(rs) \o Sums(qs) \in Seq(AnySum) /\ Len(Sums(rs) \o Sums(qs)) = n + m
      /\ \A i \in 1 .. n : (Sums(rs) \o Sums(qs))[i] = Sums(rs)[i]
      /\ \A i \in n + 1 .. n + m : (Sums(rs) \o Sums(qs))[i] = Sums(qs)[i - n]
  <2> DEFINE a == Sums(rs)  b == Sums(qs)
  <2>1. a \in Seq(AnySum) /\ Len(a) = n /\ b \in Seq(AnySum) /\ Len(b) = m
    BY <1>3
  <2> HIDE DEF a, b
  <2>2. /\ a \o b \in Seq(AnySum) /\ Len(a \o b) = n + m
        /\ \A i \in 1 .. n : (a \o b)[i] = a[i]
        /\ \A i \in n + 1 .. n + m : (a \o b)[i] = b[i - n]
    BY <2>1
  <2>3. QED
    BY <2>2 DEF a, b
<1>5. DOMAIN (rs \o qs) = 1 .. n + m /\ \A i \in 1 .. n + m : (rs \o qs)[i] \in RuleType
  BY <1>2
<1> HIDE DEF n, m
<1>6. Sums(rs \o qs) \in Seq(AnySum) /\ Len(Sums(rs \o qs)) = n + m
  BY <1>1, <1>5 DEF Sums, AnySum
<1>7. ASSUME NEW i \in 1 .. n + m PROVE Sums(rs \o qs)[i] = (Sums(rs) \o Sums(qs))[i]
  <2>1. Sums(rs \o qs)[i] = Summed((rs \o qs)[i])
    BY <1>5 DEF Sums
  <2>2. CASE i \in 1 .. n
    BY <1>1, <1>2, <1>4, <2>1, <2>2 DEF Sums
  <2>3. CASE i \in n + 1 .. n + m
    <3>1. i - n \in 1 .. m
      BY <1>1, <2>3
    <3>2. Sums(qs)[i - n] = Summed(qs[i - n])
      BY <1>1, <3>1 DEF Sums
    <3>3. QED
      BY <1>2, <1>4, <2>1, <2>3, <3>2
  <2>4. i \in 1 .. n \/ i \in n + 1 .. n + m
    BY <1>1
  <2>5. QED
    BY <2>2, <2>3, <2>4
<1>8. QED
  BY <1>1, <1>4, <1>6, <1>7, SeqEqual

\* The inductive invariant of ActionsFile::load: current_action is what the tokens
\* read of the last header mean, and the rules made of the file at hand, and those
\* of the files before, are those the files stand for.
RulesInv ==
  /\ file # <<>> => Effect(action) = Meant(file[Len(file)].tokens)
  /\ Sums(url_actions) = RulesOf(file)
  /\ Sums(rules) = RulesOf(accepted)

\* The rules in force are those of the files that were read to their end, each with
\* the actions of its own header.
THEOREM RulesHold == Spec => []RulesAsWritten
<1>1. Init => RulesInv
  <2>1. Sums(<<>>) = <<>>
    BY DEF Sums
  <2>2. QED
    BY <2>1, RulesOfNone DEF Init, RulesInv
<1>2. Typed /\ RulesInv /\ [Next]_vars => RulesInv'
  <2> SUFFICES ASSUME Typed, RulesInv, [Next]_vars PROVE RulesInv'
    OBVIOUS
  <2>0. Sums(<<>>) = <<>>
    BY DEF Sums
  <2>1. CASE ReadHeader
    <3>1. file' = Append(file, NewSection) /\ action' = NoAction /\ NewSection \in SectionType
          /\ UNCHANGED <<url_actions, accepted, rules>>
      BY <2>1 DEF ReadHeader, NewSection, SectionType
    <3>2. SectionRules[NewSection] = <<>>
      BY <3>1 DEF SectionRules, NewSection
    <3>3. RulesOf(file) \in Seq(MeantRule)
      BY RulesOfIs DEF Typed
    <3>4. RulesOf(file') = RulesOf(file)
      <4>1. RulesOf(file') = RulesOf(file) \o SectionRules[NewSection]
        BY <3>1, RulesOfAppend DEF Typed
      <4>2. QED
        BY <3>2, <3>3, <4>1, ConcatEmptySeq
    <3>5. file'[Len(file')] = NewSection
      BY <3>1, AppendProperties DEF Typed
    <3>6. Effect(action') = Meant(file'[Len(file')].tokens)
      BY <3>1, <3>5, MeantNothing DEF NewSection
    <3>7. QED
      BY <3>1, <3>4, <3>6 DEF RulesInv
  <2>2. ASSUME NEW t \in Tokens, ReadToken(t) PROVE RulesInv'
    <3>1. /\ file # <<>> /\ file[Len(file)].urls = <<>>
          /\ file' = WithToken(file, t) /\ action' = Apply(action, t)
          /\ UNCHANGED <<url_actions, accepted, rules>>
      BY <2>2 DEF ReadToken, Written, WithToken
    <3>2. PICK front \in Seq(SectionType), s \in SectionType :
            /\ file = Append(front, s) /\ file[Len(file)] = s
            /\ WithToken(file, t) =
                 Append(front, [tokens |-> Append(s.tokens, t), urls |-> s.urls])
      BY <3>1, FileLast DEF Typed
    <3> DEFINE x == [tokens |-> Append(s.tokens, t), urls |-> s.urls]
    <3>3. x \in SectionType /\ s.urls = <<>>
      BY <3>1, <3>2, SectionGrows
    <3>4. SectionRules[s] = <<>> /\ SectionRules[x] = <<>>
      BY <3>3 DEF SectionRules
    <3>5. x.tokens = Append(s.tokens, t) /\ s.tokens \in Seq(Tokens)
      BY DEF SectionType
    <3> HIDE DEF x
    <3>6. RulesOf(file') = RulesOf(file)
      <4>1. RulesOf(file') = RulesOf(front) \o SectionRules[x]
        BY <3>1, <3>2, <3>3, RulesOfAppend DEF x
      <4>2. RulesOf(file) = RulesOf(front) \o SectionRules[s]
        BY <3>2, RulesOfAppend
      <4>3. QED
        BY <3>4, <4>1, <4>2
    <3>7. file'[Len(file')] = x
      <4>1. file' = Append(front, x)
        BY <3>1, <3>2 DEF x
      <4>2. QED
        BY <3>3, <4>1, AppendProperties
    <3>8. Effect(action') = Meant(Append(s.tokens, t))
      <4>1. Effect(action) = Meant(s.tokens)
        BY <3>1, <3>2 DEF RulesInv
      <4>2. QED
        BY <3>1, <3>5, <4>1, MeantApply DEF Typed
    <3>9. QED
      BY <3>1, <3>5, <3>6, <3>7, <3>8 DEF RulesInv
  <2>3. ASSUME NEW p \in Patterns, ReadPattern(p) PROVE RulesInv'
    <3> DEFINE r == [pattern |-> p, action |-> action]
    <3>1. /\ file # <<>> /\ file' = WithUrl(file, p)
          /\ url_actions' = Append(url_actions, r)
          /\ UNCHANGED <<action, accepted, rules>>
      BY <2>3 DEF ReadPattern, WithUrl
    <3>2. PICK front \in Seq(SectionType), s \in SectionType :
            /\ file = Append(front, s) /\ file[Len(file)] = s
            /\ WithUrl(file, p) =
                 Append(front, [tokens |-> s.tokens, urls |-> Append(s.urls, p)])
      BY <3>1, FileLast DEF Typed
    <3> DEFINE x == [tokens |-> s.tokens, urls |-> Append(s.urls, p)]
               m == [pattern |-> p, action |-> Meant(s.tokens)]
    <3>3. x \in SectionType /\ s.tokens \in Seq(Tokens) /\ s.urls \in Seq(Patterns)
      BY SectionGrows DEF SectionType
    <3>4. r \in RuleType /\ m \in MeantRule
      BY <3>3 DEF RuleType, MeantRule, Typed
    <3>5. Effect(action) = Meant(s.tokens)
      BY <3>1, <3>2 DEF RulesInv
    <3>6. Summed(r) = m
      BY <3>5 DEF Summed
    <3>7. SectionRules[x] = Append(SectionRules[s], m) /\ SectionRules[s] \in Seq(MeantRule)
      <4> DEFINE us == s.urls
                 vs == Append(s.urls, p)
                 g(w) == [k \in DOMAIN w |-> [pattern |-> w[k], action |-> Meant(s.tokens)]]
      <4>1. SectionRules[x] = g(vs) /\ SectionRules[s] = g(us)
        BY <3>3 DEF SectionRules
      <4>2. SectionRules[s] \in Seq(MeantRule) /\ SectionRules[x] \in Seq(MeantRule)
        <5>1. SectionRules \in Lister(SectionType, MeantRule)
          BY <3>2, RulesOfIs
        <5>2. QED
          BY <3>3, <5>1 DEF Lister
      <4>3. Len(us) \in Nat /\ DOMAIN us = 1 .. Len(us) /\ DOMAIN vs = 1 .. Len(us) + 1
            /\ (\A k \in 1 .. Len(us) : vs[k] = us[k]) /\ vs[Len(us) + 1] = p
        BY <3>3, AppendProperties
      <4>4. \A k \in 1 .. Len(us) : g(vs)[k] = g(us)[k]
        BY <4>3
      <4>5. g(vs)[Len(us) + 1] = m
        BY <4>3
      <4>6. Len(g(us)) = Len(us) /\ Len(g(vs)) = Len(us) + 1
        BY <4>1, <4>2, <4>3
      <4> HIDE DEF g, us, vs, m, x
      <4>7. /\ Append(g(us), m) \in Seq(MeantRule) /\ Len(Append(g(us), m)) = Len(us) + 1
            /\ \A k \in 1 .. Len(us) : Append(g(us), m)[k] = g(us)[k]
            /\ Append(g(us), m)[Len(us) + 1] = m
        BY <3>4, <4>1, <4>2, <4>6, AppendProperties
      <4>8. \A k \in 1 .. Len(us) + 1 : g(vs)[k] = Append(g(us), m)[k]
        BY <4>3, <4>4, <4>5, <4>7
      <4>9. g(vs) = Append(g(us), m)
        BY <4>1, <4>2, <4>6, <4>7, <4>8, SeqEqual
      <4>10. QED
        BY <4>1, <4>2, <4>9
    <3> HIDE DEF x, m, r
    <3>8. RulesOf(file') = Append(RulesOf(file), m)
      <4>1. RulesOf(file') = RulesOf(front) \o SectionRules[x]
        BY <3>1, <3>2, <3>3, RulesOfAppend DEF x
      <4>2. RulesOf(file) = RulesOf(front) \o SectionRules[s]
        BY <3>2, RulesOfAppend
      <4>3. RulesOf(front) \in Seq(MeantRule)
        BY RulesOfIs
      <4>4. \A a \in Seq(MeantRule), b \in Seq(MeantRule) :
              a \o Append(b, m) = Append(a \o b, m)
        BY <3>4
      <4>5. QED
        BY <3>7, <4>1, <4>2, <4>3, <4>4
    <3>9. Sums(url_actions') = Append(Sums(url_actions), m)
      BY <3>1, <3>4, <3>6, SumsAppend DEF Typed
    <3>10. file'[Len(file')].tokens = s.tokens
      <4>1. file' = Append(front, x)
        BY <3>1, <3>2 DEF x
      <4>2. file'[Len(file')] = x
        BY <3>3, <4>1, AppendProperties
      <4>3. QED
        BY <4>2 DEF x
    <3>11. QED
      BY <3>1, <3>5, <3>8, <3>9, <3>10 DEF RulesInv
  <2>4. CASE EndOfFile
    <3>1. /\ rules' = rules \o url_actions /\ accepted' = accepted \o file
          /\ file' = <<>> /\ url_actions' = <<>>
      BY <2>4 DEF EndOfFile, NextFile
    <3>2. Sums(rules') = Sums(rules) \o Sums(url_actions)
      BY <3>1, SumsConcat DEF Typed
    <3>3. RulesOf(accepted') = RulesOf(accepted) \o RulesOf(file)
      BY <3>1, RulesOfConcat DEF Typed
    <3>4. QED
      BY <2>0, <3>1, <3>2, <3>3, RulesOfNone DEF RulesInv
  <2>5. CASE RejectFile
    BY <2>0, <2>5, RulesOfNone DEF RejectFile, NextFile, RulesInv
  <2>6. CASE UNCHANGED <<file, action, url_actions, accepted, rules>>
    BY <2>6 DEF RulesInv
  <2>7. \/ ReadHeader \/ \E t \in Tokens : ReadToken(t)
        \/ \E p \in Patterns : ReadPattern(p)
        \/ EndOfFile \/ RejectFile
        \/ UNCHANGED <<file, action, url_actions, accepted, rules>>
    BY DEF Next, vars, loading, RejectConfig, EndOfConfig, ReadLine, Panic, TurnAway, Refuse, Ask
  <2>8. QED
    BY <2>1, <2>2, <2>3, <2>4, <2>5, <2>6, <2>7
<1>3. Typed /\ RulesInv => RulesAsWritten
  <2> SUFFICES ASSUME Typed, RulesInv PROVE RulesAsWritten
    OBVIOUS
  <2>1. \A i \in DOMAIN rules :
          [rules[i] EXCEPT !.action = Effect(@)] = Summed(rules[i])
    <3>1. SUFFICES ASSUME NEW i \in DOMAIN rules
                   PROVE  [rules[i] EXCEPT !.action = Effect(@)] = Summed(rules[i])
      OBVIOUS
    <3> DEFINE r == rules[i]
    <3>2. PICK p \in Patterns, a \in ActionType : r = [pattern |-> p, action |-> a]
      <4>1. r \in RuleType
        BY DEF Typed
      <4> HIDE DEF r
      <4>2. QED
        BY <4>1 DEF RuleType
    <3> HIDE DEF r
    <3>3. \A v : [r EXCEPT !.action = v] = [pattern |-> p, action |-> v]
      BY <3>2
    <3>4. r.pattern = p /\ r.action = a
      BY <3>2
    <3>5. QED
      BY <3>3, <3>4 DEF Summed, r
  <2>2. [i \in DOMAIN rules |-> [rules[i] EXCEPT !.action = Effect(@)]] = Sums(rules)
    BY <2>1 DEF Sums
  <2>3. QED
    BY <2>2 DEF RulesInv, RulesAsWritten
<1>4. QED
  BY <1>1, <1>2, <1>3, LoadingTyped, PTL DEF Spec

-----------------------------------------------------------------------------
\* A request is told from no request, and an address from none.
LEMMA Strangers ==
  /\ [family |-> "none"] \notin Clients
  /\ NoRequest \notin Requests
  /\ \A r \in Requests : r \in RequestType /\ r # NoRequest
<1>1. \A c \in Clients : DOMAIN c = {"family", "bits"}
  BY LoadingAssumption
<1>2. DOMAIN [family |-> "none"] = {"family"}
  OBVIOUS
<1>3. \A r \in Requests : r \in RequestType /\ r.form \in {"origin", "absolute", "connect"}
  BY LoadingAssumption DEF RequestType
<1>4. NoRequest.form = "none"
  BY DEF NoRequest
<1>5. NoRequest \notin Requests
  BY <1>3, <1>4
<1>6. QED
  BY <1>1, <1>2, <1>3, <1>5

\* What is known of an answer: it is given to a client that the access list let in,
\* and holds the result of the look-ups.
AnswerInv ==
  /\ client \in Clients <=> status \in {"answered", "refused"}
  /\ client \in Clients => (request # NoRequest <=> is_access_allowed(config, client))
  /\ client \notin Clients => request = NoRequest
  /\ request # NoRequest => found = find_action_for_url(request)
  /\ status = "answered" /\ request # NoRequest => route = find_forward_spec(request.host)

\* accept_loop, handle_connect and handle_http_request ask the access list and the
\* rules once, after all is read.
LEMMA AnswerHolds == Spec => []AnswerInv
<1>1. Init => AnswerInv
  BY Strangers DEF Init, AnswerInv
<1>2. Typed /\ AnswerInv /\ [Next]_vars => AnswerInv'
  <2> SUFFICES ASSUME Typed, AnswerInv, [Next]_vars PROVE AnswerInv'
    OBVIOUS
  <2>1. ASSUME NEW addr \in Clients, TurnAway(addr) PROVE AnswerInv'
    <3>1. client' = addr /\ status' = "answered" /\ request' = request /\ config' = config
          /\ ~is_access_allowed(config, addr) /\ client \notin Clients
      BY <2>1 DEF TurnAway, settings, AnswerInv
    <3>2. request' = NoRequest
      BY <3>1 DEF AnswerInv
    <3>3. is_access_allowed(config, client)' = is_access_allowed(config, addr)
      BY <3>1
    <3>4. QED
      BY <3>1, <3>2, <3>3 DEF AnswerInv
  <2>2. ASSUME NEW addr \in Clients, NEW r \in Requests, Refuse(addr, r) PROVE AnswerInv'
    <3>1. client' = addr /\ status' = "refused" /\ request' = r /\ config' = config
          /\ rules' = rules /\ is_access_allowed(config, addr)
          /\ found' = find_action_for_url(r)
      BY <2>2 DEF Refuse, settings, loading
    <3>2. is_access_allowed(config, client)' = is_access_allowed(config, addr)
      BY <3>1
    <3>3. find_action_for_url(request)' = find_action_for_url(r)
      BY <3>1 DEF find_action_for_url, Matching
    <3>4. QED
      BY <3>1, <3>2, <3>3, Strangers DEF AnswerInv
  <2>3. ASSUME NEW addr \in Clients, NEW r \in Requests, Ask(addr, r) PROVE AnswerInv'
    <3>1. client' = addr /\ status' = "answered" /\ request' = r /\ config' = config
          /\ rules' = rules /\ is_access_allowed(config, addr)
          /\ found' = find_action_for_url(r) /\ route' = find_forward_spec(r.host)
      BY <2>3 DEF Ask, settings, loading
    <3>2. is_access_allowed(config, client)' = is_access_allowed(config, addr)
      BY <3>1
    <3>3. find_action_for_url(request)' = find_action_for_url(r)
      BY <3>1 DEF find_action_for_url, Matching
    <3>4. find_forward_spec(request.host)' = find_forward_spec(r.host)
      BY <3>1 DEF find_forward_spec, Routing, Specs
    <3>5. QED
      BY <3>1, <3>2, <3>3, <3>4, Strangers DEF AnswerInv
  <2>4. ASSUME client \notin Clients, UNCHANGED <<client, request>>,
               status' \notin {"answered", "refused"}
        PROVE  AnswerInv'
    BY <2>4 DEF AnswerInv
  <2>5. CASE UNCHANGED vars
    <3>1. UNCHANGED <<status, client, request, found, route, config, rules>>
      BY <2>5 DEF vars, settings, loading, asked
    <3>2. is_access_allowed(config, client)' = is_access_allowed(config, client)
      BY <3>1
    <3>3. find_action_for_url(request)' = find_action_for_url(request)
      BY <3>1 DEF find_action_for_url, Matching
    <3>4. find_forward_spec(request.host)' = find_forward_spec(request.host)
      BY <3>1 DEF find_forward_spec, Routing, Specs
    <3>5. QED
      BY <3>1, <3>2, <3>3, <3>4 DEF AnswerInv
  <2>6. \/ \E addr \in Clients : TurnAway(addr)
        \/ \E addr \in Clients, r \in Requests : Refuse(addr, r)
        \/ \E addr \in Clients, r \in Requests : Ask(addr, r)
        \/ /\ status \in {"config", "reading"} /\ UNCHANGED <<client, request>>
           /\ status' \notin {"answered", "refused"}
        \/ UNCHANGED vars
    BY DEF Next, asked, RejectConfig, EndOfConfig, ReadLine, ReadHeader, RejectFile, Panic,
           EndOfFile, NextFile, ReadToken, ReadPattern, Reads
  <2>7. status \in {"config", "reading"} => client \notin Clients
    BY DEF AnswerInv
  <2>8. QED
    BY <2>1, <2>2, <2>3, <2>4, <2>5, <2>6, <2>7
<1>3. QED
  BY <1>1, <1>2, LoadingTyped, PTL DEF Spec

\* A client is let in as the last line of the access list for its address says.
THEOREM AccessHolds == Spec => []AccessAsWritten
<1>1. Typed /\ SettingsAsWritten /\ AnswerInv => AccessAsWritten
  <2> SUFFICES ASSUME Typed, SettingsAsWritten, AnswerInv, client \in Clients
               PROVE  request # NoRequest <=>
                        \/ \A i \in DOMAIN lines : ~(lines[i].key \in Access /\ Stands(lines[i]))
                        \/ \E i \in DOMAIN lines :
                             /\ lines[i].key = "permit-access"
                             /\ matches_pattern(client, lines[i].words)
                             /\ \A j \in DOMAIN lines : j > i =>
                                  ~(lines[j].key = "deny-access" /\
                                    matches_pattern(client, lines[j].words))
    BY DEF AccessAsWritten
  <2>1. request # NoRequest <=> is_access_allowed(config, client)
    BY DEF AnswerInv
  <2>2. config = Stated(lines) /\ lines \in Seq(ReadLines)
    BY DEF SettingsAsWritten, Typed
  <2>3. is_access_allowed(config, client) <=> ~Restricts(lines) \/ Grants(lines, client)
    BY <2>2, AllowedAsStated
  <2>4. QED
    BY <2>1, <2>3 DEF Restricts, Grants, On
<1>2. QED
  BY <1>1, LoadingTyped, SettingsHold, AnswerHolds, PTL

\* The patterns of the rules are patterns.
LEMMA RulePatterns ==
  ASSUME Typed
  PROVE  \A i \in DOMAIN rules : rules[i].pattern \in PatternType
<1>1. \A i \in DOMAIN rules : rules[i] \in RuleType
  BY DEF Typed
<1>2. QED
  BY <1>1, LoadingAssumption DEF RuleType

\* A path, or a CONNECT, gets the action of the first rule that covers it: neither
\* a wrong cut of a star nor a wrong place of the labels hides a rule.
THEOREM FirstRuleHolds == Spec => []FirstRuleDecides
<1>1. Typed /\ AnswerInv => FirstRuleDecides
  <2> SUFFICES ASSUME Typed, AnswerInv, request.form \in {"origin", "connect"}
               PROVE  LET covering == {i \in DOMAIN rules : Covers(rules[i].pattern, request)}
                      IN found = IF covering = {} THEN NoAction
                                 ELSE rules[Min(covering)].action
    BY DEF FirstRuleDecides
  <2>1. request # NoRequest
    BY DEF NoRequest
  <2>2. request \in RequestType /\ found = find_action_for_url(request)
    BY <2>1, Strangers DEF Typed, AnswerInv
  <2>3. Matching(request) = {i \in DOMAIN rules : Covers(rules[i].pattern, request)}
    BY <2>2, RulePatterns, UrlMatchesCovered DEF Matching
  <2>4. QED
    BY <2>2, <2>3 DEF find_action_for_url
<1>2. QED
  BY <1>1, LoadingTyped, AnswerHolds, PTL

\* The patterns of the forward lines are patterns.
LEMMA SpecPatterns ==
  ASSUME Typed, SettingsAsWritten
  PROVE  \A i \in Of(config, Forwarding) : forward_spec(config, i).pattern \in PatternType
<1>1. SUFFICES ASSUME NEW i \in Of(config, Forwarding)
               PROVE  forward_spec(config, i).pattern \in PatternType
  OBVIOUS
<1>2. config.listed \in Seq(Entries)
  BY StatedListIs DEF Typed, SettingsAsWritten, Stated
<1>3. i \in DOMAIN config.listed /\ config.listed[i][1] \in Forwarding
  BY DEF Of
<1>4. PICK l \in Lines : Stands(l) /\ config.listed[i] = ListEntry(l)
  BY <1>2, <1>3 DEF Entries
<1>5. l.key \in Forwarding
  BY <1>3, <1>4, Kinds
<1>6. ListEntry(l)[2] = parse_forward_spec(l)
  BY <1>5 DEF ListEntry
<1>7. l.words[1] \in PatternType
  BY <1>4, <1>5, LoadingAssumption DEF Stands
<1>8. QED
  BY <1>4, <1>6, <1>7 DEF forward_spec, parse_forward_spec

\* Where the patterns are hosts and domains, the route follows the first rule with
\* a usable override, or the first forward line, that covers the host.
THEOREM RoutesHold == Spec => []RoutesFollowRules
<1>1. Typed /\ SettingsAsWritten /\ AnswerInv => RoutesFollowRules
  <2> DEFINE routing == {i \in DOMAIN rules :
                           Covers(rules[i].pattern, request) /\ Overrides(rules[i].action)}
             specs == Of(config, Forwarding)
             lined == {i \in specs : Covers(forward_spec(config, i).pattern, request)}
  <2> SUFFICES ASSUME Typed, SettingsAsWritten, AnswerInv,
                      status = "answered", request # NoRequest,
                      \A i \in DOMAIN rules : Plain(rules[i].pattern),
                      \A i \in specs : Plain(forward_spec(config, i).pattern)
               PROVE  route =
                        IF routing # {}
                        THEN parse_forward_directive(
                               rules[Min(routing)].action.value["forward-override"].text)
                        ELSE IF lined # {} THEN forward_spec(config, Min(lined)).spec
                        ELSE Direct
    BY DEF RoutesFollowRules
  <2>1. request \in RequestType /\ route = find_forward_spec(request.host)
    BY Strangers DEF Typed, AnswerInv
  <2>2. Routing(request.host) = routing
    BY <2>1, RulePatterns, PlainHost DEF Routing
  <2>3. Specs(request.host) = lined
    BY <2>1, SpecPatterns, PlainHost DEF Specs
  <2> HIDE DEF routing, lined
  <2>4. QED
    BY <2>1, <2>2, <2>3 DEF find_forward_spec
<1>2. QED
  BY <1>1, LoadingTyped, SettingsHold, AnswerHolds, PTL
=============================================================================
