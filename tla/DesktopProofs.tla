----------------------------- MODULE DesktopProofs -----------------------------
(* Proofs about Desktop, for any threads, any limits of the log cache and any    *)
(* icons, ticks and clicks.                                                      *)
EXTENDS Desktop, FunctionTheorems, FiniteSetTheorems, TLAPS

-----------------------------------------------------------------------------
\* The log.

\* The file is registered before the cache is, so that a thread that finds the
\* cache finds the file.
Registered ==
  /\ HasFile /\ main \in {"start", "new"} => "file" \in registry
  /\ HasFile /\ "cache" \in registry => "file" \in registry
  /\ \A t \in Thread :
       /\ log[t].got \subseteq registry
       /\ HasFile /\ "cache" \in log[t].got => "file" \in log[t].got

\* The number of the line that t has pushed last, if it pushes.
Latest(t) == IF log[t].pc = "push" THEN log[t].n - 1 ELSE log[t].n

\* A line in the cache is its thread's latest or is followed by the next one, and
\* the thread goes on pushing.
Followed(i) ==
  LET t == cache[i][1]
  IN /\ cache[i][2] <= Latest(t)
     /\ \/ cache[i][2] = Latest(t)
        \/ \E k \in DOMAIN cache : k > i /\ cache[k] = <<t, cache[i][2] + 1>>
     /\ \E j \in DOMAIN cache : cache[j] = <<t, Latest(t)>>
     /\ "cache" \in registry
     /\ log[t].pc # "idle" => "cache" \in log[t].got

Ascending ==
  \A i, j \in DOMAIN cache : i < j /\ cache[i][1] = cache[j][1] => cache[i][2] < cache[j][2]

Lines ==
  /\ Len(cache) <= MaxLines
  /\ \A i \in DOMAIN cache : Followed(i)
  /\ Ascending

LogInv == LogTypeOK /\ Registered /\ ShownIsLogged /\ Lines

-----------------------------------------------------------------------------
\* The icon.

\* Before the event loop runs nobody toggles the proxy and nothing is animated.
Early ==
  main \in {"load", "logfile", "start", "new", "icons", "counter", "menu"}
    => enabled = TRUE /\ remaining = 0

TrayInv == TrayTypeOK /\ Early /\ IconTellsState

IInv == LogInv /\ TrayInv

-----------------------------------------------------------------------------
\* The program starts with an empty log and without a tray.
LEMMA InitInv == Init => IInv
  <1> SUFFICES ASSUME Init PROVE IInv
    OBVIOUS
  <1>1. LogTypeOK
    BY DEF Init, LogInit, LogTypeOK
  <1>2. Registered /\ ShownIsLogged /\ Lines
    BY LogAssumption DEF Init, LogInit, TrayInit, Registered, ShownIsLogged, Lines, Ascending,
                         ToSet
  <1>3. TrayTypeOK
    <2>1. enabled \in BOOLEAN /\ check \in BOOLEAN /\ handles \in BOOLEAN
      BY DEF Init, TrayInit
    <2>2. remaining \in 0 .. Ticks
      BY TrayAssumption DEF Init, TrayInit
    <2> QED
      BY <2>1, <2>2 DEF Init, TrayInit, TrayTypeOK
  <1>4. Early /\ IconTellsState
    BY DEF Init, TrayInit, Early, IconTellsState
  <1> QED
    BY <1>1, <1>2, <1>3, <1>4 DEF IInv, LogInv, TrayInv

-----------------------------------------------------------------------------
\* The lines but for the first d of them, with x after them.
Moved(new, lines, x, d) ==
  /\ new \in Seq(Thread \X Nat)
  /\ Len(new) = Len(lines) + 1 - d
  /\ 1 <= Len(new) /\ Len(new) <= MaxLines
  /\ \A i \in 1 .. Len(new) - 1 : i + d \in DOMAIN lines /\ new[i] = lines[i + d]
  /\ new[Len(new)] = x

\* A line that is added moves the others by what is drained.
LEMMA DrainedAppend ==
  ASSUME NEW lines \in Seq(Thread \X Nat), NEW x \in Thread \X Nat, Len(lines) <= MaxLines
  PROVE  \E d \in Nat : Moved(Drained(Append(lines, x)), lines, x, d)
  <1> DEFINE new == Drained(Append(lines, x))
  <1> DEFINE long == Append(lines, x)
  <1>1. /\ long \in Seq(Thread \X Nat) /\ Len(long) = Len(lines) + 1 /\ Len(lines) \in Nat
        /\ \A i \in 1 .. Len(lines) : long[i] = lines[i]
        /\ long[Len(lines) + 1] = x
        /\ DOMAIN lines = 1 .. Len(lines)
    OBVIOUS
  <1>2. MaxLines \in Nat /\ 1 <= MaxLines
    BY LogAssumption
  <1>3. new = Drained(long)
    OBVIOUS
  <1> SUFFICES \E d \in Nat : Moved(new, lines, x, d)
    OBVIOUS
  <1> HIDE DEF long, new
  <1>4. CASE Len(long) > MaxLines
    <2>1. new = SubSeq(long, Len(long) - MaxLines + 1, Len(long))
      BY <1>3, <1>4 DEF Drained
    <2>2. Len(lines) = MaxLines /\ Len(long) = MaxLines + 1
      <3>1. Len(lines) \in Nat /\ Len(long) = Len(lines) + 1
        BY <1>1
      <3> QED
        BY <1>2, <1>4, <3>1
    <2>3. /\ new \in Seq(Thread \X Nat) /\ Len(new) = MaxLines
          /\ \A i \in 1 .. MaxLines : new[i] = long[i + 1]
      BY <1>1, <1>2, <2>1, <2>2
    <2>4. \A i \in 1 .. Len(new) - 1 : i + 1 \in DOMAIN lines /\ new[i] = lines[i + 1]
      BY <1>1, <1>2, <2>2, <2>3
    <2>5. new[Len(new)] = x
      <3>1. new[MaxLines] = long[MaxLines + 1]
        BY <1>2, <2>3
      <3>2. long[MaxLines + 1] = x
        BY <1>1, <2>2
      <3> QED
        BY <2>3, <3>1, <3>2
    <2>6. Len(new) = Len(lines) + 1 - 1 /\ 1 <= Len(new) /\ Len(new) <= MaxLines /\ 1 \in Nat
      BY <1>1, <1>2, <2>2, <2>3
    <2> QED
      BY <2>3, <2>4, <2>5, <2>6 DEF Moved
  <1>5. CASE ~ (Len(long) > MaxLines)
    <2>1. new = long
      BY <1>3, <1>5 DEF Drained
    <2>2. \A i \in 1 .. Len(new) - 1 : i + 0 \in DOMAIN lines /\ new[i] = lines[i + 0]
      BY <1>1, <2>1
    <2>3. Len(new) = Len(lines) + 1 - 0 /\ 1 <= Len(new) /\ Len(new) <= MaxLines /\ 0 \in Nat
      BY <1>1, <1>2, <1>5, <2>1
    <2>4. new \in Seq(Thread \X Nat) /\ new[Len(new)] = x
      BY <1>1, <2>1
    <2> QED
      BY <2>2, <2>3, <2>4 DEF Moved
  <1> QED
    BY <1>4, <1>5

\* A line is named by its thread and its number.
LEMMA LineType == ASSUME LogTypeOK, NEW t \in Thread PROVE Line(t) \in Thread \X Nat
  BY DEF LogTypeOK, Line

-----------------------------------------------------------------------------
\* A thread pushes its line.
LEMMA PushLines ==
  ASSUME LogInv, NEW t \in Thread, Push(t)
  PROVE  LogTypeOK' /\ ShownIsLogged' /\ Lines'
  <1> USE DEF LogInv
  <1>1. /\ log[t].pc = "push" /\ UNCHANGED <<registry, file, lost, text>>
        /\ log' = [log EXCEPT ![t].pc = "write"]
    BY DEF Push
  <1>2. /\ \A u \in Thread : u # t => log'[u] = log[u]
        /\ log'[t].pc = "write" /\ log'[t].n = log[t].n /\ log'[t].got = log[t].got
        /\ log' \in [Thread -> [pc : {"idle", "push", "write"}, n : Nat,
                                got : SUBSET {"file", "cache"}]]
    BY <1>1 DEF LogTypeOK
  <1>3. \A u \in Thread : Line(u)' = Line(u)
    BY <1>2 DEF Line
  <1>4. CASE "cache" \notin log[t].got
    <2>1. cache' = cache
      BY <1>4 DEF Push
    <2>2. \A i \in DOMAIN cache : cache[i][1] # t
      BY <1>1, <1>4 DEF Lines, Followed
    <2>3. \A i \in DOMAIN cache : cache[i][1] \in Thread
      BY DEF LogTypeOK
    <2>4. \A u \in Thread : u # t => Latest(u)' = Latest(u)
      BY <1>2 DEF Latest
    <2>5. LogTypeOK'
      BY <1>1, <1>2, <2>1 DEF LogTypeOK
    <2>6. ShownIsLogged'
      BY <1>1, <1>2, <1>3, <2>1 DEF ShownIsLogged
    <2>7. \A i \in DOMAIN cache' : Followed(i)'
      BY <1>1, <1>2, <2>1, <2>2, <2>3, <2>4 DEF Lines, Followed
    <2>8. Ascending' /\ (Len(cache) <= MaxLines)'
      BY <2>1 DEF Lines, Ascending
    <2> QED
      BY <2>5, <2>6, <2>7, <2>8 DEF Lines
  <1>5. CASE "cache" \in log[t].got
    <2>1. cache' = Drained(Append(cache, Line(t)))
      BY <1>5 DEF Push
    <2>2. PICK d \in Nat : Moved(cache', cache, Line(t), d)
      <3>1. cache \in Seq(Thread \X Nat) /\ Line(t) \in Thread \X Nat /\ Len(cache) <= MaxLines
        BY LineType DEF LogTypeOK, Lines
      <3> QED
        BY <2>1, <3>1, DrainedAppend
    <2> DEFINE top == Len(cache')
    <2> USE DEF Moved
    <2>3. /\ top \in Nat /\ Len(cache) \in Nat
          /\ DOMAIN cache' = 1 .. top /\ DOMAIN cache = 1 .. Len(cache)
      BY <2>2 DEF LogTypeOK
    <2>4. LogTypeOK'
      BY <1>1, <1>2, <2>2 DEF LogTypeOK
    <2>5. \A i \in DOMAIN cache : cache[i] \in Thread \X Nat
      BY DEF LogTypeOK
    <2>6. "cache" \in registry'
      BY <1>1, <1>5 DEF Registered
    <2>7. /\ \A u \in Thread : u # t => Latest(u)' = Latest(u)
          /\ log[t].n \in Nat /\ Latest(t) = log[t].n - 1 /\ Latest(t)' = log[t].n
          /\ \A u \in Thread : Latest(u) \in Int
      BY <1>1, <1>2 DEF Latest, LogTypeOK
    <2>8. cache'[top] = <<t, log[t].n>>
      BY <2>2 DEF Line
    <2>9. ShownIsLogged'
      <3>1. ASSUME NEW i \in DOMAIN cache'
            PROVE  cache'[i] \in ToSet(cache) \union {Line(t)}
        <4>1. CASE i = top
          BY <2>2, <4>1
        <4>2. CASE i # top
          <5>1. i \in 1 .. top - 1
            BY <2>3, <4>2
          <5>2. i + d \in DOMAIN cache /\ cache'[i] = cache[i + d]
            BY <2>2, <5>1
          <5> QED
            BY <5>2 DEF ToSet
        <4> QED
          BY <4>1, <4>2
      <3>2. HasFile => "file" \in log[t].got
        BY <1>5 DEF Registered
      <3>3. ToSet(cache') \subseteq ToSet(cache) \union {Line(t)}
        BY <3>1 DEF ToSet
      <3> QED
        BY <1>1, <1>2, <1>3, <3>2, <3>3 DEF ShownIsLogged
    <2>10. ASSUME NEW i \in DOMAIN cache', i # top
           PROVE  /\ i \in 1 .. top - 1 /\ i + d \in DOMAIN cache
                  /\ cache'[i] = cache[i + d] /\ cache'[i] \in Thread \X Nat
                  /\ Followed(i + d)
      <3>1. i \in 1 .. top - 1
        BY <2>3, <2>10
      <3>2. i + d \in DOMAIN cache /\ cache'[i] = cache[i + d]
        BY <2>2, <3>1
      <3> QED
        BY <2>5, <3>1, <3>2 DEF Lines
    <2>11. ASSUME NEW k \in DOMAIN cache, k > d
           PROVE  k - d \in DOMAIN cache' /\ k - d # top /\ cache'[k - d] = cache[k]
      <3>1. k - d \in 1 .. top - 1 /\ (k - d) + d = k
        BY <2>2, <2>3, <2>11
      <3>2. cache'[k - d] = cache[(k - d) + d]
        BY <2>2, <3>1
      <3> QED
        BY <2>3, <3>1, <3>2
    <2>12. Ascending'
      <3> SUFFICES ASSUME NEW i \in DOMAIN cache', NEW j \in DOMAIN cache',
                          i < j, cache'[i][1] = cache'[j][1]
                   PROVE  cache'[i][2] < cache'[j][2]
        BY DEF Ascending
      <3>1. i # top
        BY <2>3
      <3>2. CASE j = top
        <4>1. cache'[i][1] = t /\ cache'[i][2] <= Latest(t) /\ cache'[i][2] \in Int
          BY <2>8, <2>10, <3>1, <3>2 DEF Followed
        <4> QED
          BY <2>7, <2>8, <3>2, <4>1
      <3>3. CASE j # top
        <4>1. i + d < j + d
          BY <2>2, <2>3
        <4> QED
          BY <2>10, <3>1, <3>3, <4>1 DEF Lines, Ascending
      <3> QED
        BY <3>2, <3>3
    <2>13. ASSUME NEW i \in DOMAIN cache' PROVE Followed(i)'
      <3>1. CASE i = top
        <4>1. cache'[i][1] = t /\ cache'[i][2] = log[t].n
          BY <2>8, <3>1
        <4>2. cache'[top][2] <= log[t].n /\ \E j \in DOMAIN cache' : cache'[j] = <<t, log[t].n>>
          BY <2>3, <2>7, <2>8, <3>1
        <4>3. log'[t].pc # "idle" => "cache" \in log'[t].got
          BY <1>2, <1>5
        <4> QED
          BY <1>2, <2>6, <3>1, <4>1, <4>2, <4>3 DEF Followed, Latest
      <3>2. CASE i # top
        <4>1. PICK u \in Thread :
              /\ i + d \in DOMAIN cache /\ i \in Nat
              /\ cache'[i] = cache[i + d] /\ cache'[i][1] = u /\ cache'[i][2] \in Nat
              /\ Followed(i + d)
          BY <2>3, <2>10, <3>2
        <4>2. top \in DOMAIN cache' /\ top > i
          BY <2>2, <2>3, <3>2
        <4>3. ASSUME NEW k \in DOMAIN cache, k > i + d
              PROVE  k - d \in DOMAIN cache' /\ k - d > i /\ cache'[k - d] = cache[k]
          <5>1. k > d /\ k - d > i
            BY <4>1, <4>3, <2>3
          <5> QED
            BY <2>11, <5>1
        <4>4. CASE u = t
          <5>1. cache[i + d][1] = t
            BY <4>1, <4>4
          <5>2. cache'[i][2] <= log[t].n
            BY <2>7, <4>1, <5>1 DEF Followed
          <5>3. CASE cache[i + d][2] = Latest(t)
            <6>1. cache'[top] = <<t, cache'[i][2] + 1>>
              BY <2>7, <2>8, <4>1, <5>3
            <6> QED
              BY <1>2, <1>5, <2>6, <2>7, <2>8, <4>1, <4>2, <4>4, <5>2, <6>1 DEF Followed, Latest
          <5>4. CASE cache[i + d][2] # Latest(t)
            <6>1. PICK k \in DOMAIN cache : k > i + d /\ cache[k] = <<t, cache[i + d][2] + 1>>
              BY <4>1, <5>1, <5>4 DEF Followed
            <6>2. k - d \in DOMAIN cache' /\ k - d > i
                  /\ cache'[k - d] = <<t, cache'[i][2] + 1>>
              BY <4>1, <4>3, <6>1
            <6> QED
              BY <1>2, <1>5, <2>6, <2>7, <2>8, <4>1, <4>2, <4>4, <5>2, <6>2 DEF Followed, Latest
          <5> QED
            BY <5>3, <5>4
        <4>5. CASE u # t
          <5>1. cache[i + d][1] = u /\ Latest(u)' = Latest(u) /\ log'[u] = log[u]
            BY <1>2, <2>7, <4>1, <4>5
          <5>2. PICK j \in DOMAIN cache : cache[j] = <<u, Latest(u)>>
            BY <4>1, <5>1 DEF Followed
          <5>3. cache'[i][2] <= Latest(u)
            BY <4>1, <5>1 DEF Followed
          <5>4. j >= i + d
            <6>1. CASE j < i + d
              <7>1. cache[j][2] < cache[i + d][2]
                BY <4>1, <5>1, <5>2, <6>1 DEF Lines, Ascending
              <7> QED
                BY <2>7, <4>1, <5>1, <5>2, <5>3, <7>1
            <6> QED
              BY <2>3, <4>1, <6>1
          <5>5. \E m \in DOMAIN cache' : cache'[m] = <<u, Latest(u)>>
            <6>1. CASE j = i + d
              BY <4>1, <5>2, <6>1
            <6>2. CASE j # i + d
              <7>1. j > i + d
                BY <2>3, <4>1, <5>4, <6>2
              <7> QED
                BY <4>3, <5>2, <7>1
            <6> QED
              BY <6>1, <6>2
          <5>6. \/ cache'[i][2] = Latest(u)
                \/ \E k \in DOMAIN cache' : k > i /\ cache'[k] = <<u, cache'[i][2] + 1>>
            <6>1. CASE cache[i + d][2] = Latest(u)
              BY <4>1, <6>1
            <6>2. CASE cache[i + d][2] # Latest(u)
              <7>1. PICK k \in DOMAIN cache : k > i + d /\ cache[k] = <<u, cache[i + d][2] + 1>>
                BY <4>1, <5>1, <6>2 DEF Followed
              <7> QED
                BY <4>1, <4>3, <7>1
            <6> QED
              BY <6>1, <6>2
          <5>7. log[u].pc # "idle" => "cache" \in log[u].got
            BY <4>1, <5>1 DEF Followed
          <5> QED
            BY <2>6, <4>1, <5>1, <5>3, <5>5, <5>6, <5>7 DEF Followed, Latest
        <4> QED
          BY <4>4, <4>5
      <3> QED
        BY <3>1, <3>2
    <2> QED
      BY <2>2, <2>4, <2>9, <2>12, <2>13 DEF Lines
  <1> QED
    BY <1>4, <1>5

\* What PushLines leaves: the registries stay as they were found.
LEMMA PushInv ==
  ASSUME LogInv, NEW t \in Thread, Push(t), main' = main
  PROVE  LogInv'
  <1>1. LogTypeOK' /\ ShownIsLogged' /\ Lines'
    BY PushLines
  <1>2. registry' = registry /\ \A u \in Thread : log'[u].got = log[u].got
    BY DEF Push, LogInv, LogTypeOK
  <1>3. Registered'
    BY <1>2 DEF LogInv, Registered
  <1> QED
    BY <1>1, <1>3 DEF LogInv

\* A thread takes up a line and finds the registries as they are.
LEMMA FindInv ==
  ASSUME LogInv, NEW t \in Thread, Find(t), main' = main
  PROVE  LogInv'
  <1> USE DEF LogInv
  <1>1. /\ log[t].pc = "idle" /\ UNCHANGED <<registry, cache, file, lost, text>>
        /\ log[t].n \in Nat
    BY DEF Find, LogTypeOK
  <1>2. /\ \A u \in Thread : u # t => log'[u] = log[u]
        /\ log'[t] = [pc |-> "push", n |-> log[t].n + 1, got |-> registry]
    BY DEF Find, LogTypeOK
  <1>3. LogTypeOK'
    BY <1>1 DEF Find, LogTypeOK
  <1>4. Registered'
    BY <1>1, <1>2 DEF Registered
  <1>5. ShownIsLogged'
    BY <1>1, <1>2 DEF ShownIsLogged, Line
  <1>6. ASSUME NEW u \in Thread PROVE Latest(u)' = Latest(u)
    <2>1. CASE u = t
      <3>1. Latest(t) = log[t].n /\ Latest(t)' = log[t].n + 1 - 1
        BY <1>1, <1>2 DEF Latest
      <3> QED
        BY <1>1, <2>1, <3>1
    <2>2. CASE u # t
      BY <1>2, <2>2 DEF Latest
    <2> QED
      BY <2>1, <2>2
  <1>7. ASSUME NEW i \in DOMAIN cache' PROVE Followed(i)'
    <2>1. PICK u \in Thread : cache[i][1] = u /\ i \in DOMAIN cache /\ Followed(i)
      BY <1>1 DEF Lines, LogTypeOK
    <2>2. log'[u].pc # "idle" => "cache" \in log'[u].got
      BY <1>1, <1>2, <2>1 DEF Followed
    <2> QED
      BY <1>1, <1>6, <2>1, <2>2 DEF Followed
  <1>8. Ascending' /\ (Len(cache) <= MaxLines)'
    BY <1>1 DEF Lines, Ascending
  <1> QED
    BY <1>3, <1>4, <1>5, <1>7, <1>8 DEF Lines

\* A thread writes its line to the file, and is done with it.
LEMMA WriteInv ==
  ASSUME LogInv, NEW t \in Thread, Write(t), main' = main
  PROVE  LogInv'
  <1> USE DEF LogInv
  <1>1. /\ log[t].pc = "write" /\ UNCHANGED <<registry, cache, text>>
        /\ file \subseteq file' /\ lost \subseteq lost'
        /\ file' \subseteq file \union {Line(t)} /\ lost' \subseteq lost \union {Line(t)}
        /\ "file" \in log[t].got => Line(t) \in file' \union lost'
    BY DEF Write
  <1>2. /\ \A u \in Thread : u # t => log'[u] = log[u]
        /\ log'[t].pc = "idle" /\ log'[t].n = log[t].n /\ log'[t].got = log[t].got
    BY DEF Write, LogTypeOK
  <1>3. LogTypeOK'
    <2>1. Line(t) \in Thread \X Nat
      BY LineType
    <2>2. file' \subseteq Thread \X Nat /\ lost' \subseteq Thread \X Nat
      BY <1>1, <2>1 DEF LogTypeOK
    <2>3. log' \in [Thread -> [pc : {"idle", "push", "write"}, n : Nat,
                               got : SUBSET {"file", "cache"}]]
      BY DEF Write, LogTypeOK
    <2> QED
      BY <1>1, <2>2, <2>3 DEF LogTypeOK
  <1>4. Registered'
    BY <1>1, <1>2 DEF Registered
  <1>5. ShownIsLogged'
    <2>1. \A u \in Thread : Line(u)' = Line(u)
      BY <1>2 DEF Line
    <2> QED
      BY <1>1, <1>2, <2>1 DEF ShownIsLogged
  <1>6. \A u \in Thread : Latest(u)' = Latest(u)
    BY <1>1, <1>2 DEF Latest
  <1>7. ASSUME NEW i \in DOMAIN cache' PROVE Followed(i)'
    <2>1. PICK u \in Thread : cache[i][1] = u /\ i \in DOMAIN cache /\ Followed(i)
      BY <1>1 DEF Lines, LogTypeOK
    <2>2. log'[u].pc # "idle" => "cache" \in log'[u].got
      BY <1>1, <1>2, <2>1 DEF Followed
    <2> QED
      BY <1>1, <1>6, <2>1, <2>2 DEF Followed
  <1>8. Ascending' /\ (Len(cache) <= MaxLines)'
    BY <1>1 DEF Lines, Ascending
  <1> QED
    BY <1>3, <1>4, <1>5, <1>7, <1>8 DEF Lines

\* Threads that do not log leave the log as it is.
LEMMA QuietInv ==
  ASSUME LogInv, UNCHANGED logVars, main' \in {"start", "new"} => main \in {"start", "new"}
  PROVE  LogInv'
  <1>1. UNCHANGED <<registry, cache, file, lost, text, log>>
    BY DEF logVars
  <1>2. LogTypeOK' /\ Registered' /\ ShownIsLogged'
    BY <1>1 DEF LogInv, LogTypeOK, Registered, ShownIsLogged, Line
  <1>3. Lines'
    BY <1>1 DEF LogInv, Lines, Ascending, Followed, Latest
  <1> QED
    BY <1>2, <1>3 DEF LogInv

\* The file is registered.
LEMMA FileInv ==
  ASSUME LogInv, OpenLogFile, RegisterFile
  PROVE  LogInv'
  <1>1. UNCHANGED <<cache, file, lost, text, log>> /\ registry \subseteq registry'
    BY DEF RegisterFile
  <1>2. LogTypeOK' /\ Registered' /\ ShownIsLogged'
    BY <1>1 DEF LogInv, LogTypeOK, Registered, ShownIsLogged, Line, RegisterFile
  <1>3. Lines'
    BY <1>1 DEF LogInv, Lines, Ascending, Followed, Latest
  <1> QED
    BY <1>2, <1>3 DEF LogInv

\* The cache is registered when the file is.
LEMMA CacheInv ==
  ASSUME LogInv, NewApp, RegisterCache
  PROVE  LogInv'
  <1>1. UNCHANGED <<cache, file, lost, text, log>> /\ registry' = registry \union {"cache"}
    BY DEF RegisterCache
  <1>2. main = "new" /\ main' = "icons"
    BY DEF NewApp, MainGoes
  <1>3. LogTypeOK' /\ ShownIsLogged'
    BY <1>1 DEF LogInv, LogTypeOK, ShownIsLogged, Line
  <1>4. Registered'
    BY <1>1, <1>2 DEF LogInv, Registered
  <1>5. Lines'
    BY <1>1 DEF LogInv, Lines, Ascending, Followed, Latest
  <1> QED
    BY <1>3, <1>4, <1>5 DEF LogInv

\* The window shows what the cache holds, or nothing.
LEMMA TextInv ==
  ASSUME LogInv, FillText \/ ClearText, main' = main
  PROVE  LogInv'
  <1>1. UNCHANGED <<registry, cache, file, lost, log>> /\ text' \in {cache, <<>>}
    BY DEF FillText, ClearText
  <1>2. LogTypeOK'
    <2>1. cache \in Seq(Thread \X Nat) /\ <<>> \in Seq(Thread \X Nat)
      BY DEF LogInv, LogTypeOK
    <2>2. text' \in Seq(Thread \X Nat)
      BY <1>1, <2>1
    <2> QED
      BY <1>1, <2>2 DEF LogInv, LogTypeOK
  <1>3. Registered'
    BY <1>1 DEF LogInv, Registered
  <1>4. ShownIsLogged'
    <2>1. ToSet(text') \subseteq ToSet(cache) \union ToSet(text)
      BY <1>1 DEF ToSet
    <2> QED
      BY <1>1, <2>1 DEF LogInv, ShownIsLogged, Line
  <1>5. Lines'
    BY <1>1 DEF LogInv, Lines, Ascending, Followed, Latest
  <1> QED
    BY <1>2, <1>3, <1>4, <1>5 DEF LogInv

\* The cache is emptied.
LEMMA ClearInv ==
  ASSUME LogInv, ClearCache, main' = main
  PROVE  LogInv'
  <1>1. UNCHANGED <<registry, text, file, lost, log>> /\ cache' = <<>>
    BY DEF ClearCache
  <1>2. LogTypeOK'
    BY <1>1 DEF LogInv, LogTypeOK
  <1>3. Registered'
    BY <1>1 DEF LogInv, Registered
  <1>4. ShownIsLogged'
    <2>1. ToSet(cache') \subseteq ToSet(cache)
      BY <1>1 DEF ToSet
    <2> QED
      BY <1>1, <2>1 DEF LogInv, ShownIsLogged, Line
  <1>5. Lines'
    BY <1>1, LogAssumption DEF Lines, Ascending
  <1> QED
    BY <1>2, <1>3, <1>4, <1>5 DEF LogInv

-----------------------------------------------------------------------------
\* The threads of the tray.

\* The sequence without its i-th event.
LEMMA TakenType ==
  ASSUME TrayTypeOK, NEW kind, Taken(kind)
  PROVE  events' \in Seq({"toggle", "show", "exit"}) /\ UNCHANGED <<clicks, check>>
  <1> DEFINE E == {"toggle", "show", "exit"}
  <1>1. PICK i \in DOMAIN events : events' = RemoveAt(events, i)
    BY DEF Taken
  <1>2. events \in Seq(E) /\ i \in 1 .. Len(events) /\ Len(events) \in Nat
    BY <1>1 DEF TrayTypeOK
  <1> HIDE DEF E
  <1>3. /\ SubSeq(events, 1, i - 1) \in Seq(E)
        /\ SubSeq(events, i + 1, Len(events)) \in Seq(E)
    BY <1>2
  <1>4. events' \in Seq(E)
    BY <1>1, <1>3 DEF RemoveAt
  <1> QED
    BY <1>4 DEF Taken, E

\* The types, over the start-up in the main thread.
LEMMA StartUpType ==
  ASSUME TrayTypeOK,
         \/ LoadConfig \/ OpenLogFile \/ LogFileFails \/ StartProxy
         \/ NewApp \/ LoadIcons \/ ReadCounter \/ StartLoop \/ ReturnError
  PROVE  TrayTypeOK'
  <1> USE DEF TrayTypeOK, threads, ending, proxy, animation, menu, view
  <1>1. CASE LoadConfig
    BY <1>1 DEF LoadConfig, MainGoes
  <1>2. CASE OpenLogFile
    BY <1>2 DEF OpenLogFile, MainGoes
  <1>3. CASE LogFileFails
    BY <1>3 DEF LogFileFails, MainGoes
  <1>4. CASE StartProxy
    BY <1>4 DEF StartProxy
  <1>5. CASE NewApp
    BY <1>5 DEF NewApp, MainGoes
  <1>6. CASE LoadIcons
    BY <1>6 DEF LoadIcons, MainGoes
  <1>7. CASE ReadCounter
    BY <1>7 DEF ReadCounter, MainGoes
  <1>8. CASE StartLoop
    BY <1>8 DEF StartLoop, MainGoes
  <1>9. CASE ReturnError
    BY <1>9 DEF ReturnError, MainGoes
  <1> QED
    BY <1>1, <1>2, <1>3, <1>4, <1>5, <1>6, <1>7, <1>8, <1>9

\* The types, over the clicks that the event loop takes.
LEMMA TakesType ==
  ASSUME TrayTypeOK, ToggleTaken \/ ShowAgain \/ ShowFirst \/ ExitTaken
  PROVE  TrayTypeOK'
  <1> USE DEF TrayTypeOK, threads, ending, proxy, animation, menu, view
  <1>1. CASE ToggleTaken
    <2>1. events' \in Seq({"toggle", "show", "exit"}) /\ UNCHANGED <<clicks, check>>
      <3>1. Taken("toggle")
        BY <1>1 DEF ToggleTaken
      <3> HIDE DEF TrayTypeOK
      <3> QED
        BY <3>1, TakenType
    <2> QED
      BY <1>1, <2>1 DEF ToggleTaken, MainGoes
  <1>2. CASE ShowAgain
    <2>1. events' \in Seq({"toggle", "show", "exit"}) /\ UNCHANGED <<clicks, check>>
      <3>1. Taken("show")
        BY <1>2 DEF ShowAgain
      <3> HIDE DEF TrayTypeOK
      <3> QED
        BY <3>1, TakenType
    <2> QED
      BY <1>2, <2>1 DEF ShowAgain
  <1>3. CASE ShowFirst
    <2>1. events' \in Seq({"toggle", "show", "exit"}) /\ UNCHANGED <<clicks, check>>
      <3>1. Taken("show")
        BY <1>3 DEF ShowFirst
      <3> HIDE DEF TrayTypeOK
      <3> QED
        BY <3>1, TakenType
    <2> QED
      BY <1>3, <2>1 DEF ShowFirst
  <1>4. CASE ExitTaken
    <2>1. events' \in Seq({"toggle", "show", "exit"}) /\ UNCHANGED <<clicks, check>>
      <3>1. Taken("exit")
        BY <1>4 DEF ExitTaken
      <3> HIDE DEF TrayTypeOK
      <3> QED
        BY <3>1, TakenType
    <2> QED
      BY <1>4, <2>1 DEF ExitTaken, MainGoes, Sent
  <1> QED
    BY <1>1, <1>2, <1>3, <1>4

\* The types, over the event loop's other steps.
LEMMA LoopType ==
  ASSUME TrayTypeOK, Tick \/ UpdateIcon \/ ReceiveHandles \/ ExitFromMenu
  PROVE  TrayTypeOK'
  <1> USE DEF TrayTypeOK, threads, ending, proxy, animation, menu, view
  <1>1. CASE Tick
    <2> DEFINE ticks == IF received > last THEN Ticks ELSE remaining
    <2>1. ticks \in 0 .. Ticks
      BY TrayAssumption
    <2>2. /\ last' = received /\ remaining' = IF ticks > 0 THEN ticks - 1 ELSE 0
          /\ IF ticks > 0 THEN SetIcon(enabled, ticks - 1) ELSE UNCHANGED <<tray, outcome>>
          /\ UNCHANGED <<threads, ending, proxy, icons, menu, view>>
      BY <1>1 DEF Tick
    <2> HIDE DEF ticks
    <2>3. remaining' \in 0 .. Ticks
      BY <2>1, <2>2, TrayAssumption
    <2>4. tray' \in {"none", "default", "off", "animated"} /\ outcome' \in {"ok", "err"}
      <3>1. CASE ticks > 0
        BY <2>2, <3>1 DEF SetIcon, IconFor
      <3>2. CASE ~ (ticks > 0)
        BY <2>2, <3>2
      <3> QED
        BY <3>1, <3>2
    <2>5. last' \in Nat /\ received' \in Nat /\ clicks' \in Nat /\ icons' \in IconSets \union {{}}
      BY <2>2
    <2> QED
      BY <2>2, <2>3, <2>4, <2>5
  <1>2. CASE UpdateIcon
    BY <1>2 DEF UpdateIcon, MainGoes, SetIcon, IconFor
  <1>3. CASE ReceiveHandles
    BY <1>3 DEF ReceiveHandles, MainGoes
  <1>4. CASE ExitFromMenu
    BY <1>4 DEF ExitFromMenu, MainGoes
  <1> QED
    BY <1>1, <1>2, <1>3, <1>4

\* The types, over the proxy's and the window's threads.
LEMMA OtherType ==
  ASSUME TrayTypeOK,
         \/ Bind \/ LoopsEnd \/ StopProxy \/ ExitProcess
         \/ StartUI \/ OpenWindow \/ FillWindow \/ Cleared \/ ExitFromWindow \/ ClickClear
  PROVE  TrayTypeOK'
  <1> USE DEF TrayTypeOK, threads, ending, proxy, animation, menu, view
  <1>1. CASE Bind
    BY <1>1 DEF Bind, ServerGoes
  <1>2. CASE StopProxy
    BY <1>2 DEF StopProxy, ServerGoes
  <1>3. CASE ExitProcess
    BY <1>3 DEF ExitProcess, ServerGoes
  <1>4. CASE StartUI
    BY <1>4 DEF StartUI, UIGoes
  <1>5. CASE OpenWindow
    BY <1>5 DEF OpenWindow, UIGoes
  <1>6. CASE FillWindow
    BY <1>6 DEF FillWindow, UIGoes
  <1>7. CASE Cleared
    BY <1>7 DEF Cleared, UIGoes
  <1>8. CASE ExitFromWindow
    BY <1>8 DEF ExitFromWindow, UIGoes
  <1>9. CASE ClickClear
    BY <1>9 DEF ClickClear, UIGoes, InWindow
  <1>10. CASE LoopsEnd
    BY <1>10 DEF LoopsEnd, ServerGoes
  <1> QED
    BY <1>1, <1>2, <1>3, <1>4, <1>5, <1>6, <1>7, <1>8, <1>9, <1>10

\* The types, over what comes from outside.
LEMMA OutsideType ==
  ASSUME TrayTypeOK, ArmSignal \/ CtrlC \/ Connection \/ CloseWindow \/ ClickExit
  PROVE  TrayTypeOK'
  <1> USE DEF TrayTypeOK, threads, ending, proxy, animation, menu, view
  <1>1. CASE ArmSignal
    BY <1>1 DEF ArmSignal
  <1>2. CASE CtrlC
    BY <1>2 DEF CtrlC
  <1>3. CASE Connection
    BY <1>3 DEF Connection
  <1>4. CASE CloseWindow
    BY <1>4 DEF CloseWindow, InWindow
  <1>5. CASE ClickExit
    BY <1>5 DEF ClickExit, UIGoes, Sent, InWindow
  <1> QED
    BY <1>1, <1>2, <1>3, <1>4, <1>5

\* Where the event loop waits, and where it has not begun.
Showing == {"loop", "waiting", "exiting"}
Starting == {"load", "logfile", "start", "new", "icons", "counter", "menu"}

\* What does not touch the icon and what it is chosen by keeps the two in agreement.
LEMMA IconKept ==
  ASSUME TrayInv, UNCHANGED <<icons, tray, outcome, enabled, remaining>>,
         main' \in Showing => main \in Showing, main' \in Starting => main \in Starting
  PROVE  Early' /\ IconTellsState'
  BY DEF TrayInv, Early, IconTellsState, IconFor, Showing, Starting

\* So does an update of the icon, or it fails.
LEMMA IconUpdated ==
  ASSUME TrayInv, icons' = icons, main' \notin Starting, SetIcon(enabled', remaining')
  PROVE  Early' /\ IconTellsState'
  <1>1. IconFor(enabled, remaining)' = IconFor(enabled', remaining')
    BY DEF IconFor
  <1>2. tray' = "none" \/ outcome' = "err" \/ tray' = IconFor(enabled', remaining')
    BY DEF SetIcon
  <1> QED
    BY <1>1, <1>2 DEF Early, IconTellsState, Starting

\* The icon, over the start-up: the first one is the one at rest.
LEMMA StartUpIcon ==
  ASSUME TrayInv,
         \/ LoadConfig \/ OpenLogFile \/ LogFileFails \/ StartProxy
         \/ NewApp \/ LoadIcons \/ ReadCounter \/ StartLoop \/ ReturnError
  PROVE  Early' /\ IconTellsState'
  <1>1. CASE LoadConfig
    BY <1>1, IconKept DEF LoadConfig, MainGoes, threads, proxy, animation, Showing, Starting
  <1>2. CASE OpenLogFile
    BY <1>2, IconKept DEF OpenLogFile, MainGoes, threads, proxy, animation, Showing, Starting
  <1>3. CASE LogFileFails
    BY <1>3, IconKept DEF LogFileFails, MainGoes, threads, proxy, animation, Showing, Starting
  <1>4. CASE StartProxy
    BY <1>4, IconKept DEF StartProxy, threads, proxy, animation, Showing, Starting
  <1>5. CASE NewApp
    BY <1>5, IconKept DEF NewApp, MainGoes, threads, proxy, animation, Showing, Starting
  <1>6. CASE LoadIcons
    BY <1>6 DEF LoadIcons, MainGoes, TrayInv, Early, IconTellsState, proxy
  <1>7. CASE ReadCounter
    BY <1>7, IconKept DEF ReadCounter, MainGoes, threads, proxy, animation, Showing, Starting
  <1>8. CASE StartLoop
    <2>1. /\ main = "menu" /\ main' \in {"loop", "failed"}
          /\ UNCHANGED <<icons, enabled, remaining>>
          /\ main' = "loop" => tray' \in {"default", "none"}
      BY <1>8 DEF StartLoop, MainGoes, proxy
    <2>2. enabled = TRUE /\ remaining = 0
      BY <2>1 DEF TrayInv, Early
    <2>3. IconFor(enabled, remaining)' = "default"
      BY <2>1, <2>2 DEF IconFor
    <2> QED
      BY <2>1, <2>3 DEF Early, IconTellsState
  <1>9. CASE ReturnError
    BY <1>9, IconKept DEF ReturnError, MainGoes, threads, proxy, animation, Showing, Starting
  <1> QED
    BY <1>1, <1>2, <1>3, <1>4, <1>5, <1>6, <1>7, <1>8, <1>9

\* The icon, over the clicks that are taken: a toggle is not at rest before its update.
LEMMA TakesIcon ==
  ASSUME TrayInv, ToggleTaken \/ ShowAgain \/ ShowFirst \/ ExitTaken
  PROVE  Early' /\ IconTellsState'
  <1>1. CASE ToggleTaken
    BY <1>1 DEF ToggleTaken, MainGoes, Early, IconTellsState
  <1>2. CASE ShowAgain
    BY <1>2, IconKept DEF ShowAgain, threads, proxy, animation, Showing, Starting
  <1>3. CASE ShowFirst
    BY <1>3, IconKept DEF ShowFirst, Taken, threads, proxy, animation, Showing, Starting
  <1>4. CASE ExitTaken
    BY <1>4, IconKept DEF ExitTaken, MainGoes, threads, proxy, animation, Showing, Starting
  <1> QED
    BY <1>1, <1>2, <1>3, <1>4

\* The icon, over the event loop's other steps.
LEMMA LoopIcon ==
  ASSUME TrayInv, Tick \/ UpdateIcon \/ ReceiveHandles \/ ExitFromMenu
  PROVE  Early' /\ IconTellsState'
  <1>1. CASE Tick
    <2> DEFINE ticks == IF received > last THEN Ticks ELSE remaining
    <2>1. /\ main = "loop" /\ remaining' = IF ticks > 0 THEN ticks - 1 ELSE 0
          /\ IF ticks > 0 THEN SetIcon(enabled, ticks - 1) ELSE UNCHANGED <<tray, outcome>>
          /\ UNCHANGED <<main, icons, enabled>>
      BY <1>1 DEF Tick, threads, proxy
    <2>2. ticks \in 0 .. Ticks /\ (~ (ticks > 0) => ticks = 0 /\ remaining = 0)
      BY TrayAssumption DEF TrayInv, TrayTypeOK
    <2> HIDE DEF ticks
    <2>3. CASE ticks > 0
      <3>1. SetIcon(enabled', remaining') /\ main' \notin Starting
        BY <2>1, <2>3 DEF Starting
      <3> QED
        BY <2>1, <3>1, IconUpdated
    <2>4. CASE ~ (ticks > 0)
      <3>1. UNCHANGED <<icons, tray, outcome, enabled, remaining, main>>
        BY <2>1, <2>2, <2>4
      <3> QED
        BY <3>1, IconKept
    <2> QED
      BY <2>3, <2>4
  <1>2. CASE UpdateIcon
    <2>1. main' \notin Starting /\ icons' = icons /\ SetIcon(enabled', remaining')
      BY <1>2 DEF UpdateIcon, MainGoes, proxy, Starting
    <2> QED
      BY <2>1, IconUpdated
  <1>3. CASE ReceiveHandles
    BY <1>3, IconKept DEF ReceiveHandles, MainGoes, threads, proxy, animation, Showing, Starting
  <1>4. CASE ExitFromMenu
    BY <1>4, IconKept DEF ExitFromMenu, MainGoes, threads, proxy, animation, Showing, Starting
  <1> QED
    BY <1>1, <1>2, <1>3, <1>4

\* The icon, over the proxy's and the window's threads.
LEMMA OtherIcon ==
  ASSUME TrayInv,
         \/ Bind \/ LoopsEnd \/ StopProxy \/ ExitProcess
         \/ StartUI \/ OpenWindow \/ FillWindow \/ Cleared \/ ExitFromWindow \/ ClickClear
  PROVE  Early' /\ IconTellsState'
  <1>1. CASE Bind
    BY <1>1, IconKept DEF Bind, ServerGoes, threads, proxy, animation, Showing, Starting
  <1>2. CASE StopProxy
    BY <1>2, IconKept DEF StopProxy, ServerGoes, threads, proxy, animation, Showing, Starting
  <1>3. CASE ExitProcess
    BY <1>3, IconKept DEF ExitProcess, ServerGoes, threads, proxy, animation, Showing, Starting
  <1>4. CASE StartUI
    BY <1>4, IconKept DEF StartUI, UIGoes, threads, proxy, animation, Showing, Starting
  <1>5. CASE OpenWindow
    BY <1>5, IconKept DEF OpenWindow, UIGoes, threads, proxy, animation, Showing, Starting
  <1>6. CASE FillWindow
    BY <1>6, IconKept DEF FillWindow, UIGoes, threads, proxy, animation, Showing, Starting
  <1>7. CASE Cleared
    BY <1>7, IconKept DEF Cleared, UIGoes, threads, proxy, animation, Showing, Starting
  <1>8. CASE ExitFromWindow
    BY <1>8, IconKept DEF ExitFromWindow, UIGoes, threads, proxy, animation, Showing, Starting
  <1>9. CASE ClickClear
    BY <1>9, IconKept DEF ClickClear, UIGoes, threads, proxy, animation, Showing, Starting
  <1>10. CASE LoopsEnd
    BY <1>10, IconKept DEF LoopsEnd, ServerGoes, threads, proxy, animation, Showing, Starting
  <1> QED
    BY <1>1, <1>2, <1>3, <1>4, <1>5, <1>6, <1>7, <1>8, <1>9, <1>10

\* The icon, over what comes from outside.
LEMMA OutsideIcon ==
  ASSUME TrayInv, ArmSignal \/ CtrlC \/ Connection \/ CloseWindow \/ ClickExit
  PROVE  Early' /\ IconTellsState'
  <1>1. CASE ArmSignal
    BY <1>1, IconKept DEF ArmSignal, threads, proxy, animation, Showing, Starting
  <1>2. CASE CtrlC
    BY <1>2, IconKept DEF CtrlC, threads, proxy, animation, Showing, Starting
  <1>3. CASE Connection
    BY <1>3, IconKept DEF Connection, threads, proxy, animation, Showing, Starting
  <1>4. CASE CloseWindow
    BY <1>4, IconKept DEF CloseWindow, threads, proxy, animation, Showing, Starting
  <1>5. CASE ClickExit
    BY <1>5, IconKept DEF ClickExit, UIGoes, threads, proxy, animation, Showing, Starting
  <1> QED
    BY <1>1, <1>2, <1>3, <1>4, <1>5

\* A click waits in the queue until it is taken.
LEMMA ClickInv ==
  ASSUME TrayInv, NEW kind \in {"toggle", "show", "exit"}, Click(kind)
  PROVE  TrayInv'
  <1>1. UNCHANGED <<icons, tray, outcome, enabled, remaining, main>>
    BY DEF Click, threads, proxy, animation
  <1>2. Early' /\ IconTellsState'
    BY <1>1, IconKept
  <1>3. TrayTypeOK'
    <2>1. events' \in Seq({"toggle", "show", "exit"}) /\ clicks' \in Nat
      BY DEF Click, TrayInv, TrayTypeOK
    <2>2. check' \in BOOLEAN
      BY DEF Click, TrayInv, TrayTypeOK
    <2> QED
      BY <2>1, <2>2 DEF Click, TrayInv, TrayTypeOK, threads, ending, proxy, animation, view
  <1> QED
    BY <1>2, <1>3 DEF TrayInv

\* A step that leaves the tray alone.
LEMMA TrayStutters ==
  ASSUME TrayInv, UNCHANGED trayVars
  PROVE  TrayInv'
  BY DEF TrayInv, TrayTypeOK, Early, IconTellsState, IconFor, trayVars, threads, ending, proxy,
         animation, menu, view

-----------------------------------------------------------------------------
\* Every step of the process keeps the invariant: a step of Logger leaves the tray as
\* it is, a step of the tray leaves the log as it is or is joined with one of Logger.
LEMMA NextInv ==
  ASSUME IInv, [Next]_vars
  PROVE  IInv'
  <1> USE DEF IInv
  <1>1. ASSUME NEW t \in Thread, Logs(t) PROVE IInv'
    <2>1. main' = main
      BY <1>1 DEF Logs, trayVars, threads
    <2> QED
      BY <1>1, <2>1, FindInv, TrayStutters DEF Logs
  <1>2. ASSUME NEW t \in Thread, GoesOnLogging(t) PROVE IInv'
    <2>1. main' = main
      BY <1>2 DEF GoesOnLogging, trayVars, threads
    <2> QED
      BY <1>2, <2>1, PushInv, WriteInv, TrayStutters DEF GoesOnLogging, LogStep
  <1>3. CASE StartUp
    <2>1. CASE Quiet("main", LoadConfig \/ (HasFile /\ LogFileFails) \/ StartProxy \/ LoadIcons
                              \/ ReadCounter \/ StartLoop \/ ReturnError)
      <3>1. TrayInv'
        BY <2>1, StartUpType, StartUpIcon DEF Quiet, Step, TrayInv
      <3>2. LogInv'
        BY <2>1, QuietInv DEF Quiet, Step, LoadConfig, LogFileFails, StartProxy, LoadIcons,
                              ReadCounter, StartLoop, ReturnError, MainGoes
      <3> QED
        BY <3>1, <3>2
    <2>2. CASE Step("main", OpenLogFile /\ RegisterFile)
      BY <2>2, FileInv, StartUpType, StartUpIcon DEF Step, TrayInv
    <2>3. CASE Step("main", NewApp /\ RegisterCache)
      BY <2>3, CacheInv, StartUpType, StartUpIcon DEF Step, TrayInv
    <2> QED
      BY <1>3, <2>1, <2>2, <2>3 DEF StartUp
  <1>4. CASE Takes
    <2>1. TrayInv'
      BY <1>4, TakesType, TakesIcon DEF Takes, Quiet, Step, TrayInv
    <2>2. LogInv'
      BY <1>4, QuietInv DEF Takes, Quiet, Step, ToggleTaken, ShowAgain, ShowFirst, ExitTaken,
                            MainGoes, threads
    <2> QED
      BY <2>1, <2>2
  <1>5. CASE Ticking \/ Continues
    <2>1. TrayInv'
      BY <1>5, LoopType, LoopIcon DEF Ticking, Continues, Quiet, Step, TrayInv
    <2>2. LogInv'
      BY <1>5, QuietInv DEF Ticking, Continues, Quiet, Step, Tick, UpdateIcon, ReceiveHandles,
                            ExitFromMenu, MainGoes, threads
    <2> QED
      BY <2>1, <2>2
  <1>6. CASE Proxying \/ Fails \/ Windowing \/ Clears
    <2>1. TrayInv'
      BY <1>6, OtherType, OtherIcon DEF Proxying, Fails, Windowing, Clears, Quiet, Step,
                                               TrayInv
    <2>2. main' = main
      BY <1>6 DEF Proxying, Fails, Windowing, Clears, Quiet, Step, Bind, LoopsEnd, StopProxy,
                  ExitProcess, StartUI, OpenWindow, ExitFromWindow, FillWindow, Cleared, ClickClear, ServerGoes, UIGoes
    <2>3. LogInv'
      BY <1>6, <2>2, QuietInv, TextInv, ClearInv DEF Proxying, Fails, Windowing, Clears, Quiet,
                                                     Step
    <2> QED
      BY <2>1, <2>3
  <1>7. CASE Interrupts \/ Acts
    <2>1. TrayInv'
      BY <1>7, OutsideType, OutsideIcon, ClickInv DEF Interrupts, Acts, Step, TrayInv
    <2>2. main' = main /\ UNCHANGED logVars
      BY <1>7 DEF Interrupts, Acts, Step, ArmSignal, CtrlC, Connection, Click, CloseWindow,
                  ClickExit, UIGoes, threads
    <2>3. LogInv'
      BY <2>2, QuietInv
    <2> QED
      BY <2>1, <2>3
  <1>8. CASE UNCHANGED vars
    BY <1>8, TrayStutters, QuietInv DEF vars, trayVars, threads
  <1> QED
    BY <1>1, <1>2, <1>3, <1>4, <1>5, <1>6, <1>7, <1>8 DEF Next

\* The invariant holds in every state.
LEMMA Inductive == Spec => []IInv
  <1>1. Init => IInv
    BY InitInv
  <1>2. IInv /\ [Next]_vars => IInv'
    BY NextInv
  <1> QED
    BY <1>1, <1>2, PTL DEF Spec

-----------------------------------------------------------------------------
\* Every variable keeps its type.
THEOREM TypeCorrect == Spec => []TypeOK
  <1>1. IInv => TypeOK
    BY DEF IInv, LogInv, TrayInv, TypeOK
  <1> QED
    BY <1>1, Inductive, PTL

\* What the log window can show is in the log file, or is about to be written there by
\* the thread that logs it, or could not be written.
THEOREM FileHasWhatIsShown == Spec => []ShownIsLogged
  <1>1. IInv => ShownIsLogged
    BY DEF IInv, LogInv
  <1> QED
    BY <1>1, Inductive, PTL

\* The icon tells the toggle and the animation whenever the event loop waits, unless
\* it could not be set.
THEOREM IconCorrect == Spec => []IconTellsState
  <1>1. IInv => IconTellsState
    BY DEF IInv, TrayInv
  <1> QED
    BY <1>1, Inductive, PTL

\* The cache holds each thread's latest lines, in order and without a gap.
LEMMA LinesAreLatest == ASSUME LogInv PROVE CacheHoldsLatest
  <1>1. \A i \in DOMAIN cache : cache[i] \in Thread \X Nat
    BY DEF LogInv, LogTypeOK
  <1>2. ASSUME NEW i \in DOMAIN cache, NEW j \in DOMAIN cache, i < j, cache[i][1] = cache[j][1],
               cache[j][2] # cache[i][2] + 1
        PROVE  \E k \in i + 1 .. j - 1 :
                 cache[k][1] = cache[i][1] /\ cache[k][2] = cache[i][2] + 1
    <2>1. cache[i][2] < cache[j][2] /\ Followed(i) /\ Followed(j)
      BY <1>2 DEF LogInv, Lines, Ascending
    <2>2. PICK t \in Thread : cache[i][1] = t /\ cache[j][1] = t
      BY <1>1, <1>2
    <2>3. cache[i][2] \in Nat /\ cache[j][2] \in Nat /\ Latest(t) \in Int
      BY <1>1 DEF LogInv, LogTypeOK, Latest
    <2>4. cache[j][2] <= Latest(t)
      BY <2>1, <2>2 DEF Followed
    <2>5. cache[i][2] # Latest(t)
      BY <2>1, <2>3, <2>4
    <2>6. PICK k \in DOMAIN cache : k > i /\ cache[k] = <<t, cache[i][2] + 1>>
      BY <2>1, <2>2, <2>5 DEF Followed
    <2>7. cache[k][1] = t /\ cache[k][2] = cache[i][2] + 1
      BY <2>6
    <2>8. ~ (j < k)
      <3>1. j < k => cache[j][2] < cache[k][2]
        BY <2>2, <2>7 DEF LogInv, Lines, Ascending
      <3> QED
        BY <2>1, <2>3, <2>7, <3>1
    <2>9. k \in i + 1 .. j - 1
      <3>1. i \in Nat /\ j \in Nat /\ k \in Nat
        BY SMTT(30) DEF LogInv, LogTypeOK
      <3> QED
        BY <1>2, <2>6, <2>7, <2>8, <3>1
    <2> QED
      BY <2>2, <2>7, <2>9
  <1>3. ASSUME NEW t \in Thread, NEW i \in DOMAIN cache, cache[i][1] = t, log[t].pc = "idle"
        PROVE  \E j \in DOMAIN cache : cache[j] = Line(t)
    <2>1. Followed(i)
      BY DEF LogInv, Lines
    <2> QED
      BY <1>3, <2>1 DEF Followed, Latest, Line
  <1> QED
    BY <1>2, <1>3 DEF LogInv, Lines, CacheHoldsLatest

THEOREM CacheCorrect == Spec => []CacheHoldsLatest
  <1>1. IInv => CacheHoldsLatest
    BY LinesAreLatest DEF IInv
  <1> QED
    BY <1>1, Inductive, PTL


-----------------------------------------------------------------------------
\* The menu.

\* The clicks on "Enable" among those that wait.
Toggles(s) == {i \in DOMAIN s : s[i] = "toggle"}

Kinds == {"toggle", "show", "exit"}

LEMMA TogglesCount ==
  ASSUME NEW s \in Seq(Kinds)
  PROVE  IsFiniteSet(Toggles(s)) /\ Cardinality(Toggles(s)) \in Nat
  <1>1. IsFiniteSet(1 .. Len(s)) /\ DOMAIN s = 1 .. Len(s)
    BY FS_Interval
  <1>2. Toggles(s) \in SUBSET (1 .. Len(s))
    BY <1>1 DEF Toggles
  <1> QED
    BY <1>1, <1>2, FS_Subset, FS_CardinalityType

\* A click that comes adds itself to them.
LEMMA TogglesAppend ==
  ASSUME NEW s \in Seq(Kinds), NEW kind \in Kinds
  PROVE  Cardinality(Toggles(Append(s, kind)))
         = IF kind = "toggle" THEN Cardinality(Toggles(s)) + 1 ELSE Cardinality(Toggles(s))
  <1>1. /\ Len(s) \in Nat /\ DOMAIN s = 1 .. Len(s)
        /\ DOMAIN Append(s, kind) = 1 .. Len(s) + 1
        /\ \A i \in 1 .. Len(s) : Append(s, kind)[i] = s[i]
        /\ Append(s, kind)[Len(s) + 1] = kind
    OBVIOUS
  <1>2. IsFiniteSet(Toggles(s))
    BY TogglesCount
  <1>3. Len(s) + 1 \notin Toggles(s)
    BY <1>1 DEF Toggles
  <1>4. 1 .. Len(s) + 1 = (1 .. Len(s)) \union {Len(s) + 1}
    BY <1>1
  <1>5. CASE kind = "toggle"
    <2>1. Toggles(Append(s, kind)) = Toggles(s) \union {Len(s) + 1}
      BY <1>1, <1>4, <1>5 DEF Toggles
    <2> QED
      BY <1>2, <1>3, <1>5, <2>1, FS_AddElement
  <1>6. CASE kind # "toggle"
    <2>1. Toggles(Append(s, kind)) = Toggles(s)
      BY <1>1, <1>4, <1>6 DEF Toggles
    <2> QED
      BY <1>6, <2>1
  <1> QED
    BY <1>5, <1>6

\* A click that is taken out leaves the others, each after it one place further on.
LEMMA TogglesRemove ==
  ASSUME NEW s \in Seq(Kinds), NEW i \in DOMAIN s
  PROVE  Cardinality(Toggles(RemoveAt(s, i)))
         = IF s[i] = "toggle" THEN Cardinality(Toggles(s)) - 1 ELSE Cardinality(Toggles(s))
  <1> DEFINE r == RemoveAt(s, i)
  <1> DEFINE R == Toggles(s) \ {i}
  <1>1. /\ Len(s) \in Nat /\ DOMAIN s = 1 .. Len(s) /\ i \in 1 .. Len(s)
    OBVIOUS
  <1>2. /\ DOMAIN r = 1 .. Len(s) - 1
        /\ \A j \in 1 .. Len(s) - 1 : r[j] = IF j < i THEN s[j] ELSE s[j + 1]
    <2> DEFINE front == SubSeq(s, 1, i - 1)
    <2> DEFINE back == SubSeq(s, i + 1, Len(s))
    <2>1. /\ front \in Seq(Kinds) /\ Len(front) = i - 1
          /\ \A j \in 1 .. i - 1 : front[j] = s[j]
      BY <1>1
    <2>2. /\ back \in Seq(Kinds) /\ Len(back) = Len(s) - i
          /\ \A j \in 1 .. Len(s) - i : back[j] = s[j + i]
      BY <1>1
    <2>3. r = front \o back
      BY DEF RemoveAt
    <2> HIDE DEF front, back, r
    <2>4. /\ DOMAIN r = 1 .. Len(s) - 1
          /\ \A j \in 1 .. Len(s) - 1 : r[j] = IF j < i THEN front[j] ELSE back[j - (i - 1)]
      <3>1. /\ front \o back \in Seq(Kinds) /\ Len(front \o back) = (i - 1) + (Len(s) - i)
            /\ \A j \in 1 .. (i - 1) + (Len(s) - i) :
                 (front \o back)[j] = IF j <= i - 1 THEN front[j] ELSE back[j - (i - 1)]
        BY <2>1, <2>2
      <3>2. (i - 1) + (Len(s) - i) = Len(s) - 1 /\ \A j \in 1 .. Len(s) - 1 : j < i <=> j <= i - 1
        BY <1>1
      <3> QED
        BY <2>3, <3>1, <3>2
    <2>5. ASSUME NEW j \in 1 .. Len(s) - 1 PROVE r[j] = IF j < i THEN s[j] ELSE s[j + 1]
      <3>1. CASE j < i
        BY <1>1, <2>1, <2>4, <3>1
      <3>2. CASE ~ (j < i)
        <4>1. j - (i - 1) \in 1 .. Len(s) - i /\ (j - (i - 1)) + i = j + 1
          BY <1>1, <3>2
        <4>2. back[j - (i - 1)] = s[(j - (i - 1)) + i]
          BY <2>2, <4>1
        <4> QED
          BY <2>4, <3>2, <4>1, <4>2
      <3> QED
        BY <3>1, <3>2
    <2> QED
      BY <2>4, <2>5
  <1>3. IsFiniteSet(Toggles(s)) /\ Cardinality(Toggles(s)) \in Nat
    BY TogglesCount
  <1>4. /\ IsFiniteSet(R)
        /\ Cardinality(R) = IF s[i] = "toggle" THEN Cardinality(Toggles(s)) - 1
                                              ELSE Cardinality(Toggles(s))
    BY <1>3, FS_RemoveElement DEF Toggles
  <1> DEFINE back == [j \in R |-> IF j < i THEN j ELSE j - 1]
  <1>5. \A j \in R : j \in 1 .. Len(s) /\ j # i /\ s[j] = "toggle"
    BY <1>1 DEF Toggles
  <1>6. \A j \in Toggles(r) : /\ j \in 1 .. Len(s) - 1
                              /\ (IF j < i THEN s[j] ELSE s[j + 1]) = "toggle"
    BY <1>2 DEF Toggles
  <1>7. ASSUME NEW j \in R PROVE back[j] \in Toggles(r)
    <2> HIDE DEF r
    <2>1. back[j] = (IF j < i THEN j ELSE j - 1) /\ back[j] \in 1 .. Len(s) - 1
      BY <1>1, <1>5
    <2>2. r[back[j]] = s[j]
      <3> HIDE DEF back
      <3>1. CASE j < i
        BY <1>2, <2>1, <3>1
      <3>2. CASE ~ (j < i)
        <4>1. back[j] = j - 1 /\ ~ (j - 1 < i) /\ (j - 1) + 1 = j
          BY <1>1, <1>5, <2>1, <3>2
        <4> QED
          BY <1>2, <2>1, <4>1
      <3> QED
        BY <3>1, <3>2
    <2> QED
      BY <1>2, <1>5, <2>1, <2>2 DEF Toggles
  <1>8. ASSUME NEW a \in R, NEW b \in R, back[a] = back[b] PROVE a = b
    BY <1>1, <1>5, <1>8
  <1>9. ASSUME NEW j \in Toggles(r) PROVE \E a \in R : back[a] = j
    <2> HIDE DEF r
    <2> DEFINE a == IF j < i THEN j ELSE j + 1
    <2>1. a \in 1 .. Len(s) /\ a # i /\ s[a] = "toggle"
      BY <1>1, <1>6
    <2>2. a \in R
      BY <1>1, <2>1 DEF Toggles
    <2>3. j \in Int /\ i \in Int
      BY <1>1, <1>6
    <2>4. back[a] = j
      BY <2>2, <2>3
    <2> QED
      BY <2>2, <2>4
  <1>10. ExistsBijection(R, Toggles(r))
    <2> HIDE DEF r, R
    <2>1. back \in [R -> Toggles(r)]
      BY <1>7
    <2> HIDE DEF back
    <2>2. /\ \A a, b \in R : back[a] = back[b] => a = b
          /\ \A j \in Toggles(r) : \E a \in R : back[a] = j
      BY <1>8, <1>9
    <2>3. back \in Bijection(R, Toggles(r))
      BY <2>1, <2>2, Fun_IsBij
    <2> QED
      BY <2>3 DEF ExistsBijection
  <1> QED
    BY <1>4, <1>10, FS_Bijection

\* No click comes before the tray icon is there.
MenuInv ==
  /\ main \in Starting => tray = "none" /\ events = <<>>
  /\ (check = enabled) <=> Cardinality(Toggles(events)) % 2 = 0

\* Whatever leaves check mark, toggle and clicks alone.
LEMMA MenuKept ==
  ASSUME MenuInv, UNCHANGED <<check, enabled, events>>,
         main' \in Starting => main \in Starting /\ tray' = tray
  PROVE  MenuInv'
  BY DEF MenuInv

\* A flip on either side goes with one click more or less.
LEMMA Flipped ==
  ASSUME NEW a \in BOOLEAN, NEW b \in BOOLEAN, NEW n \in Nat, NEW m \in Nat,
         m = n + 1 \/ n = m + 1, (a = b) <=> n % 2 = 0
  PROVE  ((~ a) = b) <=> m % 2 = 0
  <1>1. (n % 2 = 0) <=> ~ (m % 2 = 0)
    OBVIOUS
  <1>2. ((~ a) = b) <=> ~ (a = b)
    OBVIOUS
  <1> QED
    BY <1>1, <1>2

LEMMA MenuStep ==
  ASSUME TrayInv, MenuInv, [Next]_vars
  PROVE  MenuInv'
  <1>1. events \in Seq(Kinds) /\ check \in BOOLEAN /\ enabled \in BOOLEAN
    BY DEF TrayInv, TrayTypeOK, Kinds
  <1>2. ASSUME NEW kind \in Kinds, Taken(kind)
        PROVE  /\ UNCHANGED check /\ events' \in Seq(Kinds) /\ main = "loop"
               /\ Cardinality(Toggles(events'))
                  = IF kind = "toggle" THEN Cardinality(Toggles(events)) - 1
                                       ELSE Cardinality(Toggles(events))
    <2>1. PICK i \in DOMAIN events : events[i] = kind /\ events' = RemoveAt(events, i)
      BY <1>2 DEF Taken
    <2>2. events' \in Seq(Kinds) /\ UNCHANGED check
      BY <1>2, TakenType DEF TrayInv, Kinds
    <2> QED
      BY <1>1, <1>2, <2>1, <2>2, TogglesRemove DEF Taken
  <1>3. CASE StartUp
    <2>1. CASE Step("main", StartLoop)
      <3>1. main = "menu" /\ main' \notin Starting /\ UNCHANGED <<events, enabled>>
            /\ check' \in {check, enabled}
        BY <2>1 DEF Step, StartLoop, MainGoes, proxy, Starting
      <3>2. enabled = TRUE /\ events = <<>>
        BY <3>1 DEF TrayInv, Early, MenuInv, Starting
      <3>3. Toggles(<<>>) = {} /\ Cardinality({}) = 0
        BY FS_EmptySet DEF Toggles
      <3>4. check = enabled
        <4>1. Cardinality(Toggles(events)) % 2 = 0
          <5>1. Cardinality(Toggles(events)) = 0
            BY <3>2, <3>3, Zenon
          <5>2. 0 % 2 = 0
            OBVIOUS
          <5> QED
            BY <5>1, <5>2, Zenon
        <4> QED
          BY <4>1 DEF MenuInv
      <3> QED
        BY <3>1, <3>2, <3>4 DEF MenuInv
    <2>2. CASE ~ Step("main", StartLoop)
      <3>1. UNCHANGED <<check, enabled, events>> /\ main \in Starting \union {"failed"}
            /\ tray' = tray /\ (main = "failed" => main' = "done")
        BY <1>3, <2>2 DEF StartUp, Quiet, Step, LoadConfig, LogFileFails, StartProxy, LoadIcons,
             ReadCounter, ReturnError, OpenLogFile, NewApp, MainGoes, Starting, proxy, menu,
             animation
      <3> QED
        BY <3>1, MenuKept DEF Starting
    <2> QED
      BY <2>1, <2>2
  <1>4. CASE Takes
    <2>1. CASE ToggleTaken
      <3>1. Taken("toggle") /\ enabled' = ~ enabled /\ main' = "toggled"
        BY <2>1 DEF ToggleTaken, MainGoes
      <3>2. check' = check /\ Cardinality(Toggles(events')) = Cardinality(Toggles(events)) - 1
            /\ events' \in Seq(Kinds)
        BY <1>2, <3>1 DEF Kinds
      <3>3. Cardinality(Toggles(events)) \in Nat /\ Cardinality(Toggles(events')) \in Nat
        BY <1>1, <3>2, TogglesCount
      <3>4. (enabled = check) <=> Cardinality(Toggles(events)) % 2 = 0
        BY DEF MenuInv
      <3>5. ((~ enabled) = check) <=> Cardinality(Toggles(events')) % 2 = 0
        <4>1. Cardinality(Toggles(events)) = Cardinality(Toggles(events')) + 1
          BY <3>2, <3>3
        <4> QED
          BY <1>1, <3>3, <3>4, <4>1, Flipped
      <3> QED
        BY <3>1, <3>2, <3>5 DEF MenuInv, Starting
    <2>2. CASE ShowAgain \/ ShowFirst \/ ExitTaken
      <3>1. \E kind \in Kinds \ {"toggle"} : Taken(kind)
        BY <2>2 DEF ShowAgain, ShowFirst, ExitTaken, Kinds
      <3>2. check' = check /\ Cardinality(Toggles(events')) = Cardinality(Toggles(events))
            /\ main = "loop"
        BY <1>2, <3>1
      <3>3. enabled' = enabled /\ main' \in {"loop", "waiting", "exiting"}
        BY <2>2, <3>2 DEF ShowAgain, ShowFirst, ExitTaken, MainGoes, proxy, threads
      <3> QED
        BY <3>2, <3>3 DEF MenuInv, Starting
    <2> QED
      BY <1>4, <2>1, <2>2 DEF Takes, Quiet, Step
  <1>5. CASE Ticking \/ Continues
    <2>1. UNCHANGED <<check, enabled, events>> /\ main' \notin Starting
      BY <1>5 DEF Ticking, Continues, Quiet, Step, Tick, UpdateIcon, ReceiveHandles, ExitFromMenu,
                  MainGoes, threads, proxy, menu, Starting
    <2> QED
      BY <2>1, MenuKept
  <1>6. CASE Proxying \/ Fails \/ Windowing \/ Clears \/ Interrupts
    <2>1. UNCHANGED <<check, enabled, events, main, tray>>
      BY <1>6 DEF Proxying, Fails, Windowing, Clears, Interrupts, Quiet, Step, Bind, LoopsEnd, StopProxy,
           ExitProcess, StartUI, OpenWindow, ExitFromWindow, FillWindow, Cleared, ClickClear,
           InWindow, ArmSignal, CtrlC, ServerGoes, UIGoes, threads, proxy, animation, menu
    <2> QED
      BY <2>1, MenuKept
  <1>7. CASE Acts
    <2>1. ASSUME NEW kind \in Kinds, Click(kind) PROVE MenuInv'
      <3>1. /\ tray # "none" /\ UNCHANGED <<main, enabled>> /\ events' = Append(events, kind)
            /\ check' = IF kind = "toggle" THEN ~ check ELSE check
        BY <2>1 DEF Click, threads, proxy
      <3>2. main' \notin Starting
        BY <3>1 DEF MenuInv
      <3>3. /\ Cardinality(Toggles(events'))
               = IF kind = "toggle" THEN Cardinality(Toggles(events)) + 1
                                    ELSE Cardinality(Toggles(events))
            /\ events' \in Seq(Kinds)
        BY <1>1, <3>1, TogglesAppend
      <3>4. Cardinality(Toggles(events)) \in Nat /\ Cardinality(Toggles(events')) \in Nat
        BY <1>1, <3>3, TogglesCount
      <3>5. CASE kind = "toggle"
        <4>1. check' = ~ check
              /\ Cardinality(Toggles(events')) = Cardinality(Toggles(events)) + 1
          BY <3>1, <3>3, <3>5
        <4>2. (check = enabled) <=> Cardinality(Toggles(events)) % 2 = 0
          BY DEF MenuInv
        <4>3. ((~ check) = enabled) <=> Cardinality(Toggles(events')) % 2 = 0
          BY <1>1, <3>4, <4>1, <4>2, Flipped
        <4> QED
          BY <3>1, <3>2, <4>1, <4>3 DEF MenuInv
      <3>6. CASE kind # "toggle"
        BY <3>1, <3>2, <3>3, <3>6 DEF MenuInv
      <3> QED
        BY <3>5, <3>6
    <2>2. CASE Connection \/ CloseWindow \/ ClickExit
      <3>1. UNCHANGED <<check, enabled, events, main, tray>>
        BY <2>2 DEF Connection, CloseWindow, ClickExit, InWindow, UIGoes, threads, proxy, animation,
                    menu
      <3> QED
        BY <3>1, MenuKept
    <2> QED
      BY <1>7, <2>1, <2>2 DEF Acts, Step, Kinds
  <1>8. CASE (\E t \in Thread : Logs(t) \/ GoesOnLogging(t)) \/ UNCHANGED vars
    <2>1. UNCHANGED <<check, enabled, events, main, tray>>
      BY <1>8 DEF Logs, GoesOnLogging, vars, trayVars, threads, proxy, animation, menu
    <2> QED
      BY <2>1, MenuKept
  <1> QED
    BY <1>3, <1>4, <1>5, <1>6, <1>7, <1>8 DEF Next

\* The menu's check mark and the toggle differ when, and only when, an odd number of
\* clicks on it wait for the event loop.
THEOREM MenuCorrect == Spec => []MenuTellsState
  <1>1. Init => MenuInv
    <2> SUFFICES ASSUME Init PROVE MenuInv
      OBVIOUS
    <2>1. Toggles(<<>>) = {} /\ Cardinality({}) = 0
      BY FS_EmptySet DEF Toggles
    <2>2. tray = "none" /\ events = <<>> /\ check = enabled
      BY DEF Init, TrayInit
    <2>3. Cardinality(Toggles(events)) % 2 = 0
      <3>1. Cardinality(Toggles(events)) = 0
        BY <2>1, <2>2, Zenon
      <3>2. 0 % 2 = 0
        OBVIOUS
      <3> QED
        BY <3>1, <3>2, Zenon
    <2> QED
      BY <2>2, <2>3 DEF MenuInv
  <1>2. MenuInv => MenuTellsState
    BY DEF MenuInv, MenuTellsState, Toggles
  <1>3. IInv /\ MenuInv /\ [Next]_vars => MenuInv'
    BY MenuStep DEF IInv
  <1> QED
    BY <1>1, <1>2, <1>3, Inductive, PTL DEF Spec

=============================================================================
