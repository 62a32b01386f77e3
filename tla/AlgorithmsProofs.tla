-------------------------- MODULE AlgorithmsProofs --------------------------
(***************************************************************************)
(* Proofs about Algorithms, for inputs of any size: what SendArchive and   *)
(* CommandLine do with any site, archive and command line, and, with       *)
(* HtmlDiffProofs, each invariant of Algorithms.                           *)
(***************************************************************************)
EXTENDS Algorithms, HtmlDiffProofs

(***************************************************************************)
(* Paths.  A raw path is cleaned component by component; what does not     *)
(* climb above the root has the names that are left, as many as it is deep.*)
(***************************************************************************)
Done == Seq(Names \cup {".."})

\* Cleaning one component keeps the result a list of names and "..".
LEMMA CleanStepIs ==
    ASSUME NEW done \in Done, NEW part \in Parts
    PROVE  CleanStep(done, part) \in Done
<1> DEFINE X == Names \cup {".."}
<1>1. part \notin {".", ""} => part \in X
  BY DEF Parts
<1>2. ".." \in X /\ done \in Seq(X)
  BY DEF Done
<1> HIDE DEF X
<1>3. done # <<>> => Front(done) \in Seq(X)
  BY <1>2, FrontIs
<1>4. CleanStep(done, part) \in Seq(X)
  BY <1>1, <1>2, <1>3, AppendProperties DEF CleanStep
<1> QED
  BY <1>4 DEF Done, X

\* Clean goes through the components one by one.
LEMMA CleanIs ==
    /\ Clean(<<>>) = <<>>
    /\ \A parts \in Seq(Parts) : Clean(parts) \in Done
    /\ \A parts \in Seq(Parts), part \in Parts :
           Clean(Append(parts, part)) = CleanStep(Clean(parts), part)
<1> DEFINE step == [q \in Done \X Parts |-> CleanStep(q[1], q[2])]
           run(s) == CHOOSE f : f = [n \in 0..Len(s) |-> IF n = 0 THEN <<>> ELSE CleanStep(f[n - 1], s[n])]
<1>1. IsFold(step, Done, Parts)
  <2>1. step \in [Done \X Parts -> Done]
    BY CleanStepIs
  <2> QED
    BY <2>1 DEF IsFold
<1>2. \A d \in Done, p \in Parts : step[<<d, p>>] = CleanStep(d, p)
  OBVIOUS
<1>3. <<>> \in Done
  BY DEF Done
<1> HIDE DEF step
<1>4. ASSUME NEW s \in Seq(Parts) PROVE Runs(run(s), step, Done, <<>>, s) /\ Clean(s) = run(s)[Len(s)]
  <2>1. PICK f \in [0..Len(s) -> Done] : f = [n \in 0..Len(s) |-> IF n = 0 THEN <<>> ELSE step[<<f[n - 1], s[n]>>]]
    BY <1>1, <1>3, RunExists
  <2>2. Len(s) \in Nat /\ \A n \in 1..Len(s) : n \in 0..Len(s) /\ s[n] \in Parts
    OBVIOUS
  <2>3. ASSUME NEW n \in 0..Len(s), n # 0 PROVE step[<<f[n - 1], s[n]>>] = CleanStep(f[n - 1], s[n])
    <3>1. n \in 1..Len(s) /\ n - 1 \in 0..Len(s)
      BY <2>2, <2>3
    <3> QED
      BY <1>2, <2>2, <3>1
  <2>4. f = [n \in 0..Len(s) |-> IF n = 0 THEN <<>> ELSE CleanStep(f[n - 1], s[n])]
    BY <2>1, <2>3
  <2> DEFINE g == run(s)
  <2>5. g = [n \in 0..Len(s) |-> IF n = 0 THEN <<>> ELSE CleanStep(g[n - 1], s[n])]
    BY <2>4
  <2>6. Clean(s) = g[Len(s)]
    BY DEF Clean
  <2> HIDE DEF g
  <2>7. Runs(g, step, Done, <<>>, s)
    BY <1>2, <2>2, <2>5 DEF Runs
  <2> QED
    BY <2>6, <2>7 DEF g
<1> HIDE DEF run
<1>5. Clean(<<>>) = <<>>
  <2>1. <<>> \in Seq(Parts) /\ Len(<<>>) = 0
    OBVIOUS
  <2> QED
    BY <1>4, <2>1 DEF Runs
<1>6. ASSUME NEW s \in Seq(Parts), NEW p \in Parts
      PROVE  Clean(s) \in Done /\ Clean(Append(s, p)) = CleanStep(Clean(s), p)
  <2>1. Append(s, p) \in Seq(Parts) /\ Len(Append(s, p)) = Len(s) + 1
    BY AppendProperties
  <2>2. /\ Runs(run(s), step, Done, <<>>, s) /\ Clean(s) = run(s)[Len(s)]
        /\ Runs(run(Append(s, p)), step, Done, <<>>, Append(s, p))
        /\ Clean(Append(s, p)) = run(Append(s, p))[Len(s) + 1]
    BY <1>4, <2>1
  <2>3. run(s)[Len(s)] \in Done /\ run(Append(s, p))[Len(s) + 1] = step[<<run(s)[Len(s)], p>>]
    BY <1>1, <1>3, <2>2, RunsMeet
  <2> QED
    BY <1>2, <2>2, <2>3
<1>7. \A s \in Seq(Parts) : Clean(s) \in Done
  <2>1. "." \in Parts
    BY DEF Parts
  <2> QED
    BY <1>6, <2>1
<1> QED
  BY <1>5, <1>6, <1>7

Climbs(done) == done # <<>> /\ Head(done) = ".."
Depth(parts, n) ==
    Cardinality({i \in 1..n : parts[i] \in Names}) - Cardinality({i \in 1..n : parts[i] = ".."})

\* How deep a path is after one more component.
LEMMA DepthAppend ==
    ASSUME NEW parts \in Seq(Parts), NEW part \in Parts
    PROVE  /\ \A n \in 0..Len(parts) : Depth(Append(parts, part), n) = Depth(parts, n)
           /\ Depth(parts, Len(parts)) \in Int /\ Depth(<<>>, 0) = 0
           /\ Depth(Append(parts, part), Len(parts) + 1) =
                  Depth(parts, Len(parts)) + (IF part \in Names THEN 1 ELSE IF part = ".." THEN -1 ELSE 0)
<1> DEFINE m == Len(parts)
           t == Append(parts, part)
           count(A, n) == Cardinality({i \in 1..n : t[i] \in A})
<1>1. m \in Nat /\ t[m + 1] = part /\ \A i \in 1..m : t[i] = parts[i]
  OBVIOUS
<1> HIDE DEF t, m
<1>2. ASSUME NEW n \in 0..m PROVE Depth(t, n) = Depth(parts, n)
  <2>1. \A i \in 1..n : i \in 1..m
    BY <1>1
  <2>2. \A i \in 1..n : t[i] = parts[i]
    BY <1>1, <2>1
  <2>3. /\ {i \in 1..n : t[i] \in Names} = {i \in 1..n : parts[i] \in Names}
        /\ {i \in 1..n : t[i] = ".."} = {i \in 1..n : parts[i] = ".."}
    BY <2>2
  <2> QED
    BY <2>3 DEF Depth
<1>3. ASSUME NEW n \in Nat PROVE Depth(t, n) = count(Names, n) - count({".."}, n)
  <2>1. {i \in 1..n : t[i] = ".."} = {i \in 1..n : t[i] \in {".."}}
    OBVIOUS
  <2> QED
    BY <2>1 DEF Depth
<1>4. ASSUME NEW A PROVE count(A, m) \in Nat
                         /\ count(A, m + 1) = IF part \in A THEN count(A, m) + 1 ELSE count(A, m)
  BY <1>1, CountMore
<1> HIDE DEF count
<1>5. Depth(t, m) \in Int /\ Depth(t, m + 1) = Depth(t, m) + (IF part \in Names THEN 1 ELSE IF part = ".." THEN -1 ELSE 0)
  <2> DEFINE a == count(Names, m)
             b == count({".."}, m)
  <2>1. a \in Nat /\ b \in Nat /\ Depth(t, m) = a - b
    BY <1>1, <1>3, <1>4
  <2>2. Depth(t, m + 1) = count(Names, m + 1) - count({".."}, m + 1)
    BY <1>1, <1>3
  <2> HIDE DEF a, b
  <2>3. count(Names, m + 1) = IF part \in Names THEN a + 1 ELSE a
    BY <1>4 DEF a
  <2>4. count({".."}, m + 1) = IF part = ".." THEN b + 1 ELSE b
    BY <1>4 DEF b
  <2>5. part \in Names => part # ".."
    BY NamesAssumption
  <2>6. CASE part \in Names
    BY <2>1, <2>2, <2>3, <2>4, <2>5, <2>6
  <2>7. CASE part = ".."
    BY <2>1, <2>2, <2>3, <2>4, <2>5, <2>7
  <2>8. CASE part \notin Names /\ part # ".."
    BY <2>1, <2>2, <2>3, <2>4, <2>8
  <2> QED
    BY <2>6, <2>7, <2>8
<1>6. Depth(t, m) = Depth(parts, m)
  BY <1>1, <1>2
<1>7. Depth(<<>>, 0) = 0
  <2>1. /\ {i \in 1..0 : <<>>[i] \in Names} = {}
        /\ {i \in 1..0 : <<>>[i] = ".."} = {}
    OBVIOUS
  <2>2. Cardinality({}) = 0
    BY FS_EmptySet
  <2> QED
    BY <2>1, <2>2 DEF Depth
<1> QED
  BY <1>2, <1>5, <1>6, <1>7 DEF m, t

\* Lists of names are both cleaned and raw.
LEMMA DoneIs ==
    /\ Seq(Names) \subseteq Done /\ Seq(Names) \subseteq Seq(Parts)
    /\ \A done \in Done : \A n \in Names : Append(done, n) \in Done
<1>1. Names \subseteq Names \cup {".."} /\ Names \subseteq Parts
  BY DEF Parts
<1> QED
  BY <1>1 DEF Done

\* White space at the ends of a path hides no component.
LEMMA TrimIs ==
    ASSUME NEW raw \in RawPaths
    PROVE  /\ TrimSpace(raw) \in Seq(Parts) /\ Len(TrimSpace(raw)) = Len(raw) /\ Len(raw) \in Nat \ {0}
           /\ raw[Len(raw)] \in HTML => TrimSpace(raw)[Len(raw)] \in HTML
<1> DEFINE m == Len(raw)
           t == TrimSpace(raw)
           left(i) == IF i = 1 THEN TrimLeft[raw[i]] ELSE raw[i]
<1>1. raw \in Seq(Parts) /\ m \in Nat \ {0} /\ \A i \in 1..m : raw[i] \in Parts
  BY DEF RawPaths
<1>2. t = [i \in 1..m |-> IF i = m THEN TrimRight[left(i)] ELSE left(i)]
  BY DEF TrimSpace
<1>3. \A i \in 1..m : left(i) \in Parts
  BY <1>1, TrimAssumption
<1>4. m \in 1..m /\ t[m] = TrimRight[left(m)]
  BY <1>1, <1>2
<1>5. ASSUME raw[m] \in HTML PROVE t[m] \in HTML
  <2>1. left(m) \in HTML
    BY <1>5, TrimAssumption
  <2> HIDE DEF left
  <2> QED
    BY <1>4, <2>1, NamesAssumption, TrimAssumption
<1> HIDE DEF t, m, left
<1>6. \A i \in 1..m : (IF i = m THEN TrimRight[left(i)] ELSE left(i)) \in Parts
  BY <1>3, TrimAssumption
<1>7. t \in Seq(Parts) /\ Len(t) = m
  BY <1>1, <1>2, <1>6
<1> QED
  BY <1>1, <1>5, <1>7 DEF m, t

\* A path climbs above the root, or its depth never does and is the number of
\* names that are left.
LEMMA CleanShape ==
    ASSUME NEW parts \in Seq(Parts)
    PROVE  \/ Climbs(Clean(parts))
           \/ /\ Clean(parts) \in Seq(Names) /\ Len(Clean(parts)) = Depth(parts, Len(parts))
              /\ \A n \in 0..Len(parts) : Depth(parts, n) >= 0
<1> DEFINE shape(s) == \/ Climbs(Clean(s))
                       \/ /\ Clean(s) \in Seq(Names) /\ Len(Clean(s)) = Depth(s, Len(s))
                          /\ \A n \in 0..Len(s) : Depth(s, n) >= 0
           T == {s \in Seq(Parts) : shape(s)}
<1>1. <<>> \in T
  <2>1. Clean(<<>>) = <<>> /\ Depth(<<>>, 0) = 0 /\ <<>> \in Seq(Parts)
    <3>1. "." \in Parts
      BY DEF Parts
    <3>2. <<>> \in Seq(Parts)
      OBVIOUS
    <3> QED
      BY <3>1, <3>2, CleanIs, DepthAppend
  <2> DEFINE s == <<>>
  <2>2. s \in Seq(Names) /\ Len(s) = 0 /\ \A n \in 0..0 : n = 0
    OBVIOUS
  <2>3. Clean(s) = s /\ Depth(s, 0) = 0
    BY <2>1
  <2> HIDE DEF s
  <2>4. shape(s)
    <3>1. Clean(s) \in Seq(Names) /\ Len(Clean(s)) = 0 /\ Depth(s, Len(s)) = 0
      BY <2>2, <2>3
    <3>2. \A n \in 0..0 : Depth(s, n) >= 0
      BY <2>2, <2>3
    <3> QED
      BY <2>2, <3>1, <3>2
  <2>5. shape(<<>>)
    BY <2>4 DEF s
  <2> QED
    BY <2>1, <2>5
<1>2. ASSUME NEW s \in Seq(Parts), s \in T, NEW p \in Parts PROVE Append(s, p) \in T
  <2> DEFINE t == Append(s, p)
             d == Clean(s)
             e == Clean(t)
             m == Len(s)
  <2>1. t \in Seq(Parts) /\ Len(t) = m + 1 /\ m \in Nat
    OBVIOUS
  <2>2. d \in Done /\ e = CleanStep(d, p)
    BY CleanIs
  <2>3. /\ \A n \in 0..m : Depth(t, n) = Depth(s, n)
        /\ Depth(s, m) \in Int
        /\ Depth(t, m + 1) = Depth(s, m) + (IF p \in Names THEN 1 ELSE IF p = ".." THEN -1 ELSE 0)
    BY DepthAppend
  <2>4. \/ Climbs(d)
        \/ d \in Seq(Names) /\ Len(d) = Depth(s, m) /\ \A n \in 0..m : Depth(s, n) >= 0
    BY <1>2
  <2>5. p \in {".", ""} \/ p = ".." \/ p \in Names
    BY DEF Parts
  <2>6. "." # ".." /\ "" # ".." /\ "." \notin Names /\ ".." \notin Names /\ "" \notin Names
    BY NamesAssumption
  <2> HIDE DEF t, d, e, m
  <2>7. CASE Climbs(d)
    <3> SUFFICES Climbs(e)
      BY <2>1 DEF t, e
    <3>1. d # <<>> /\ Head(d) = ".." /\ d \in Seq(Names \cup {".."})
      BY <2>2, <2>7 DEF Climbs, Done
    <3>2. CASE p \in {".", ""}
      BY <2>2, <2>6, <2>7, <3>2 DEF CleanStep
    <3>3. ASSUME NEW q \in Names \cup {".."} PROVE Climbs(Append(d, q))
      BY <3>1 DEF Climbs
    <3>4. CASE p \in Names \/ (p = ".." /\ Last(d) = "..")
      <4>1. e = Append(d, p)
        BY <2>2, <2>6, <3>4 DEF CleanStep
      <4> QED
        BY <3>3, <3>4, <4>1
    <3>5. CASE p = ".." /\ Last(d) # ".."
      <4>1. e = Front(d)
        BY <2>2, <2>6, <3>1, <3>5 DEF CleanStep
      <4>2. 1 \in 1..Len(d) - 1 /\ d[1] = ".."
        <5>1. Len(d) \in Nat /\ Len(d) # 0 /\ d[1] = ".."
          BY <3>1
        <5>2. Len(d) # 1
          BY <3>5, <5>1 DEF Last
        <5> DEFINE l == Len(d)
        <5>3. l \in Nat /\ l # 0 /\ l # 1
          BY <5>1, <5>2
        <5> HIDE DEF l
        <5>4. 1 \in 1..l - 1
          BY <5>3
        <5> QED
          BY <5>1, <5>4 DEF l
      <4>3. Front(d) \in Seq(Names \cup {".."}) /\ Len(Front(d)) = Len(d) - 1 /\ Front(d)[1] = d[1]
        BY <3>1, <4>2, FrontIs
      <4>4. Climbs(Front(d))
        <5> DEFINE f == Front(d)
        <5>1. f \in Seq(Names \cup {".."}) /\ Len(f) # 0 /\ f[1] = ".."
          BY <4>2, <4>3
        <5> HIDE DEF f
        <5>2. f # <<>> /\ Head(f) = f[1]
          BY <5>1
        <5> QED
          BY <5>1, <5>2 DEF Climbs, f
      <4> QED
        BY <4>1, <4>4
    <3> QED
      BY <2>5, <3>2, <3>4, <3>5
  <2>8. CASE d \in Seq(Names) /\ Len(d) = Depth(s, m) /\ \A n \in 0..m : Depth(s, n) >= 0
    <3>1. ASSUME e \in Seq(Names), Len(e) = Depth(t, m + 1) PROVE t \in T
      <4>1. Len(e) \in Nat
        BY <3>1
      <4>2. \A n \in 0..m + 1 : Depth(t, n) >= 0
        <5>1. \A n \in 0..m + 1 : n = m + 1 \/ n \in 0..m
          BY <2>1
        <5> QED
          BY <2>3, <2>8, <3>1, <4>1, <5>1
      <4>3. Clean(t) \in Seq(Names) /\ Len(Clean(t)) = Depth(t, Len(t)) /\ \A n \in 0..Len(t) : Depth(t, n) >= 0
        BY <2>1, <3>1, <4>2 DEF e
      <4> QED
        BY <2>1, <4>3
    <3>2. CASE p \in {".", ""}
      <4>1. e = d
        BY <2>2, <3>2 DEF CleanStep
      <4>2. p \notin Names /\ p # ".."
        BY <2>6, <3>2
      <4>3. Depth(t, m + 1) = Depth(s, m)
        BY <2>3, <4>2
      <4> QED
        BY <2>8, <3>1, <4>1, <4>3 DEF t
    <3>3. CASE p \in Names
      <4>1. e = Append(d, p) /\ Depth(t, m + 1) = Depth(s, m) + 1
        BY <2>2, <2>3, <2>6, <3>3 DEF CleanStep
      <4>2. e \in Seq(Names) /\ Len(e) = Len(d) + 1
        BY <2>8, <3>3, <4>1, AppendProperties
      <4> QED
        BY <2>8, <3>1, <4>1, <4>2 DEF t
    <3>4. CASE p = ".." /\ d = <<>>
      <4>1. e = Append(<<>>, "..")
        BY <2>2, <2>6, <3>4 DEF CleanStep
      <4>2. Climbs(e)
        BY <4>1 DEF Climbs
      <4> QED
        BY <2>1, <4>2 DEF t, e
    <3>5. CASE p = ".." /\ d # <<>>
      <4>1. Front(d) \in Seq(Names) /\ Len(Front(d)) = Len(d) - 1 /\ Last(d) \in Names
        BY <2>8, <3>5, FrontIs
      <4>2. e = Front(d) /\ Depth(t, m + 1) = Depth(s, m) + (-1)
        BY <2>2, <2>3, <2>6, <3>5, <4>1 DEF CleanStep
      <4>3. Len(e) = Depth(t, m + 1)
        BY <2>3, <2>8, <4>1, <4>2
      <4> QED
        BY <3>1, <4>1, <4>2, <4>3 DEF t
    <3> QED
      BY <2>5, <3>2, <3>3, <3>4, <3>5 DEF t
  <2> QED
    BY <2>4, <2>7, <2>8
<1>3. Seq(Parts) \subseteq T
  <2> HIDE DEF T
  <2> QED
    BY <1>1, <1>2, SeqInduction
<1> QED
  BY <1>3

\* What normalizeArchivePath accepts is a path of names below the root.
LEMMA NormalizeIs ==
    ASSUME NEW raw \in RawPaths, NormalizeArchivePath(raw) # NoPath
    PROVE  /\ NormalizeArchivePath(raw) \in Seq(Names)
           /\ ~Absolute(TrimSpace(raw))
           /\ \A n \in 0..Len(TrimSpace(raw)) : Depth(TrimSpace(raw), n) >= 0
<1> DEFINE trimmed == TrimSpace(raw)
<1>1. /\ ~Absolute(trimmed) /\ Clean(trimmed) # <<>> /\ Head(Clean(trimmed)) # ".."
      /\ NormalizeArchivePath(raw) = Clean(trimmed)
  BY DEF NormalizeArchivePath, NoPath
<1>2. trimmed \in Seq(Parts)
  BY TrimIs
<1> HIDE DEF trimmed
<1>3. ~Climbs(Clean(trimmed))
  BY <1>1 DEF Climbs
<1> QED
  BY <1>1, <1>2, <1>3, CleanShape DEF trimmed

\* A path that is accepted still ends in .html or .htm if it did.
LEMMA NormalizedEndIs ==
    ASSUME NEW raw \in RawPaths, Last(raw) \in HTML, NormalizeArchivePath(raw) # NoPath
    PROVE  Last(NormalizeArchivePath(raw)) \in HTML
<1> DEFINE t == TrimSpace(raw)
           m == Len(raw)
<1>1. t \in Seq(Parts) /\ Len(t) = m /\ m \in Nat \ {0} /\ t[m] \in HTML
  BY TrimIs DEF Last
<1>2. NormalizeArchivePath(raw) = Clean(t)
  BY DEF NormalizeArchivePath
<1> HIDE DEF t, m
<1>3. PICK s \in Seq(Parts) : t = Append(s, t[m])
  <2>1. t # <<>> /\ t[m] \in Parts
    BY <1>1
  <2>2. Front(t) \in Seq(Parts) /\ Len(Front(t)) = m - 1 /\ \A p \in 1..m - 1 : Front(t)[p] = t[p]
    BY <1>1, <2>1, FrontIs
  <2> DEFINE f == Front(t)
             u == Append(f, t[m])
  <2>3. f \in Seq(Parts) /\ Len(f) = m - 1 /\ \A p \in 1..m - 1 : f[p] = t[p]
    BY <2>2
  <2> HIDE DEF f
  <2>4. u \in Seq(Parts) /\ Len(u) = m /\ u[m] = t[m] /\ \A p \in 1..m - 1 : u[p] = t[p]
    BY <1>1, <2>1, <2>3, AppendProperties
  <2> HIDE DEF u
  <2>5. \A p \in 1..m : p = m \/ p \in 1..m - 1
    BY <1>1
  <2>6. t = u
    BY <1>1, <2>4, <2>5
  <2> QED
    BY <2>3, <2>6 DEF u
<1>4. t[m] \in Names /\ t[m] \in Parts /\ t[m] \notin {".", ""} /\ t[m] # ".."
  BY <1>1, NamesAssumption DEF Parts
<1>5. Clean(t) = Append(Clean(s), t[m]) /\ Clean(s) \in Done
  BY <1>3, <1>4, CleanIs DEF CleanStep
<1>6. Last(Append(Clean(s), t[m])) = t[m]
  <2> DEFINE d == Clean(s)
             X == Names \cup {".."}
  <2>1. d \in Seq(X) /\ t[m] \in X
    BY <1>4, <1>5 DEF Done
  <2> HIDE DEF d, X
  <2>2. Len(Append(d, t[m])) = Len(d) + 1 /\ Append(d, t[m])[Len(d) + 1] = t[m]
    BY <2>1, AppendProperties
  <2> QED
    BY <2>2 DEF Last, d
<1> QED
  BY <1>1, <1>2, <1>5, <1>6

(***************************************************************************)
(* How many bytes files have.                                              *)
(***************************************************************************)
Sized(files) == IsFiniteSet(files) /\ \A f \in files : f.size \in Nat

\* A file has as many bytes as its size.
LEMMA BytesOfOne ==
    ASSUME NEW f, f.size \in Nat
    PROVE  IsFiniteSet({f} \X (1..f.size)) /\ Cardinality({f} \X (1..f.size)) = f.size
<1> DEFINE n == f.size
           S == {f}
           U == 1..n
<1>1. IsFiniteSet(U) /\ Cardinality(U) = n
  <2>1. 1 \in Int /\ n \in Int /\ n \in Nat
    OBVIOUS
  <2> HIDE DEF n
  <2>2. IsFiniteSet(1..n) /\ Cardinality(1..n) = IF 1 > n THEN 0 ELSE n - 1 + 1
    BY <2>1, FS_Interval
  <2> QED
    BY <2>1, <2>2
<1>2. IsFiniteSet(S) /\ Cardinality(S) = 1
  BY FS_Singleton
<1> HIDE DEF S, U
<1>3. IsFiniteSet(S \X U) /\ Cardinality(S \X U) = Cardinality(S) * Cardinality(U)
  BY <1>1, <1>2, FS_Product
<1>4. 1 * n = n
  OBVIOUS
<1>5. Cardinality(S \X U) = n
  BY <1>1, <1>2, <1>3, <1>4
<1> QED
  BY <1>3, <1>5 DEF S, U

\* Finitely many files have finitely many bytes.
LEMMA BytesAreFinite ==
    ASSUME NEW files, Sized(files)
    PROVE  IsFiniteSet(Bytes(files)) /\ SumOfSizes(files) \in Nat
<1> DEFINE of == [f \in files |-> {f} \X (1..f.size)]
           All == {{f} \X (1..f.size) : f \in files}
<1>1. IsFiniteSet(files)
  BY DEF Sized
<1>2. of \in Surjection(files, All)
  <2>1. of \in [files -> All] /\ \A x \in All : \E f \in files : of[f] = x
    OBVIOUS
  <2> HIDE DEF of, All
  <2> QED
    BY <2>1, Fun_IsSurj
<1>3. IsFiniteSet(All)
  <2> HIDE DEF of, All
  <2> QED
    BY <1>1, <1>2, FS_Surjection
<1>4. \A x \in All : IsFiniteSet(x)
  <2>1. ASSUME NEW f \in files PROVE IsFiniteSet({f} \X (1..f.size))
    BY BytesOfOne DEF Sized
  <2> QED
    BY <2>1
<1>5. Bytes(files) = UNION All
  BY DEF Bytes
<1> HIDE DEF All
<1>6. IsFiniteSet(Bytes(files))
  BY <1>3, <1>4, <1>5, FS_UNION
<1> QED
  BY <1>6, FS_CardinalityType DEF SumOfSizes

\* Fewer files have no more bytes.
LEMMA FewerBytes ==
    ASSUME NEW files, Sized(files), NEW some \in SUBSET files
    PROVE  Sized(some) /\ SumOfSizes(some) <= SumOfSizes(files)
<1>1. Sized(some)
  BY FS_Subset DEF Sized
<1>2. Bytes(some) \in SUBSET Bytes(files) /\ IsFiniteSet(Bytes(files))
  BY BytesAreFinite DEF Bytes
<1> QED
  BY <1>1, <1>2, FS_Subset DEF SumOfSizes

\* One more file adds its size.
LEMMA OneMoreFile ==
    ASSUME NEW files, Sized(files), NEW f, f.size \in Nat, f \notin files
    PROVE  /\ Sized(files \cup {f})
           /\ SumOfSizes(files \cup {f}) = SumOfSizes(files) + f.size
<1> DEFINE S == Bytes(files)
           U == {f} \X (1..f.size)
<1>1. Sized(files \cup {f})
  BY FS_AddElement DEF Sized
<1>2. Bytes(files \cup {f}) = S \cup U
  BY DEF Bytes
<1>3. S \cap U = {}
  BY DEF Bytes
<1>4. IsFiniteSet(S) /\ Cardinality(S) \in Nat /\ Cardinality(S) = SumOfSizes(files)
  BY BytesAreFinite DEF SumOfSizes
<1>5. IsFiniteSet(U) /\ Cardinality(U) = f.size
  BY BytesOfOne
<1>6. Cardinality({}) = 0
  BY FS_EmptySet
<1> HIDE DEF S, U
<1>7. Cardinality(S \cup U) = Cardinality(S) + Cardinality(U) - Cardinality(S \cap U)
  BY <1>4, <1>5, FS_Union
<1>8. Cardinality(S \cup U) = SumOfSizes(files) + f.size
  <2> DEFINE a == Cardinality(S)
             b == f.size
  <2>1. a \in Nat /\ b \in Nat /\ Cardinality(S \cup U) = a + b - 0 /\ SumOfSizes(files) = a
    BY <1>3, <1>4, <1>5, <1>6, <1>7
  <2> HIDE DEF a, b
  <2>2. Cardinality(S \cup U) = SumOfSizes(files) + b
    BY <2>1
  <2> QED
    BY <2>2 DEF b
<1> QED
  BY <1>1, <1>2, <1>8 DEF SumOfSizes

\* No files have no bytes.
LEMMA NoBytes == Sized({}) /\ SumOfSizes({}) = 0
<1>1. Bytes({}) = {} /\ IsFiniteSet({}) /\ Cardinality({}) = 0
  BY FS_EmptySet DEF Bytes
<1> QED
  BY <1>1 DEF SumOfSizes, Sized

(***************************************************************************)
(* Extraction.  What is stored so far is within the limit and is a tree:   *)
(* the directories of a file are directories, and no file is one.          *)
(***************************************************************************)
Stores == [ok : BOOLEAN, total : Nat, files : SUBSET [path : Seq(Names), size : Nat],
           dirs : SUBSET Seq(Names)]
Sound(st) ==
    /\ Sized(st.files) /\ SumOfSizes(st.files) <= st.total /\ st.total <= MaxBytes
    /\ \A f \in st.files :
           /\ f.path # <<>> /\ f.path \notin st.dirs
           /\ \A n \in 1..Len(f.path) - 1 : SubSeq(f.path, 1, n) \in st.dirs
Sounds == {st \in Stores : Sound(st)}

Parents(path) == {SubSeq(path, 1, n) : n \in 1..Len(path) - 1}

\* The directories above a path are paths, and the path is not among them.
LEMMA ParentsAre ==
    ASSUME NEW path \in Seq(Names)
    PROVE  Parents(path) \in SUBSET Seq(Names) /\ path \notin Parents(path)
<1>1. ASSUME NEW n \in 1..Len(path) - 1 PROVE SubSeq(path, 1, n) \in Seq(Names) /\ Len(SubSeq(path, 1, n)) # Len(path)
  <2>1. n \in 0..Len(path) /\ n # Len(path)
    OBVIOUS
  <2> QED
    BY <2>1, PrefixIs
<1> QED
  BY <1>1 DEF Parents

\* Extracting one more file keeps the store sound, and succeeds only for a
\* path that normalizeArchivePath accepts (extractZIPArchive's loop).
LEMMA ExtractIsSound ==
    ASSUME NEW st \in Sounds, NEW e \in Archived
    PROVE  /\ Extract(st, e) \in Sounds
           /\ Extract(st, e).ok => st.ok /\ NormalizeArchivePath(e.raw) # NoPath
<1> DEFINE path == NormalizeArchivePath(e.raw)
           copy == CopyToLimit(e.size, st.total)
           isFile(p) == \E f \in st.files : f.path = p
           blocked == \/ \E n \in 1..Len(path) - 1 : isFile(SubSeq(path, 1, n))
                      \/ IF e.kind = "dir" THEN isFile(path) ELSE path \in st.dirs
           refused == ~st.ok \/ path = NoPath \/ blocked \/ e.kind = "link"
           next == Extract(st, e)
           new == [path |-> path, size |-> copy.copied]
           rest == {f \in st.files : f.path # path}
<1>1. /\ st = [ok |-> st.ok, total |-> st.total, files |-> st.files, dirs |-> st.dirs]
      /\ st.ok \in BOOLEAN /\ st.total \in Nat /\ st.files \in SUBSET [path : Seq(Names), size : Nat]
      /\ st.dirs \in SUBSET Seq(Names)
  BY DEF Sounds, Stores
<1>2. /\ Sized(st.files) /\ SumOfSizes(st.files) <= st.total /\ st.total <= MaxBytes
      /\ \A f \in st.files :
           /\ f.path # <<>> /\ f.path \notin st.dirs
           /\ \A n \in 1..Len(f.path) - 1 : SubSeq(f.path, 1, n) \in st.dirs
  BY DEF Sounds, Sound
<1>3. next = IF refused THEN [st EXCEPT !.ok = FALSE]
             ELSE IF e.kind = "dir" THEN [st EXCEPT !.dirs = @ \cup Parents(path) \cup {path}]
             ELSE [ok |-> copy.ok, total |-> st.total + copy.copied, dirs |-> st.dirs \cup Parents(path),
                   files |-> rest \cup {new}]
  BY DEF Extract, Parents
<1>4. path # NoPath => path \in Seq(Names)
  BY NormalizeIs DEF Archived
<1>5. /\ copy.copied \in Nat /\ st.total + copy.copied \in Nat /\ st.total + copy.copied <= MaxBytes
      /\ copy.ok \in BOOLEAN
  <2> DEFINE a == e.size
             b == MaxBytes - st.total
  <2>1. a \in Nat /\ b \in Nat
    <3>1. a \in Nat
      BY DEF Archived
    <3> HIDE DEF a
    <3> QED
      BY <1>1, <1>2, <3>1, ArchiveLimitsAssumption
  <2>2. copy.copied = IF a <= b THEN a ELSE b
    BY <2>1, MinMaxOfTwo DEF CopyToLimit
  <2>3. copy.ok \in BOOLEAN
    BY DEF CopyToLimit
  <2>4. copy.copied \in Nat /\ copy.copied <= b
    BY <2>1, <2>2
  <2> HIDE DEF copy
  <2> QED
    BY <1>1, <1>2, <2>3, <2>4, ArchiveLimitsAssumption
<1>6. ~refused => st.ok /\ path # NoPath
  OBVIOUS
<1>7. CASE refused
  <2>1. next = [ok |-> FALSE, total |-> st.total, files |-> st.files, dirs |-> st.dirs]
    BY <1>1, <1>3, <1>7
  <2>2. next \in Stores
    BY <1>1, <2>1 DEF Stores
  <2>3. Sound(next)
    BY <1>2, <2>1 DEF Sound
  <2> QED
    BY <2>1, <2>2, <2>3 DEF Sounds
<1>8. CASE ~refused /\ e.kind = "dir"
  <2>1. next = [ok |-> st.ok, total |-> st.total, files |-> st.files, dirs |-> st.dirs \cup Parents(path) \cup {path}]
    BY <1>1, <1>3, <1>8
  <2>2. /\ path \in Seq(Names) /\ ~isFile(path) /\ \A n \in 1..Len(path) - 1 : ~isFile(SubSeq(path, 1, n))
    BY <1>4, <1>8
  <2>3. Parents(path) \in SUBSET Seq(Names)
    BY <2>2, ParentsAre
  <2>4. next \in Stores
    BY <1>1, <2>1, <2>2, <2>3 DEF Stores
  <2>5. \A f \in st.files : f.path \notin Parents(path) /\ f.path # path
    BY <2>2 DEF Parents
  <2> HIDE DEF refused, next, path
  <2>6. Sound(next)
    BY <1>2, <2>1, <2>5 DEF Sound
  <2> QED
    BY <1>6, <1>8, <2>4, <2>6 DEF Sounds, path, next
<1>9. CASE ~refused /\ e.kind # "dir"
  <2>1. next = [ok |-> copy.ok, total |-> st.total + copy.copied, dirs |-> st.dirs \cup Parents(path),
                files |-> rest \cup {new}]
    BY <1>3, <1>9
  <2>2. /\ path \in Seq(Names) /\ path # NoPath /\ path \notin st.dirs
        /\ \A n \in 1..Len(path) - 1 : ~isFile(SubSeq(path, 1, n))
    BY <1>4, <1>9
  <2>3. Parents(path) \in SUBSET Seq(Names) /\ path \notin Parents(path)
    BY <2>2, ParentsAre
  <2>4. new.path = path /\ new.size = copy.copied /\ new \notin rest /\ rest \in SUBSET st.files
        /\ new \in [path : Seq(Names), size : Nat]
    BY <1>5, <2>2
  <2>5. next \in Stores
    <3>1. rest \cup {new} \in SUBSET [path : Seq(Names), size : Nat]
      BY <1>1, <2>4
    <3>2. st.dirs \cup Parents(path) \in SUBSET Seq(Names)
      BY <1>1, <2>3
    <3> HIDE DEF refused, next, path, copy, new, rest
    <3> QED
      BY <1>5, <2>1, <3>1, <3>2 DEF Stores
  <2>6. \A f \in st.files : f.path \notin Parents(path)
    BY <2>2 DEF Parents
  <2> HIDE DEF refused, next, path, copy, new
  <2>7. Sized(rest) /\ SumOfSizes(rest) <= SumOfSizes(st.files)
    BY <1>2, <2>4, FewerBytes
  <2>8. Sized(rest \cup {new}) /\ SumOfSizes(rest \cup {new}) = SumOfSizes(rest) + copy.copied
    BY <1>5, <2>4, <2>7, OneMoreFile
  <2>9. SumOfSizes(rest \cup {new}) <= st.total + copy.copied
    <3>1. SumOfSizes(rest) \in Nat /\ SumOfSizes(st.files) \in Nat
      BY <1>2, <2>7, BytesAreFinite
    <3> QED
      BY <1>1, <1>2, <1>5, <2>7, <2>8, <3>1
  <2>10. ASSUME NEW f \in rest \cup {new}
         PROVE  /\ f.path # <<>> /\ f.path \notin st.dirs \cup Parents(path)
                /\ \A n \in 1..Len(f.path) - 1 : SubSeq(f.path, 1, n) \in st.dirs \cup Parents(path)
    <3>1. CASE f \in rest
      BY <1>2, <2>6, <3>1
    <3>2. CASE f = new
      BY <2>2, <2>3, <2>4, <3>2 DEF Parents, NoPath
    <3> QED
      BY <3>1, <3>2
  <2>11. Sound(next)
    <3> HIDE DEF rest
    <3> QED
      BY <1>5, <2>1, <2>8, <2>9, <2>10 DEF Sound
  <2> QED
    BY <1>6, <1>9, <2>5, <2>11 DEF Sounds, path, next
<1> QED
  BY <1>7, <1>8, <1>9

\* The extraction starts sound.
LEMMA EmptyIsSound == Empty \in Sounds
<1>1. Empty \in Stores
  BY DEF Empty, Stores
<1>2. Sound(Empty)
  BY NoBytes, ArchiveLimitsAssumption DEF Empty, Sound
<1> QED
  BY <1>1, <1>2 DEF Sounds

\* extractZIPArchive goes through the archive file by file, and stays sound.
LEMMA ExtractAllIs ==
    /\ ExtractAll(<<>>) = Empty
    /\ \A archive \in Seq(Archived) : ExtractAll(archive) \in Sounds
    /\ \A archive \in Seq(Archived), e \in Archived :
           ExtractAll(Append(archive, e)) = Extract(ExtractAll(archive), e)
<1> DEFINE step == [q \in Sounds \X Archived |-> Extract(q[1], q[2])]
           run(s) == CHOOSE f : f = [n \in 0..Len(s) |-> IF n = 0 THEN Empty ELSE Extract(f[n - 1], s[n])]
<1>1. IsFold(step, Sounds, Archived)
  <2>1. step \in [Sounds \X Archived -> Sounds]
    BY ExtractIsSound
  <2> QED
    BY <2>1 DEF IsFold
<1>2. \A d \in Sounds, p \in Archived : step[<<d, p>>] = Extract(d, p)
  OBVIOUS
<1>3. Empty \in Sounds
  BY EmptyIsSound
<1> HIDE DEF step
<1>4. ASSUME NEW s \in Seq(Archived) PROVE Runs(run(s), step, Sounds, Empty, s) /\ ExtractAll(s) = run(s)[Len(s)]
  <2>1. PICK f \in [0..Len(s) -> Sounds] : f = [n \in 0..Len(s) |-> IF n = 0 THEN Empty ELSE step[<<f[n - 1], s[n]>>]]
    BY <1>1, <1>3, RunExists
  <2>2. Len(s) \in Nat /\ \A n \in 1..Len(s) : n \in 0..Len(s) /\ s[n] \in Archived
    OBVIOUS
  <2>3. ASSUME NEW n \in 0..Len(s), n # 0 PROVE step[<<f[n - 1], s[n]>>] = Extract(f[n - 1], s[n])
    <3>1. n \in 1..Len(s) /\ n - 1 \in 0..Len(s)
      BY <2>2, <2>3
    <3> QED
      BY <1>2, <2>2, <3>1
  <2>4. f = [n \in 0..Len(s) |-> IF n = 0 THEN Empty ELSE Extract(f[n - 1], s[n])]
    BY <2>1, <2>3
  <2> DEFINE g == run(s)
  <2>5. g = [n \in 0..Len(s) |-> IF n = 0 THEN Empty ELSE Extract(g[n - 1], s[n])]
    BY <2>4
  <2>6. ExtractAll(s) = g[Len(s)]
    BY DEF ExtractAll
  <2> HIDE DEF g
  <2>7. Runs(g, step, Sounds, Empty, s)
    BY <1>2, <2>2, <2>5 DEF Runs
  <2> QED
    BY <2>6, <2>7 DEF g
<1> HIDE DEF run
<1>5. ExtractAll(<<>>) = Empty
  <2>1. <<>> \in Seq(Archived) /\ Len(<<>>) = 0
    OBVIOUS
  <2> QED
    BY <1>4, <2>1 DEF Runs
<1>6. ASSUME NEW s \in Seq(Archived), NEW p \in Archived
      PROVE  ExtractAll(s) \in Sounds /\ ExtractAll(Append(s, p)) = Extract(ExtractAll(s), p)
  <2>1. Append(s, p) \in Seq(Archived) /\ Len(Append(s, p)) = Len(s) + 1
    BY AppendProperties
  <2>2. /\ Runs(run(s), step, Sounds, Empty, s) /\ ExtractAll(s) = run(s)[Len(s)]
        /\ Runs(run(Append(s, p)), step, Sounds, Empty, Append(s, p))
        /\ ExtractAll(Append(s, p)) = run(Append(s, p))[Len(s) + 1]
    BY <1>4, <2>1
  <2>3. run(s)[Len(s)] \in Sounds /\ run(Append(s, p))[Len(s) + 1] = step[<<run(s)[Len(s)], p>>]
    BY <1>1, <1>3, <2>2, RunsMeet
  <2> QED
    BY <1>2, <2>2, <2>3
<1>7. \A s \in Seq(Archived) : ExtractAll(s) \in Sounds
  <2> DEFINE e == [raw |-> <<".">>, kind |-> "file", size |-> 0]
  <2>1. e \in Archived
    <3>1. "." \in Parts /\ <<".">> \in Seq(Parts) /\ <<".">> # <<>> /\ Last(<<".">>) = "."
      BY DEF Parts, Last
    <3> QED
      BY <3>1 DEF Archived, RawPaths
  <2> QED
    BY <1>6, <2>1
<1> QED
  BY <1>5, <1>6, <1>7

\* An archive is extracted only if every path in it is accepted.
LEMMA EveryPathIsAccepted ==
    ASSUME NEW archive \in Seq(Archived), ExtractAll(archive).ok
    PROVE  \A i \in DOMAIN archive : NormalizeArchivePath(archive[i].raw) # NoPath
<1> DEFINE accepted(s) == \A i \in 1..Len(s) : NormalizeArchivePath(s[i].raw) # NoPath
           T == {s \in Seq(Archived) : ExtractAll(s).ok => accepted(s)}
<1>1. <<>> \in T
  OBVIOUS
<1>2. ASSUME NEW s \in Seq(Archived), s \in T, NEW e \in Archived PROVE Append(s, e) \in T
  <2> DEFINE t == Append(s, e)
  <2>1. t \in Seq(Archived) /\ Len(t) = Len(s) + 1 /\ t[Len(s) + 1] = e /\ \A i \in 1..Len(s) : t[i] = s[i]
    OBVIOUS
  <2>2. ExtractAll(t) = Extract(ExtractAll(s), e) /\ ExtractAll(s) \in Sounds
    BY ExtractAllIs
  <2> HIDE DEF t
  <2>3. ASSUME ExtractAll(t).ok PROVE accepted(t)
    <3>1. ExtractAll(s).ok /\ NormalizeArchivePath(e.raw) # NoPath
      BY <2>2, <2>3, ExtractIsSound
    <3>2. accepted(s)
      BY <1>2, <3>1
    <3>3. \A i \in 1..Len(s) + 1 : i = Len(s) + 1 \/ i \in 1..Len(s)
      OBVIOUS
    <3> QED
      BY <2>1, <3>1, <3>2, <3>3
  <2> QED
    BY <2>1, <2>3 DEF t
<1>3. Seq(Archived) \subseteq T
  <2> HIDE DEF T
  <2> QED
    BY <1>1, <1>2, SeqInduction
<1>4. archive \in T
  BY <1>3
<1> QED
  BY <1>4

(***************************************************************************)
(* Whatever is posted, what is stored is below the session's root and      *)
(* within the limit.                                                       *)
(***************************************************************************)
THEOREM AnyArchiveIsBounded ==
    ASSUME NEW entry, NEW archive \in Seq(Archived), NEW body
    PROVE  StoredIsBounded(entry, archive, body)
<1> DEFINE end == ExtractAll(archive)
           files == Receive(entry, archive, body).files
<1>1. end \in Sounds
  BY ExtractAllIs
<1>2. files = {} \/ (files = end.files /\ end.ok)
  BY DEF Receive
<1> HIDE DEF end, files
<1>3. /\ end.files \in SUBSET [path : Seq(Names), size : Nat] /\ end.total \in Nat
      /\ Sized(end.files) /\ SumOfSizes(end.files) <= end.total /\ end.total <= MaxBytes
      /\ \A f \in end.files :
           /\ f.path # <<>> /\ f.path \notin end.dirs
           /\ \A n \in 1..Len(f.path) - 1 : SubSeq(f.path, 1, n) \in end.dirs
  BY <1>1 DEF Sounds, Stores, Sound
<1>4. SumOfSizes(files) <= MaxBytes
  <2>1. CASE files = {}
    BY <2>1, NoBytes, ArchiveLimitsAssumption
  <2>2. CASE files = end.files
    <3>1. SumOfSizes(end.files) \in Nat
      BY <1>3, BytesAreFinite
    <3> QED
      BY <1>3, <2>2, <3>1, ArchiveLimitsAssumption
  <2> QED
    BY <1>2, <2>1, <2>2
<1>5. \A f \in files : f.path \in Seq(Names)
  BY <1>2, <1>3
<1>6. ASSUME files # {}, NEW i \in DOMAIN archive
      PROVE  /\ ~Absolute(TrimSpace(archive[i].raw))
             /\ \A n \in 0..Len(TrimSpace(archive[i].raw)) : Depth(TrimSpace(archive[i].raw), n) >= 0
  <2>1. NormalizeArchivePath(archive[i].raw) # NoPath
    BY <1>2, <1>6, EveryPathIsAccepted DEF end
  <2>2. archive[i] \in Archived
    OBVIOUS
  <2>3. archive[i].raw \in RawPaths
    BY <2>2 DEF Archived
  <2> QED
    BY <2>1, <2>3, NormalizeIs
<1>7. ASSUME NEW f \in files, NEW g \in files PROVE ~IsStrictPrefix(f.path, g.path)
  <2>1. SUFFICES ASSUME IsStrictPrefix(f.path, g.path) PROVE FALSE
    OBVIOUS
  <2> DEFINE a == f.path
             b == g.path
  <2>2. a \in Seq(Names) /\ b \in Seq(Names) /\ a # <<>>
    BY <1>2, <1>3
  <2>3. a = SubSeq(b, 1, Len(a)) /\ Len(a) \in 1..Len(b) - 1
    <3> HIDE DEF a, b
    <3>1. Len(a) < Len(b) /\ \A p \in 1..Len(a) : a[p] = b[p]
      BY <2>1, <2>2, StrictPrefixIs DEF a, b
    <3>2. Len(a) \in Nat /\ Len(b) \in Nat /\ Len(a) # 0
      BY <2>2
    <3>3. Len(a) \in 1..Len(b) - 1 /\ Len(a) \in 0..Len(b)
      BY <3>1, <3>2
    <3> DEFINE h == SubSeq(b, 1, Len(a))
    <3>4. h \in Seq(Names) /\ Len(h) = Len(a) /\ \A p \in 1..Len(a) : h[p] = b[p]
      BY <2>2, <3>3, PrefixIs
    <3> HIDE DEF h
    <3>5. h = a
      BY <2>2, <3>1, <3>4
    <3> QED
      BY <3>3, <3>5 DEF h
  <2>4. a \in end.dirs
    BY <1>2, <1>3, <2>3
  <2>5. a \notin end.dirs
    BY <1>2, <1>3
  <2> QED
    BY <2>4, <2>5
<1> QED
  BY <1>4, <1>5, <1>6, <1>7 DEF StoredIsBounded, Depth, files

(***************************************************************************)
(* What `sth send` packs.                                                  *)
(***************************************************************************)
Packs == [name : Seq(Names), size : Nat]

\* Files that an archive can hold: no two in the same place, none inside another.
Apart(a, b) == a # b /\ ~IsStrictPrefix(a, b) /\ ~IsStrictPrefix(b, a)
Packable(files) ==
    /\ files \in SUBSET Packs /\ IsFiniteSet(files)
    /\ \A f \in files : f.name # <<>>
    /\ \A f, g \in files : f # g => Apart(f.name, g.name)

\* What a path has below a directory (filepath.Rel of a file that lies there).
LEMMA RelativeIs ==
    ASSUME NEW path \in Seq(Names), NEW dir \in Seq(Names), IsStrictPrefix(dir, path)
    PROVE  /\ Relative(path, dir) \in Seq(Names) /\ Relative(path, dir) # <<>>
           /\ Len(Relative(path, dir)) = Len(path) - Len(dir)
           /\ \A p \in 1..Len(path) - Len(dir) : Relative(path, dir)[p] = path[Len(dir) + p]
           /\ Last(Relative(path, dir)) = Last(path)
<1> DEFINE m == Len(path)
           n == Len(dir)
           r == Relative(path, dir)
<1>1. m \in Nat /\ n \in Nat /\ n < m
  BY StrictPrefixIs
<1>2. \A p \in n + 1..m : path[p] \in Names
  <2>1. \A p \in n + 1..m : p \in 1..m
    BY <1>1
  <2>2. \A p \in 1..m : path[p] \in Names
    OBVIOUS
  <2> QED
    BY <2>1, <2>2
<1>3. r = SubSeq(path, n + 1, m)
  BY DEF Relative
<1>4. n + 1 \in Int /\ m \in Int /\ n + 1 <= m
  BY <1>1
<1> HIDE DEF m, n, r
<1>5. /\ SubSeq(path, n + 1, m) \in Seq(Names)
      /\ Len(SubSeq(path, n + 1, m)) = IF n + 1 <= m THEN m - (n + 1) + 1 ELSE 0
      /\ \A p \in 1..m - (n + 1) + 1 : SubSeq(path, n + 1, m)[p] = path[n + 1 + p - 1]
  BY <1>2, <1>4, SubSeqProperties
<1>6. m - (n + 1) + 1 = m - n /\ \A p \in 1..m - n : n + 1 + p - 1 = n + p
  BY <1>1
<1>7. r \in Seq(Names) /\ Len(r) = m - n /\ \A p \in 1..m - n : r[p] = path[n + p]
  BY <1>3, <1>4, <1>5, <1>6
<1>8. m - n \in 1..m - n /\ n + (m - n) = m
  BY <1>1
<1>9. r # <<>> /\ r[m - n] = path[m]
  BY <1>1, <1>7, <1>8
<1> QED
  BY <1>7, <1>9 DEF m, n, r, Last

\* Relative paths below a directory differ as the paths do.
LEMMA RelativesAreApart ==
    ASSUME NEW a \in Seq(Names), NEW b \in Seq(Names), NEW dir \in Seq(Names),
           IsStrictPrefix(dir, a), IsStrictPrefix(dir, b)
    PROVE  /\ Relative(a, dir) = Relative(b, dir) => a = b
           /\ IsStrictPrefix(Relative(a, dir), Relative(b, dir)) => IsStrictPrefix(a, b)
<1> DEFINE k == Len(a)
           m == Len(b)
           n == Len(dir)
           r == Relative(a, dir)
           s == Relative(b, dir)
<1>1. /\ k \in Nat /\ m \in Nat /\ n \in Nat /\ n < k /\ n < m
      /\ \A p \in 1..n : a[p] = dir[p] /\ b[p] = dir[p]
  BY StrictPrefixIs
<1>2. /\ r \in Seq(Names) /\ Len(r) = k - n /\ \A p \in 1..k - n : r[p] = a[n + p]
      /\ s \in Seq(Names) /\ Len(s) = m - n /\ \A p \in 1..m - n : s[p] = b[n + p]
  BY RelativeIs
<1> HIDE DEF k, m, n, r, s
<1>3. ASSUME NEW p \in 1..k PROVE p \in 1..n \/ (p - n \in 1..k - n /\ n + (p - n) = p)
  BY <1>1
<1>4. ASSUME r = s PROVE a = b
  <2>1. k = m
    BY <1>1, <1>2, <1>4
  <2>2. \A p \in 1..k : a[p] = b[p]
    <3>1. ASSUME NEW p \in 1..k PROVE a[p] = b[p]
      <4>1. CASE p \in 1..n
        BY <1>1, <4>1
      <4>2. CASE p - n \in 1..k - n /\ n + (p - n) = p
        <5>1. r[p - n] = a[n + (p - n)] /\ s[p - n] = b[n + (p - n)]
          BY <1>2, <2>1, <4>2
        <5> QED
          BY <1>4, <4>2, <5>1
      <4> QED
        BY <1>3, <4>1, <4>2
    <3> QED
      BY <3>1
  <2> QED
    BY <2>1, <2>2 DEF k, m
<1>5. ASSUME IsStrictPrefix(r, s) PROVE IsStrictPrefix(a, b)
  <2>1. k - n < m - n /\ \A p \in 1..k - n : r[p] = s[p]
    <3>1. Len(r) < Len(s) /\ \A p \in 1..Len(r) : r[p] = s[p]
      <4>1. r \in Seq(Names) /\ s \in Seq(Names)
        BY <1>2
      <4> QED
        BY <1>5, <4>1, StrictPrefixIs
    <3> QED
      BY <1>2, <3>1
  <2>2. k < m
    BY <1>1, <2>1
  <2>3. ASSUME NEW p \in 1..k PROVE a[p] = b[p]
    <3>1. CASE p \in 1..n
      BY <1>1, <3>1
    <3>2. CASE p - n \in 1..k - n /\ n + (p - n) = p
      <4>1. p - n \in 1..m - n
        BY <1>1, <2>1, <3>2
      <4>2. r[p - n] = a[n + (p - n)] /\ s[p - n] = b[n + (p - n)] /\ r[p - n] = s[p - n]
        BY <1>2, <2>1, <3>2, <4>1
      <4> QED
        BY <3>2, <4>2
    <3> QED
      BY <1>3, <3>1, <3>2
  <2> QED
    BY <2>2, <2>3, StrictPrefixIs DEF k, m
<1> QED
  BY <1>4, <1>5 DEF r, s

\* The regular files of a site below a directory, under their relative paths.
LEMMA RelativesArePackable ==
    ASSUME NEW tree \in Sites, NEW dir \in Seq(Names), NEW some \in SUBSET Under(tree, dir)
    PROVE  Packable({[name |-> Relative(f.path, dir), size |-> f.size] : f \in some})
<1> DEFINE pack == [f \in some |-> [name |-> Relative(f.path, dir), size |-> f.size]]
           files == {[name |-> Relative(f.path, dir), size |-> f.size] : f \in some}
<1>1. ASSUME NEW f \in some
      PROVE  /\ f \in tree /\ f.path \in Seq(Names) /\ f.size \in Nat /\ IsStrictPrefix(dir, f.path)
             /\ Relative(f.path, dir) \in Seq(Names) /\ Relative(f.path, dir) # <<>>
  <2>1. f \in tree /\ IsStrictPrefix(dir, f.path)
    BY DEF Under
  <2>2. f.path \in Seq(Names) /\ f.size \in Nat
    BY <2>1 DEF Sites
  <2> QED
    BY <2>1, <2>2, RelativeIs
<1>2. files \in SUBSET Packs /\ \A f \in files : f.name # <<>>
  BY <1>1 DEF Packs
<1>3. IsFiniteSet(files)
  <2>1. IsFiniteSet(some)
    <3>1. IsFiniteSet(tree) /\ some \in SUBSET tree
      BY DEF Sites, Under
    <3> QED
      BY <3>1, FS_Subset
  <2>2. pack \in Surjection(some, files)
    <3>1. pack \in [some -> files] /\ \A x \in files : \E f \in some : pack[f] = x
      OBVIOUS
    <3> HIDE DEF pack, files
    <3> QED
      BY <3>1, Fun_IsSurj
  <2> HIDE DEF pack, files
  <2> QED
    BY <2>1, <2>2, FS_Surjection
<1>4. ASSUME NEW f \in some, NEW g \in some,
             ~Apart(Relative(f.path, dir), Relative(g.path, dir))
      PROVE  f = g
  <2>1. \/ Relative(f.path, dir) = Relative(g.path, dir)
        \/ IsStrictPrefix(Relative(f.path, dir), Relative(g.path, dir))
        \/ IsStrictPrefix(Relative(g.path, dir), Relative(f.path, dir))
    BY <1>4 DEF Apart
  <2>2. f.path = g.path \/ IsStrictPrefix(f.path, g.path) \/ IsStrictPrefix(g.path, f.path)
    BY <1>1, <2>1, RelativesAreApart
  <2> QED
    BY <1>1, <2>2 DEF Sites
<1>5. \A f, g \in files : f # g => Apart(f.name, g.name)
  BY <1>4
<1> QED
  BY <1>2, <1>3, <1>5 DEF Packable

\* Whether --root is given or not, the entry lies below the directory packed.
LEMMA PackingIsAbove ==
    ASSUME NEW entry \in Seq(Names), entry # <<>>, NEW root \in Seq(Names), NEW hasRoot \in BOOLEAN,
           hasRoot => IsStrictPrefix(root, entry)
    PROVE  Packing(entry, hasRoot, root) \in Seq(Names)
           /\ IsStrictPrefix(Packing(entry, hasRoot, root), entry)
<1>1. CASE hasRoot
  BY <1>1 DEF Packing
<1>2. CASE ~hasRoot
  <2> DEFINE f == Front(entry)
  <2>1. f \in Seq(Names) /\ Len(f) = Len(entry) - 1 /\ \A p \in 1..Len(entry) - 1 : f[p] = entry[p]
    BY FrontIs
  <2>2. Len(entry) \in Nat
    OBVIOUS
  <2> HIDE DEF f
  <2>3. Len(f) < Len(entry) /\ \A p \in 1..Len(f) : f[p] = entry[p]
    BY <2>1, <2>2
  <2>4. IsStrictPrefix(f, entry)
    BY <2>1, <2>3, StrictPrefixIs
  <2> QED
    BY <1>2, <2>1, <2>4 DEF Packing, f
<1> QED
  BY <1>1, <1>2

\* A file directly in the directory packed is named by its last element.
LEMMA NameOfWebFile ==
    ASSUME NEW tree \in Sites, NEW dir \in Seq(Names), NEW f \in Under(tree, dir), Len(f.path) = Len(dir) + 1
    PROVE  Relative(f.path, dir) = <<Last(f.path)>>
<1> DEFINE path == f.path
           r == Relative(path, dir)
<1>1. path \in Seq(Names) /\ IsStrictPrefix(dir, path)
  BY DEF Under, Sites
<1> HIDE DEF path
<1>2. r \in Seq(Names) /\ Len(r) = Len(path) - Len(dir) /\ Last(r) = Last(path)
  BY <1>1, RelativeIs
<1>3. Len(path) - Len(dir) = 1
  <2>1. Len(dir) \in Nat /\ Len(path) = Len(dir) + 1
    BY DEF path
  <2> QED
    BY <2>1
<1> HIDE DEF r
<1>4. r = <<Last(path)>>
  <2>1. Len(r) = 1 /\ r[1] = Last(path)
    BY <1>2, <1>3 DEF Last
  <2> QED
    BY <1>2, <2>1
<1> QED
  BY <1>4 DEF r, path

SentFrom(tree, denied, entry, dir, single, sent) ==
    /\ Packable(sent.files)
    /\ sent.entry = Relative(entry, dir) /\ sent.entry \in Seq(Names) /\ sent.entry # <<>>
    /\ Last(sent.entry) \in HTML /\ Last(sent.entry) = Last(entry)
    /\ dir \in Seq(Names) /\ IsStrictPrefix(dir, entry)
    /\ \E f \in tree : f.path = entry
    /\ sent.files = IF single THEN {[name |-> sent.entry, size |-> f.size] : f \in {g \in tree : g.path = entry}}
                    ELSE Packed(tree, dir, denied)

\* What runSend sends comes from the site and has no path twice.
LEMMA SentIsPackable ==
    ASSUME NEW tree \in Sites, NEW denied, NEW entry \in Seq(Names), entry # <<>>, NEW root \in Seq(Names),
           NEW hasRoot \in BOOLEAN, NEW single \in BOOLEAN, Send(tree, denied, entry, hasRoot, root, single).sent
    PROVE  SentFrom(tree, denied, entry, Packing(entry, hasRoot, root), single,
                    Send(tree, denied, entry, hasRoot, root, single))
<1> DEFINE sent == Send(tree, denied, entry, hasRoot, root, single)
           dir == Packing(entry, hasRoot, root)
           file == {f \in tree : f.path = entry}
<1>1. /\ Last(entry) \in HTML /\ file # {} /\ (hasRoot => IsStrictPrefix(root, entry))
      /\ sent = [sent |-> TRUE, entry |-> Relative(entry, dir),
                 files |-> IF single THEN {[name |-> Relative(entry, dir), size |-> f.size] : f \in file}
                           ELSE Packed(tree, dir, denied)]
  BY DEF Send, Packing
<1>2. dir \in Seq(Names) /\ IsStrictPrefix(dir, entry)
  BY <1>1, PackingIsAbove
<1> HIDE DEF sent, dir
<1>3. /\ sent.entry = Relative(entry, dir)
      /\ sent.files = IF single THEN {[name |-> Relative(entry, dir), size |-> f.size] : f \in file}
                      ELSE Packed(tree, dir, denied)
  BY <1>1
<1>4. sent.entry \in Seq(Names) /\ sent.entry # <<>> /\ Last(sent.entry) = Last(entry)
  BY <1>2, <1>3, RelativeIs
<1>5. Packable(sent.files)
  <2>1. CASE single
    <3>1. file \in SUBSET Under(tree, dir)
      BY <1>2 DEF Under
    <3>2. {[name |-> Relative(f.path, dir), size |-> f.size] : f \in file}
            = {[name |-> Relative(entry, dir), size |-> f.size] : f \in file}
      OBVIOUS
    <3> QED
      BY <1>2, <1>3, <2>1, <3>1, <3>2, RelativesArePackable
  <2>2. CASE ~single /\ dir \notin denied /\ IsSingleFileDir(tree, dir)
    <3>1. WebFiles(tree, dir) \in SUBSET Under(tree, dir) /\ \A f \in WebFiles(tree, dir) : Len(f.path) = Len(dir) + 1
      BY DEF WebFiles
    <3>2. \A f \in WebFiles(tree, dir) : Relative(f.path, dir) = <<Last(f.path)>>
      BY <1>2, <3>1, NameOfWebFile
    <3>3. {[name |-> Relative(f.path, dir), size |-> f.size] : f \in WebFiles(tree, dir)}
            = {[name |-> <<Last(f.path)>>, size |-> f.size] : f \in WebFiles(tree, dir)}
      BY <3>2
    <3>4. sent.files = {[name |-> Relative(f.path, dir), size |-> f.size] : f \in WebFiles(tree, dir)}
      BY <1>3, <2>2, <3>3 DEF Packed
    <3> QED
      BY <1>2, <3>1, <3>4, RelativesArePackable
  <2>3. CASE ~single /\ ~(dir \notin denied /\ IsSingleFileDir(tree, dir))
    <3> DEFINE some == DirFiles(tree, dir, denied)
    <3>1. sent.files = {[name |-> Relative(f.path, dir), size |-> f.size] : f \in some}
      BY <1>3, <2>3 DEF Packed, DirEntries
    <3>2. some \in SUBSET Under(tree, dir)
      BY DEF DirFiles
    <3> HIDE DEF some
    <3> QED
      BY <1>2, <3>1, <3>2, RelativesArePackable
  <2> QED
    BY <2>1, <2>2, <2>3
<1> QED
  BY <1>1, <1>2, <1>3, <1>4, <1>5 DEF SentFrom, sent, dir

\* The entry is packed if it is a regular file under no hidden name, and every
\* directory down to it can be listed.
LEMMA EntryIsPacked ==
    ASSUME NEW tree \in Sites, NEW denied, NEW entry \in Seq(Names), entry # <<>>, NEW root \in Seq(Names),
           NEW hasRoot \in BOOLEAN, NEW single \in BOOLEAN, Send(tree, denied, entry, hasRoot, root, single).sent,
           \/ single
           \/ /\ ~HiddenPath(Send(tree, denied, entry, hasRoot, root, single).entry)
              /\ \A f \in tree : f.path = entry => ~f.link
              /\ Listed(entry, Packing(entry, hasRoot, root), denied)
    PROVE  \E f \in Send(tree, denied, entry, hasRoot, root, single).files :
               f.name = Send(tree, denied, entry, hasRoot, root, single).entry
<1> DEFINE sent == Send(tree, denied, entry, hasRoot, root, single)
           dir == Packing(entry, hasRoot, root)
<1>1. SentFrom(tree, denied, entry, dir, single, sent)
  BY SentIsPackable
<1> HIDE DEF sent, dir
<1>2. /\ sent.entry = Relative(entry, dir)
      /\ Last(entry) \in HTML
      /\ dir \in Seq(Names) /\ IsStrictPrefix(dir, entry)
      /\ sent.files = IF single THEN {[name |-> sent.entry, size |-> f.size] : f \in {g \in tree : g.path = entry}}
                      ELSE Packed(tree, dir, denied)
  BY <1>1 DEF SentFrom
<1>3. PICK f \in tree : f.path = entry
  BY <1>1 DEF SentFrom
<1>4. f \in Under(tree, dir) /\ IsAsset(f)
  BY <1>2, <1>3, NamesAssumption DEF Under, IsAsset
<1>5. CASE single
  <2>1. [name |-> sent.entry, size |-> f.size] \in sent.files
    BY <1>2, <1>3, <1>5
  <2> QED
    BY <2>1 DEF sent
<1>6. CASE ~single
  <2>1. ~f.link /\ ~HiddenPath(Relative(entry, dir)) /\ Listed(entry, dir, denied)
    BY <1>2, <1>3, <1>6 DEF sent, dir
  <2>2. CASE dir \notin denied /\ IsSingleFileDir(tree, dir)
    <3> DEFINE m == Len(entry)
               n == Len(dir)
               r == Relative(entry, dir)
    <3>1. /\ m \in Nat /\ n \in Nat /\ n < m /\ r \in Seq(Names) /\ Len(r) = m - n
          /\ \A p \in 1..m - n : r[p] = entry[n + p]
      BY <1>2, RelativeIs, StrictPrefixIs
    <3>2. DOMAIN r = 1..m - n
      BY <3>1
    <3>3. m > n + 1 => entry[n + 1] \in Hidden
      BY <1>3, <1>4, <2>2 DEF IsSingleFileDir
    <3> HIDE DEF m, n, r
    <3>4. 1 \in 1..m - n /\ r[1] = entry[n + 1]
      BY <3>1
    <3>5. r[1] \notin Hidden
      BY <2>1, <3>2, <3>4 DEF HiddenPath, r
    <3>6. m = n + 1
      BY <3>1, <3>3, <3>4, <3>5
    <3>7. Last(f.path) \notin Hidden /\ Len(f.path) = Len(dir) + 1
      BY <1>3, <3>4, <3>5, <3>6 DEF Last, m, n
    <3>8. f \in WebFiles(tree, dir)
      BY <1>4, <2>1, <3>7 DEF WebFiles
    <3>9. Relative(entry, dir) = <<Last(f.path)>>
      BY <1>2, <1>3, <1>4, <3>7, NameOfWebFile
    <3>10. [name |-> <<Last(f.path)>>, size |-> f.size] \in sent.files
      BY <1>2, <1>6, <2>2, <3>8 DEF Packed
    <3> QED
      BY <1>2, <3>9, <3>10 DEF sent
  <2>3. CASE ~(dir \notin denied /\ IsSingleFileDir(tree, dir))
    <3>1. f \in DirFiles(tree, dir, denied)
      <4>1. Listed(f.path, dir, denied) /\ ~HiddenPath(Relative(f.path, dir))
        BY <1>3, <2>1
      <4> QED
        BY <1>4, <2>1, <4>1 DEF DirFiles
    <3>2. sent.files = DirEntries(tree, dir, denied)
      BY <1>2, <1>6, <2>3 DEF Packed
    <3>3. [name |-> Relative(f.path, dir), size |-> f.size] \in sent.files
      BY <3>1, <3>2 DEF DirEntries
    <3> QED
      BY <1>2, <1>3, <3>3 DEF sent
  <2> QED
    BY <2>2, <2>3
<1> QED
  BY <1>5, <1>6

(***************************************************************************)
(* Posting what was packed.                                                *)
(***************************************************************************)
PathOf(f) == NormalizeArchivePath(f.name)
PostOf(f) == [raw |-> f.name, kind |-> "file", size |-> f.size]
PostAll(list) == [i \in 1..Len(list) |-> PostOf(list[i])]
StoredOf(list) == {[path |-> PathOf(list[i]), size |-> list[i].size] : i \in 1..Len(list)}
FilesOf(list) == {list[i] : i \in 1..Len(list)}
ListsPackable(list) ==
    /\ \A i \in 1..Len(list) : list[i].name # <<>>
    /\ \A i, j \in 1..Len(list) : i # j => Apart(list[i].name, list[j].name)
\* The server makes a path of every name, and none that lies below another.
Acceptable(list) ==
    \A i, j \in 1..Len(list) : PathOf(list[i]) # NoPath /\ ~IsStrictPrefix(PathOf(list[i]), PathOf(list[j]))

\* Until one is refused, the files posted so far are stored, all under their
\* paths, and only their directories.
PostedSoFar(list) ==
    LET st == ExtractAll(PostAll(list))
    IN  /\ PostAll(list) \in Seq(Archived) /\ Sized(FilesOf(list))
        /\ st.ok => /\ st.files \subseteq StoredOf(list) /\ st.total = SumOfSizes(FilesOf(list))
                    /\ \A i \in 1..Len(list) : \E g \in st.files : g.path = PathOf(list[i])
                    /\ \A d \in st.dirs : \E i \in 1..Len(list) : IsStrictPrefix(d, PathOf(list[i]))
        /\ Acceptable(list) /\ SumOfSizes(FilesOf(list)) <= MaxBytes => st.ok

\* The definitions about posted lists, for one more file.
LEMMA PostsAppend ==
    ASSUME NEW list \in Seq(Packs), NEW f \in Packs
    PROVE  /\ PostAll(Append(list, f)) = Append(PostAll(list), PostOf(f))
           /\ StoredOf(Append(list, f)) = StoredOf(list) \cup {[path |-> PathOf(f), size |-> f.size]}
           /\ FilesOf(Append(list, f)) = FilesOf(list) \cup {f}
           /\ ListsPackable(Append(list, f)) =>
                  /\ ListsPackable(list) /\ f.name # <<>>
                  /\ \A i \in 1..Len(list) : Apart(list[i].name, f.name)
<1> DEFINE t == Append(list, f)
           m == Len(list)
<1>1. m \in Nat /\ t \in Seq(Packs) /\ Len(t) = m + 1 /\ t[m + 1] = f /\ \A i \in 1..m : t[i] = list[i]
  OBVIOUS
<1> HIDE DEF t, m
<1>2. \A i \in 1..m + 1 : i = m + 1 \/ i \in 1..m
  BY <1>1
<1>3. m + 1 \in 1..m + 1 /\ \A i \in 1..m : i \in 1..m + 1 /\ i # m + 1
  BY <1>1
<1>4. PostAll(t) = Append(PostAll(list), PostOf(f))
  <2> DEFINE V == {PostOf(g) : g \in Packs}
             u == PostAll(list)
             w == Append(u, PostOf(f))
             x == PostAll(t)
  <2>1. u \in Seq(V) /\ Len(u) = m /\ \A i \in 1..m : u[i] = PostOf(list[i])
    <3>1. \A i \in 1..m : list[i] \in Packs
      BY DEF m
    <3>2. u = [i \in 1..m |-> PostOf(list[i])]
      BY DEF PostAll, m
    <3> HIDE DEF u
    <3> QED
      BY <1>1, <3>1, <3>2
  <2>2. x = [i \in 1..m + 1 |-> PostOf(t[i])]
    BY <1>1 DEF PostAll
  <2>3. PostOf(f) \in V
    OBVIOUS
  <2> HIDE DEF V, u, x
  <2>4. w \in Seq(V) /\ Len(w) = m + 1 /\ w[m + 1] = PostOf(f) /\ \A i \in 1..m : w[i] = u[i]
    BY <2>1, <2>3, AppendProperties
  <2> HIDE DEF w
  <2>5. \A i \in 1..m + 1 : w[i] = PostOf(t[i])
    BY <1>1, <1>2, <2>1, <2>4
  <2>6. w = [i \in 1..m + 1 |-> w[i]]
    BY <2>4
  <2>7. w = x
    BY <2>2, <2>5, <2>6
  <2> QED
    BY <2>7 DEF w, u, x
<1>5. StoredOf(t) = StoredOf(list) \cup {[path |-> PathOf(f), size |-> f.size]}
  BY <1>1, <1>2, <1>3 DEF StoredOf, m
<1>6. FilesOf(t) = FilesOf(list) \cup {f}
  BY <1>1, <1>2, <1>3 DEF FilesOf, m
<1>7. ASSUME ListsPackable(t)
      PROVE  /\ ListsPackable(list) /\ f.name # <<>>
             /\ \A i \in 1..m : Apart(list[i].name, f.name)
  <2>1. /\ \A i \in 1..m + 1 : t[i].name # <<>>
        /\ \A i, j \in 1..m + 1 : i # j => Apart(t[i].name, t[j].name)
    BY <1>1, <1>7 DEF ListsPackable
  <2>2. ListsPackable(list)
    BY <1>1, <1>3, <2>1 DEF ListsPackable, m
  <2> QED
    BY <1>1, <1>3, <2>1, <2>2
<1> QED
  BY <1>4, <1>5, <1>6, <1>7 DEF t, m

\* A name that is packed can be archived, and has a path of names if it has one.
LEMMA PostOfIs ==
    ASSUME NEW f \in Packs, f.name # <<>>
    PROVE  /\ PostOf(f) \in Archived /\ f.name \in RawPaths
           /\ PathOf(f) # NoPath => PathOf(f) \in Seq(Names)
<1> DEFINE name == f.name
<1>1. name \in Seq(Names) /\ f.size \in Nat /\ name # <<>>
  BY DEF Packs
<1>2. name \in RawPaths
  BY <1>1, DoneIs DEF RawPaths
<1>3. Last(name) # ""
  <2> HIDE DEF name
  <2>1. name[Len(name)] \in Names
    BY <1>1
  <2> QED
    BY <2>1, NamesAssumption DEF Last
<1>4. PostOf(f) \in Archived
  BY <1>1, <1>2, <1>3 DEF PostOf, Archived
<1> QED
  BY <1>2, <1>4, NormalizeIs DEF PathOf

\* A directory above a path is strictly above it.
LEMMA ParentsAreAbove ==
    ASSUME NEW path \in Seq(Names), NEW n \in 1..Len(path) - 1
    PROVE  IsStrictPrefix(SubSeq(path, 1, n), path)
<1> DEFINE h == SubSeq(path, 1, n)
<1>1. n \in 0..Len(path) /\ n < Len(path)
  OBVIOUS
<1>2. h \in Seq(Names) /\ Len(h) = n /\ \A p \in 1..n : h[p] = path[p]
  BY <1>1, PrefixIs
<1> HIDE DEF h
<1>3. IsStrictPrefix(h, path)
  BY <1>1, <1>2, StrictPrefixIs
<1> QED
  BY <1>3 DEF h

\* One more file.
LEMMA PostOneMore ==
    ASSUME NEW list \in Seq(Packs), PostedSoFar(list), NEW f \in Packs, f.name # <<>>,
           \A i \in 1..Len(list) : Apart(list[i].name, f.name)
    PROVE  PostedSoFar(Append(list, f))
<1> DEFINE t == Append(list, f)
           m == Len(list)
           st == ExtractAll(PostAll(list))
           next == ExtractAll(PostAll(t))
           e == PostOf(f)
           path == PathOf(f)
           size == f.size
           sum == SumOfSizes(FilesOf(list))
           copy == CopyToLimit(size, st.total)
           new == [path |-> path, size |-> copy.copied]
           isFile(p) == \E g \in st.files : g.path = p
           blocked == (\E n \in 1..Len(path) - 1 : isFile(SubSeq(path, 1, n))) \/ path \in st.dirs
<1>1. /\ PostAll(t) = Append(PostAll(list), e) /\ StoredOf(t) = StoredOf(list) \cup {[path |-> path, size |-> size]}
      /\ FilesOf(t) = FilesOf(list) \cup {f}
  BY PostsAppend
<1>2. /\ size \in Nat /\ e \in Archived /\ NormalizeArchivePath(e.raw) = path /\ e.kind = "file" /\ e.size = size
      /\ path # NoPath => path \in Seq(Names)
  BY PostOfIs DEF Packs, PostOf, PathOf
<1>3. /\ PostAll(list) \in Seq(Archived) /\ Sized(FilesOf(list))
      /\ st.ok => /\ st.files \subseteq StoredOf(list) /\ st.total = sum
                  /\ \A i \in 1..m : \E g \in st.files : g.path = PathOf(list[i])
                  /\ \A d \in st.dirs : \E i \in 1..m : IsStrictPrefix(d, PathOf(list[i]))
      /\ Acceptable(list) /\ sum <= MaxBytes => st.ok
  BY DEF PostedSoFar
<1>4. m \in Nat /\ Len(t) = m + 1 /\ t[m + 1] = f /\ \A i \in 1..m : t[i] = list[i]
  OBVIOUS
<1> HIDE DEF t, e, m
<1>5. PostAll(t) \in Seq(Archived) /\ next = Extract(st, e) /\ st \in Sounds
  BY <1>1, <1>2, <1>3, ExtractAllIs, AppendProperties
<1> HIDE DEF st, next
<1>6. f \notin FilesOf(list)
  BY DEF FilesOf, Apart, m
<1>7. Sized(FilesOf(t)) /\ SumOfSizes(FilesOf(t)) = sum + size /\ sum \in Nat
  BY <1>1, <1>2, <1>3, <1>6, OneMoreFile, BytesAreFinite
<1> HIDE DEF path, size, sum
<1>8. next = IF ~st.ok \/ path = NoPath \/ blocked THEN [st EXCEPT !.ok = FALSE]
             ELSE [ok |-> copy.ok, total |-> st.total + copy.copied, dirs |-> st.dirs \cup Parents(path),
                   files |-> {g \in st.files : g.path # path} \cup {new}]
  BY <1>2, <1>5 DEF Extract, Parents
<1>9. st.ok \in BOOLEAN /\ st = [ok |-> st.ok, total |-> st.total, files |-> st.files, dirs |-> st.dirs]
  BY <1>5 DEF Sounds, Stores
<1> HIDE DEF blocked, new
<1>10. ASSUME st.ok
       PROVE  /\ copy.ok <=> sum + size <= MaxBytes
              /\ copy.ok => copy.copied = size /\ st.total + copy.copied = sum + size
  <2> DEFINE room == MaxBytes - sum
  <2>1. st.total = sum /\ room \in Int
    BY <1>3, <1>7, <1>10, ArchiveLimitsAssumption
  <2>2. copy = [copied |-> Min({size, room}), ok |-> size <= room]
    BY <2>1 DEF CopyToLimit
  <2>3. Min({size, room}) = IF size <= room THEN size ELSE room
    BY <1>2, <2>1, MinMaxOfTwo
  <2> HIDE DEF copy, room
  <2>4. copy.copied = (IF size <= room THEN size ELSE room) /\ (copy.ok <=> size <= room)
    BY <2>2, <2>3
  <2> QED
    BY <1>2, <1>7, <2>1, <2>4, ArchiveLimitsAssumption DEF room
<1> HIDE DEF copy
<1>11. ASSUME next.ok
       PROVE  /\ st.ok /\ path \in Seq(Names) /\ next.total = sum + size /\ next.dirs = st.dirs \cup Parents(path)
              /\ next.files = {g \in st.files : g.path # path} \cup {[path |-> path, size |-> size]}
  <2>1. st.ok /\ path # NoPath /\ ~blocked
    BY <1>8, <1>9, <1>11
  <2>2. next = [ok |-> copy.ok, total |-> st.total + copy.copied, dirs |-> st.dirs \cup Parents(path),
                files |-> {g \in st.files : g.path # path} \cup {new}]
    BY <1>8, <2>1
  <2> QED
    BY <1>2, <1>10, <1>11, <2>1, <2>2 DEF new
<1>12. next.ok => next.files \subseteq StoredOf(t) /\ next.total = SumOfSizes(FilesOf(t))
  BY <1>1, <1>3, <1>7, <1>11
<1>13. ASSUME next.ok, NEW i \in 1..Len(t) PROVE \E g \in next.files : g.path = PathOf(t[i])
  <2>1. CASE PathOf(t[i]) = path
    <3>1. [path |-> path, size |-> size] \in next.files
      BY <1>11, <1>13
    <3> QED
      BY <2>1, <3>1
  <2>2. CASE PathOf(t[i]) # path
    <3>1. i # m + 1
      BY <1>4, <2>2 DEF path
    <3>2. i \in 1..m
      BY <1>4, <3>1
    <3>3. PICK g \in st.files : g.path = PathOf(t[i])
      BY <1>3, <1>4, <1>11, <1>13, <3>2
    <3> QED
      BY <1>11, <1>13, <2>2, <3>3
  <2> QED
    BY <2>1, <2>2
<1>14. ASSUME next.ok, NEW d \in next.dirs PROVE \E i \in 1..Len(t) : IsStrictPrefix(d, PathOf(t[i]))
  <2>1. st.ok /\ path \in Seq(Names) /\ next.dirs = st.dirs \cup Parents(path)
    BY <1>11, <1>14
  <2>2. CASE d \in st.dirs
    <3>1. PICK i \in 1..m : IsStrictPrefix(d, PathOf(list[i]))
      BY <1>3, <2>1, <2>2
    <3>2. i \in 1..Len(t)
      BY <1>4
    <3> QED
      BY <1>4, <3>1, <3>2
  <2>3. CASE d \in Parents(path)
    <3>1. IsStrictPrefix(d, path)
      BY <2>1, <2>3, ParentsAreAbove DEF Parents
    <3>2. m + 1 \in 1..Len(t)
      BY <1>4
    <3> QED
      BY <1>4, <3>1, <3>2 DEF path
  <2> QED
    BY <2>1, <2>2, <2>3
<1>15. ASSUME Acceptable(t), SumOfSizes(FilesOf(t)) <= MaxBytes PROVE next.ok
  <2>1. /\ \A i, j \in 1..m : PathOf(list[i]) # NoPath /\ ~IsStrictPrefix(PathOf(list[i]), PathOf(list[j]))
        /\ \A i \in 1..m : /\ ~IsStrictPrefix(PathOf(list[i]), path)
                            /\ ~IsStrictPrefix(path, PathOf(list[i]))
        /\ path # NoPath
    <3>1. m + 1 \in 1..Len(t) /\ \A i \in 1..m : i \in 1..Len(t)
      BY <1>4
    <3> QED
      BY <1>4, <1>15, <3>1 DEF Acceptable, path
  <2>2. Acceptable(list)
    BY <2>1 DEF Acceptable, m
  <2>3. sum <= MaxBytes
    BY <1>2, <1>7, <1>15, ArchiveLimitsAssumption
  <2>4. st.ok
    BY <1>3, <2>2, <2>3
  <2>5. path \in Seq(Names)
    BY <1>2, <2>1
  <2>6. \A g \in st.files : \E i \in 1..m : g.path = PathOf(list[i])
    BY <1>3, <2>4 DEF StoredOf, m
  <2>7. \A n \in 1..Len(path) - 1 : ~isFile(SubSeq(path, 1, n))
    <3>1. \A n \in 1..Len(path) - 1 : IsStrictPrefix(SubSeq(path, 1, n), path)
      BY <2>5, ParentsAreAbove
    <3> QED
      BY <2>1, <2>6, <3>1
  <2>8. path \notin st.dirs
    BY <1>3, <2>1, <2>4
  <2>9. ~blocked
    BY <2>7, <2>8 DEF blocked
  <2> QED
    BY <1>7, <1>8, <1>10, <1>15, <2>1, <2>4, <2>9
<1>16. PostedSoFar(t)
  BY <1>5, <1>7, <1>12, <1>13, <1>14, <1>15 DEF PostedSoFar, next
<1> QED
  BY <1>16 DEF t

\* A list of packed files is stored file by file, within the limit.
LEMMA PostsArrive ==
    ASSUME NEW list \in Seq(Packs), ListsPackable(list)
    PROVE  PostedSoFar(list)
<1> DEFINE T == {l \in Seq(Packs) : ListsPackable(l) => PostedSoFar(l)}
<1>1. <<>> \in T
  <2> DEFINE l == <<>>
  <2>1. l \in Seq(Packs) /\ Len(l) = 0 /\ PostAll(l) = <<>>
    BY DEF PostAll
  <2>2. FilesOf(l) = {} /\ StoredOf(l) = {}
    BY DEF FilesOf, StoredOf
  <2>3. ExtractAll(<<>>) = Empty
    BY ExtractAllIs
  <2>4. <<>> \in Seq(Archived)
    OBVIOUS
  <2> HIDE DEF l
  <2>5. PostedSoFar(l)
    BY <2>1, <2>2, <2>3, <2>4, NoBytes DEF PostedSoFar, Empty
  <2> QED
    BY <2>5 DEF l
<1>2. ASSUME NEW l \in Seq(Packs), l \in T, NEW f \in Packs PROVE Append(l, f) \in T
  <2>1. ASSUME ListsPackable(Append(l, f)) PROVE PostedSoFar(Append(l, f))
    <3>1. ListsPackable(l) /\ f.name # <<>> /\ \A i \in 1..Len(l) : Apart(l[i].name, f.name)
      BY <2>1, PostsAppend
    <3>2. PostedSoFar(l)
      BY <1>2, <3>1
    <3> QED
      BY <3>1, <3>2, PostOneMore
  <2> QED
    BY <2>1
<1>3. Seq(Packs) \subseteq T
  <2> HIDE DEF T
  <2> QED
    BY <1>1, <1>2, SeqInduction
<1> QED
  BY <1>3

\* The files of an archive, in the order in which they are posted.
LEMMA PostedIs ==
    ASSUME NEW files, Packable(files)
    PROVE  \E list \in Seq(Packs) :
               /\ ListsPackable(list) /\ PostAll(list) = Posted(files) /\ Len(list) = Cardinality(files)
               /\ FilesOf(list) = files
               /\ StoredOf(list) = {[path |-> PathOf(f), size |-> f.size] : f \in files}
<1> DEFINE n == Cardinality(files)
           list == SetToSeq(files)
<1>1. /\ files \in SUBSET Packs /\ IsFiniteSet(files)
      /\ (\A f \in files : f.name # <<>>) /\ \A f, g \in files : f # g => Apart(f.name, g.name)
  BY DEF Packable
<1>2. /\ n \in Nat /\ list \in [1..n -> files] /\ (\A f \in files : \E i \in 1..n : list[i] = f)
      /\ \A i, j \in 1..n : list[i] = list[j] => i = j
  BY <1>1, SetToSeqIs
<1>3. PostAll(list) = Posted(files)
  <2>1. Posted(files) = [i \in 1..n |-> PostOf(list[i])]
    BY DEF Posted, PostOf
  <2> HIDE DEF list
  <2>2. Len(list) = n
    BY <1>2
  <2> QED
    BY <2>1, <2>2 DEF PostAll
<1> HIDE DEF n, list
<1>4. list \in Seq(Packs) /\ Len(list) = n /\ \A i \in 1..n : list[i] \in files
  BY <1>1, <1>2
<1>5. ListsPackable(list)
  BY <1>1, <1>2, <1>4 DEF ListsPackable
<1>6. FilesOf(list) = files
  BY <1>2, <1>4 DEF FilesOf
<1>7. StoredOf(list) = {[path |-> PathOf(f), size |-> f.size] : f \in files}
  <2>1. \A i \in 1..n : list[i] \in files
    BY <1>4
  <2>2. StoredOf(list) = {[path |-> PathOf(list[i]), size |-> list[i].size] : i \in 1..n}
    BY <1>4 DEF StoredOf
  <2> QED
    BY <1>2, <2>1, <2>2
<1> QED
  BY <1>3, <1>4, <1>5, <1>6, <1>7 DEF n

(***************************************************************************)
(* What `sth send` packs is stored, under the paths that the server makes  *)
(* of the names; a site whose entry is packed, whose names become paths    *)
(* none of which lies below another, and that is within the limits, is     *)
(* accepted.                                                               *)
(***************************************************************************)
THEOREM AnySiteArrives ==
    ASSUME NEW tree \in Sites, NEW denied, NEW entry \in Seq(Names), entry # <<>>, NEW root \in Seq(Names),
           NEW hasRoot \in BOOLEAN, NEW single \in BOOLEAN, NEW body
    PROVE  SendsArrive(tree, denied, entry, hasRoot, root, single, body)
<1> DEFINE sent == Send(tree, denied, entry, hasRoot, root, single)
           got == Receive(sent.entry, Posted(sent.files), body)
           dir == Packing(entry, hasRoot, root)
           sentAs == {[path |-> NormalizeArchivePath(f.name), size |-> f.size] : f \in sent.files}
           regular == /\ ~HiddenPath(sent.entry) /\ \A f \in tree : f.path = entry => ~f.link
                      /\ Listed(entry, dir, denied)
           plain == /\ single \/ regular
                    /\ \A f, g \in sentAs : f.path # NoPath /\ ~IsStrictPrefix(f.path, g.path)
                    /\ Cardinality(sent.files) <= MaxFiles /\ SumOfSizes(sent.files) <= MaxBytes
                    /\ body <= MaxBytes
           path == NormalizeArchivePath(sent.entry)
           kept == /\ got.files \subseteq sentAs
                   /\ \A f \in sentAs : \E g \in got.files : g.path = f.path
                   /\ \E f \in got.files : f.path = path
<1>1. SendsArrive(tree, denied, entry, hasRoot, root, single, body)
          = (sent.sent => (got.code = 201 => kept) /\ (plain => got.code = 201))
  BY Zenon DEF SendsArrive
<1> SUFFICES ASSUME sent.sent PROVE (got.code = 201 => kept) /\ (plain => got.code = 201)
  BY <1>1
<1>2. SentFrom(tree, denied, entry, dir, single, sent)
  BY SentIsPackable
<1>3. ASSUME plain PROVE \E f \in sent.files : f.name = sent.entry
  BY <1>3, EntryIsPacked
<1> HIDE DEF sent, dir, regular
<1>4. Packable(sent.files) /\ sent.entry \in Seq(Names) /\ sent.entry # <<>> /\ Last(sent.entry) \in HTML
  BY <1>2 DEF SentFrom
<1>5. sentAs = {[path |-> PathOf(f), size |-> f.size] : f \in sent.files}
  BY DEF PathOf
<1> HIDE DEF sentAs
<1>6. PICK list \in Seq(Packs) :
               /\ ListsPackable(list) /\ PostAll(list) = Posted(sent.files)
               /\ Len(list) = Cardinality(sent.files) /\ FilesOf(list) = sent.files /\ StoredOf(list) = sentAs
  BY <1>4, <1>5, PostedIs
<1> DEFINE archive == Posted(sent.files)
           end == ExtractAll(archive)
<1>7. PostedSoFar(list)
  BY <1>6, PostsArrive
<1>8. \A i \in 1..Len(list) : [path |-> PathOf(list[i]), size |-> list[i].size] \in sentAs
  BY <1>6 DEF StoredOf
<1>9. end.ok => end.files \subseteq sentAs /\ \A f \in sentAs : \E g \in end.files : g.path = f.path
  <2>1. end.ok => /\ end.files \subseteq StoredOf(list)
                  /\ \A i \in 1..Len(list) : \E g \in end.files : g.path = PathOf(list[i])
    BY <1>6, <1>7 DEF PostedSoFar
  <2>2. \A f \in sentAs : \E i \in 1..Len(list) : f.path = PathOf(list[i])
    BY <1>6 DEF StoredOf
  <2> QED
    BY <1>6, <2>1, <2>2
<1>10. ASSUME plain PROVE end.ok
  <2>1. Acceptable(list)
    BY <1>8, <1>10 DEF Acceptable
  <2>2. SumOfSizes(FilesOf(list)) <= MaxBytes
    BY <1>6, <1>10
  <2> QED
    BY <1>6, <1>7, <2>1, <2>2 DEF PostedSoFar
<1>11. Len(archive) = Cardinality(sent.files)
  <2>1. Len(list) \in Nat /\ PostAll(list) = [i \in 1..Len(list) |-> PostOf(list[i])]
    BY DEF PostAll
  <2>2. Len(PostAll(list)) = Len(list)
    BY <2>1
  <2> QED
    BY <1>6, <2>2
<1>12. path # NoPath => Last(path) \in HTML
  <2>1. sent.entry \in RawPaths
    BY <1>4, DoneIs DEF RawPaths
  <2> QED
    BY <1>4, <2>1, NormalizedEndIs
<1> DEFINE accepted == /\ body <= MaxBytes
                       /\ path # NoPath /\ Last(path) \in HTML
                       /\ Len(archive) <= MaxFiles /\ end.ok
                       /\ \E f \in end.files : f.path = path
<1>13. got = [code |-> IF accepted THEN 201 ELSE 400, files |-> IF accepted THEN end.files ELSE {}]
  BY DEF Receive
<1> HIDE DEF got, archive, end, path
<1>14. got.code = 201 <=> accepted
  <2> HIDE DEF accepted
  <2> QED
    BY <1>13
<1>15. ASSUME got.code = 201
       PROVE  /\ got.files \subseteq sentAs
              /\ \A f \in sentAs : \E g \in got.files : g.path = f.path
              /\ \E f \in got.files : f.path = path
  <2>1. accepted /\ got.files = end.files
    BY <1>13, <1>14, <1>15
  <2> QED
    BY <1>9, <2>1
<1>16. ASSUME plain PROVE got.code = 201
  <2>1. PICK f \in sent.files : f.name = sent.entry
    <3> HIDE DEF plain
    <3> QED
      BY <1>3, <1>16
  <2>2. [path |-> path, size |-> f.size] \in sentAs
    BY <1>5, <2>1 DEF path, PathOf
  <2>3. \E g \in end.files : g.path = path
    BY <1>9, <1>10, <1>16, <2>2
  <2>4. path # NoPath
    BY <1>16, <2>2
  <2>5. Len(archive) <= MaxFiles /\ body <= MaxBytes /\ end.ok
    <3>1. end.ok
      <4> HIDE DEF plain
      <4> QED
        BY <1>10, <1>16
    <3> QED
      BY <1>11, <1>16, <3>1
  <2> HIDE DEF plain
  <2> QED
    BY <1>12, <1>14, <2>3, <2>4, <2>5
<1> HIDE DEF plain
<1> QED
  BY <1>15, <1>16

(***************************************************************************)
(* Taking the switches out of a line.                                      *)
(***************************************************************************)
Args == [kind : {"word", "flag", "setting"}, name : Words \cup Flags \cup Switches, value : Values \cup {""}]
Is(a, switch) == a.kind # "word" /\ a.name = switch
Mine(args, switch) == {i \in DOMAIN args : args[i].kind # "word" /\ args[i].name = switch}
Hits(args, switch) == Entries(args, Mine(args, switch))
Rest(args, switch) == Entries(args, DOMAIN args \ Mine(args, switch))

\* popBoolFlag on one more argument.
LEMMA PopAppend ==
    ASSUME NEW args \in Seq(Args), NEW a \in Args, NEW switch
    PROVE  /\ Hits(args, switch) \in Seq(Args) /\ Rest(args, switch) \in Seq(Args)
           /\ Hits(Append(args, a), switch) =
                  IF Is(a, switch) THEN Append(Hits(args, switch), a) ELSE Hits(args, switch)
           /\ Rest(Append(args, a), switch) =
                  IF Is(a, switch) THEN Rest(args, switch) ELSE Append(Rest(args, switch), a)
<1> DEFINE m == Len(args)
           t == Append(args, a)
           S == Mine(args, switch)
           R == (1..m) \ S
<1>1. /\ m \in Nat /\ DOMAIN args = 1..m /\ DOMAIN t = 1..m + 1 /\ t[m + 1] = a
      /\ \A i \in 1..m : t[i] = args[i]
  OBVIOUS
<1>2. S \in SUBSET (1..m) /\ R \in SUBSET (1..m)
  BY DEF Mine
<1>3. Hits(args, switch) \in Seq(Args) /\ Rest(args, switch) \in Seq(Args)
  BY <1>1, <1>2, EntriesIsSeq DEF Hits, Rest
<1>4. Mine(t, switch) = IF Is(a, switch) THEN S \cup {m + 1} ELSE S
  <2> HIDE DEF t, m
  <2>1. 1..m + 1 = (1..m) \cup {m + 1} /\ m + 1 \notin 1..m
    BY <1>1
  <2> QED
    BY <1>1, <2>1 DEF Mine, Is
<1>5. DOMAIN t \ Mine(t, switch) = IF Is(a, switch) THEN R ELSE R \cup {m + 1}
  <2> HIDE DEF t, m, S
  <2>1. 1..m + 1 = (1..m) \cup {m + 1} /\ m + 1 \notin 1..m
    BY <1>1
  <2> QED
    BY <1>1, <1>2, <1>4, <2>1
<1> HIDE DEF S, R
<1>6. /\ Entries(t, S) = Entries(args, S) /\ Entries(t, S \cup {m + 1}) = Append(Entries(args, S), a)
      /\ Entries(t, R) = Entries(args, R) /\ Entries(t, R \cup {m + 1}) = Append(Entries(args, R), a)
  <2>1. Entries(t, S) = Entries(args, S) /\ Entries(t, S \cup {m + 1}) = Append(Entries(args, S), a)
    BY <1>2, EntriesAppend
  <2>2. Entries(t, R) = Entries(args, R) /\ Entries(t, R \cup {m + 1}) = Append(Entries(args, R), a)
    BY <1>2, EntriesAppend
  <2> QED
    BY <2>1, <2>2
<1>7. Hits(args, switch) = Entries(args, S) /\ Rest(args, switch) = Entries(args, R)
  BY <1>1 DEF Hits, Rest, S, R
<1> HIDE DEF t, m
<1> QED
  BY <1>3, <1>4, <1>5, <1>6, <1>7 DEF Hits, Rest, t

\* The line after each switch that runStart takes out, and what it took out.
NoAuth(args) == Rest(args, "auth")
NoProtect(args) == Rest(NoAuth(args), "protect-previews")
Left(args) == Rest(NoProtect(args), "allow-registration")
Heard(args) == [auth |-> Hits(args, "auth"), protect |-> Hits(NoAuth(args), "protect-previews"),
                register |-> Hits(NoProtect(args), "allow-registration")]
Place == [s \in Switches |-> IF s = "auth" THEN "auth" ELSE IF s = "protect-previews" THEN "protect" ELSE "register"]
HeardOf(args, switch) == Heard(args)[Place[switch]]

\* The same when the argument may have been taken out already.
Popped(args, next, a, switch, gone) ==
    /\ Hits(args, switch) \in Seq(Args) /\ Rest(args, switch) \in Seq(Args)
    /\ Hits(next, switch) = IF Is(a, switch) /\ ~gone THEN Append(Hits(args, switch), a) ELSE Hits(args, switch)
    /\ Rest(next, switch) = IF gone \/ Is(a, switch) THEN Rest(args, switch) ELSE Append(Rest(args, switch), a)

\* The same when an earlier popBoolFlag may have taken the argument out.
LEMMA PopNext ==
    ASSUME NEW args \in Seq(Args), NEW a \in Args, NEW switch, NEW gone \in BOOLEAN,
           NEW next, next = IF gone THEN args ELSE Append(args, a)
    PROVE  Popped(args, next, a, switch, gone)
BY PopAppend DEF Popped

\* The three switches taken out one after the other, on one more argument:
\* each finds its own, and the rest leaves all of them out (runStart).
LEMMA LineAppend ==
    ASSUME NEW args \in Seq(Args), NEW a \in Args
    PROVE  /\ Left(args) \in Seq(Args) /\ \A s \in Switches : HeardOf(args, s) \in Seq(Args)
           /\ \A s \in Switches : HeardOf(Append(args, a), s) =
                  IF Is(a, s) THEN Append(HeardOf(args, s), a) ELSE HeardOf(args, s)
           /\ Left(Append(args, a)) =
                  IF a.kind # "word" /\ a.name \in Switches THEN Left(args) ELSE Append(Left(args), a)
<1> DEFINE t == Append(args, a)
<1>1. /\ HeardOf(args, "auth") = Hits(args, "auth") /\ HeardOf(t, "auth") = Hits(t, "auth")
      /\ HeardOf(args, "protect-previews") = Hits(NoAuth(args), "protect-previews")
      /\ HeardOf(t, "protect-previews") = Hits(NoAuth(t), "protect-previews")
      /\ HeardOf(args, "allow-registration") = Hits(NoProtect(args), "allow-registration")
      /\ HeardOf(t, "allow-registration") = Hits(NoProtect(t), "allow-registration")
  BY DEF HeardOf, Heard, Place, Switches
<1> HIDE DEF t
<1>2. /\ Hits(args, "auth") \in Seq(Args) /\ NoAuth(args) \in Seq(Args)
      /\ Hits(t, "auth") = IF Is(a, "auth") THEN Append(Hits(args, "auth"), a) ELSE Hits(args, "auth")
      /\ NoAuth(t) = IF Is(a, "auth") THEN NoAuth(args) ELSE Append(NoAuth(args), a)
  BY PopAppend DEF NoAuth, t
<1> DEFINE pp == "protect-previews"
           ar == "allow-registration"
<1>3. /\ Hits(NoAuth(args), pp) \in Seq(Args) /\ NoProtect(args) \in Seq(Args)
      /\ Hits(NoAuth(t), pp) = IF Is(a, pp) /\ ~Is(a, "auth") THEN Append(Hits(NoAuth(args), pp), a)
                                 ELSE Hits(NoAuth(args), pp)
      /\ NoProtect(t) = IF Is(a, "auth") \/ Is(a, pp) THEN NoProtect(args) ELSE Append(NoProtect(args), a)
  <2>1. NoAuth(args) \in Seq(Args) /\ Is(a, "auth") \in BOOLEAN
    BY <1>2 DEF Is
  <2>2. NoAuth(t) = IF Is(a, "auth") THEN NoAuth(args) ELSE Append(NoAuth(args), a)
    BY <1>2
  <2>3. Popped(NoAuth(args), NoAuth(t), a, "protect-previews", Is(a, "auth"))
    BY <2>1, <2>2, PopNext
  <2> QED
    BY <2>3 DEF Popped, NoProtect
<1>4. /\ Hits(NoProtect(args), ar) \in Seq(Args) /\ Left(args) \in Seq(Args)
      /\ Hits(NoProtect(t), ar) = IF Is(a, ar) /\ ~Is(a, "auth") /\ ~Is(a, pp)
                                    THEN Append(Hits(NoProtect(args), ar), a) ELSE Hits(NoProtect(args), ar)
      /\ Left(t) = IF Is(a, "auth") \/ Is(a, pp) \/ Is(a, ar) THEN Left(args) ELSE Append(Left(args), a)
  <2> DEFINE gone == Is(a, "auth") \/ Is(a, pp)
  <2>1. NoProtect(args) \in Seq(Args) /\ gone \in BOOLEAN
    BY <1>3 DEF Is
  <2>2. NoProtect(t) = IF gone THEN NoProtect(args) ELSE Append(NoProtect(args), a)
    BY <1>3
  <2> HIDE DEF gone
  <2>3. Popped(NoProtect(args), NoProtect(t), a, "allow-registration", gone)
    BY <2>1, <2>2, PopNext
  <2> QED
    BY <2>3 DEF Popped, Left, gone
<1>5. /\ Is(a, pp) => ~Is(a, "auth")
      /\ Is(a, ar) => ~Is(a, "auth") /\ ~Is(a, pp)
      /\ (Is(a, "auth") \/ Is(a, pp) \/ Is(a, ar)) <=> (a.kind # "word" /\ a.name \in Switches)
  BY DEF Is, Switches
<1>6. \A s \in Switches : s = "auth" \/ s = pp \/ s = ar
  BY DEF Switches
<1>7. \A s \in Switches : HeardOf(args, s) \in Seq(Args)
  BY <1>1, <1>2, <1>3, <1>4, <1>6
<1>8. \A s \in Switches : HeardOf(t, s) = IF Is(a, s) THEN Append(HeardOf(args, s), a) ELSE HeardOf(args, s)
  BY <1>1, <1>2, <1>3, <1>4, <1>5, <1>6
<1> QED
  BY <1>4, <1>5, <1>7, <1>8 DEF t

(***************************************************************************)
(* Parsing what is left.                                                   *)
(***************************************************************************)
N == Words \cup Flags \cup Switches
States == [ok : BOOLEAN, flags : SUBSET (Args \X N), positionals : Seq(N), open : Seq(Args)]

\* One round of parseArgs keeps the type of its result.
LEMMA ParseOneIs ==
    ASSUME NEW st \in States, NEW a \in Args
    PROVE  ParseOne(st, a) \in States
<1>1. a.name \in N
  BY DEF Args, N
<1>2. CASE a.kind = "word" /\ st.open = <<>>
  <2>1. Append(st.positionals, a.name) \in Seq(N)
    BY <1>1 DEF States
  <2> QED
    BY <1>2, <2>1 DEF ParseOne, States
<1>3. CASE a.kind = "word" /\ st.open # <<>>
  <2>1. st.open \in Seq(Args) /\ st.open[1] \in Args
    BY <1>3 DEF States
  <2>2. st.flags \cup {<<st.open[1], a.name>>} \in SUBSET (Args \X N)
    BY <1>1, <2>1 DEF States
  <2>3. <<>> \in Seq(Args)
    OBVIOUS
  <2> QED
    BY <1>3, <2>2, <2>3 DEF ParseOne, States
<1>4. CASE a.kind # "word"
  <2>1. <<a>> \in Seq(Args)
    OBVIOUS
  <2> QED
    BY <1>4, <2>1 DEF ParseOne, States
<1> QED
  BY <1>2, <1>3, <1>4

\* parseArgs goes through its arguments one by one.
LEMMA ParseAllIs ==
    /\ ParseAll(<<>>) = NothingParsed /\ NothingParsed \in States
    /\ \A args \in Seq(Args) : ParseAll(args) \in States
    /\ \A args \in Seq(Args), a \in Args : ParseAll(Append(args, a)) = ParseOne(ParseAll(args), a)
<1> DEFINE step == [q \in States \X Args |-> ParseOne(q[1], q[2])]
           run(s) == CHOOSE f : f = [n \in 0..Len(s) |-> IF n = 0 THEN NothingParsed ELSE ParseOne(f[n - 1], s[n])]
<1>1. IsFold(step, States, Args)
  <2>1. step \in [States \X Args -> States]
    BY ParseOneIs
  <2> QED
    BY <2>1 DEF IsFold
<1>2. \A d \in States, a \in Args : step[<<d, a>>] = ParseOne(d, a)
  OBVIOUS
<1>3. NothingParsed \in States
  <2>1. <<>> \in Seq(N) /\ <<>> \in Seq(Args)
    OBVIOUS
  <2> QED
    BY <2>1 DEF NothingParsed, States
<1> HIDE DEF step
<1>4. ASSUME NEW s \in Seq(Args)
      PROVE  Runs(run(s), step, States, NothingParsed, s) /\ ParseAll(s) = run(s)[Len(s)]
  <2>1. PICK f \in [0..Len(s) -> States] :
            f = [n \in 0..Len(s) |-> IF n = 0 THEN NothingParsed ELSE step[<<f[n - 1], s[n]>>]]
    BY <1>1, <1>3, RunExists
  <2>2. Len(s) \in Nat /\ \A n \in 1..Len(s) : n \in 0..Len(s) /\ s[n] \in Args
    OBVIOUS
  <2>3. ASSUME NEW n \in 0..Len(s), n # 0 PROVE step[<<f[n - 1], s[n]>>] = ParseOne(f[n - 1], s[n])
    <3>1. n \in 1..Len(s) /\ n - 1 \in 0..Len(s)
      BY <2>2, <2>3
    <3> QED
      BY <1>2, <2>2, <3>1
  <2>4. f = [n \in 0..Len(s) |-> IF n = 0 THEN NothingParsed ELSE ParseOne(f[n - 1], s[n])]
    BY <2>1, <2>3
  <2> DEFINE g == run(s)
  <2>5. g = [n \in 0..Len(s) |-> IF n = 0 THEN NothingParsed ELSE ParseOne(g[n - 1], s[n])]
    BY <2>4
  <2>6. ParseAll(s) = g[Len(s)]
    BY DEF ParseAll
  <2> HIDE DEF g
  <2>7. Runs(g, step, States, NothingParsed, s)
    BY <1>2, <2>2, <2>5 DEF Runs
  <2> QED
    BY <2>6, <2>7 DEF g
<1> HIDE DEF run
<1>5. ParseAll(<<>>) = NothingParsed
  <2>1. <<>> \in Seq(Args) /\ Len(<<>>) = 0
    OBVIOUS
  <2> QED
    BY <1>4, <2>1 DEF Runs
<1>6. ASSUME NEW s \in Seq(Args), NEW a \in Args
      PROVE  ParseAll(s) \in States /\ ParseAll(Append(s, a)) = ParseOne(ParseAll(s), a)
  <2>1. Append(s, a) \in Seq(Args) /\ Len(Append(s, a)) = Len(s) + 1
    BY AppendProperties
  <2>2. /\ Runs(run(s), step, States, NothingParsed, s) /\ ParseAll(s) = run(s)[Len(s)]
        /\ Runs(run(Append(s, a)), step, States, NothingParsed, Append(s, a))
        /\ ParseAll(Append(s, a)) = run(Append(s, a))[Len(s) + 1]
    BY <1>4, <2>1
  <2>3. run(s)[Len(s)] \in States /\ run(Append(s, a))[Len(s) + 1] = step[<<run(s)[Len(s)], a>>]
    BY <1>1, <1>3, <2>2, RunsMeet
  <2> QED
    BY <1>2, <2>2, <2>3
<1>7. \A s \in Seq(Args) : ParseAll(s) \in States
  <2>1. [kind |-> "word", name |-> "auth", value |-> ""] \in Args
    BY DEF Args, Switches
  <2> QED
    BY <1>6, <2>1
<1> QED
  BY <1>3, <1>5, <1>6, <1>7

(***************************************************************************)
(* What the pieces of a line say, and how one more piece adds to it.       *)
(***************************************************************************)
Named(q, x) == q[1].kind # "word" /\ q[1].name = x
Once(pieces, x) == \E i \in DOMAIN pieces : Named(pieces[i], x)
Twice(pieces, x) == \E i, j \in DOMAIN pieces : i # j /\ Named(pieces[i], x) /\ Named(pieces[j], x)
Said(pieces, switch) == {pieces[i][1] : i \in {k \in DOMAIN pieces : Named(pieces[k], switch)}}
WordPieces(pieces) == Entries(pieces, {i \in DOMAIN pieces : IsWord(pieces[i])})
WordsOf(pieces) == LET words == WordPieces(pieces) IN [i \in DOMAIN words |-> words[i][1].name]
FlagsOf(pieces) ==
    LET flags == {pieces[i] : i \in {k \in DOMAIN pieces : IsFlag(pieces[k])}}
    IN  {<<f[1], f[2].name>> : f \in flags}

\* The three kinds of pieces.
IsWordPiece(q) == \E a \in Args : q = <<a>> /\ a.kind = "word" /\ a.name \in Words
IsFlagPiece(q) ==
    \E a, b \in Args : /\ q = <<a, b>> /\ a = Flag(a.name) /\ a.name \in Flags /\ a # Flag("")
                       /\ b.kind = "word" /\ b.name \in Words
IsSwitchPiece(q) ==
    \E a \in Args : /\ q = <<a>> /\ a.kind # "word" /\ a.name \in Switches
                    /\ (a.kind = "flag" => a = Flag(a.name))

\* A piece is a word, a flag with its value, or a switch.
LEMMA PieceIs ==
    ASSUME NEW q \in Pieces
    PROVE  q \in Seq(Args) /\ (IsWordPiece(q) \/ IsFlagPiece(q) \/ IsSwitchPiece(q))
<1>1. CASE q \in {<<Word(w)>> : w \in Words}
  <2>1. PICK w \in Words : q = <<Word(w)>>
    BY <1>1
  <2>2. Word(w) \in Args /\ Word(w).kind = "word" /\ Word(w).name \in Words
    BY DEF Word, Args
  <2> QED
    BY <2>1, <2>2 DEF IsWordPiece
<1>2. CASE q \in {<<Flag(f), Word(w)>> : f \in Flags, w \in Words}
  <2>1. PICK f \in Flags, w \in Words : q = <<Flag(f), Word(w)>>
    BY <1>2
  <2>2. Word(w) \in Args /\ Word(w).kind = "word" /\ Word(w).name \in Words
    BY DEF Word, Args
  <2>3. Flag(f) \in Args /\ Flag(f).name = f
    BY DEF Flag, Args
  <2>4. Flag("").name = "" /\ f # ""
    BY FlagsAssumption DEF Flag
  <2> DEFINE a == Flag(f)
             b == Word(w)
  <2>5. q = <<a, b>> /\ a \in Args /\ b \in Args
    BY <2>1, <2>2, <2>3
  <2>6. a = Flag(a.name) /\ a.name \in Flags /\ a # Flag("") /\ b.kind = "word" /\ b.name \in Words
    BY <2>2, <2>3, <2>4
  <2> HIDE DEF a, b
  <2>7. IsFlagPiece(q)
    BY <2>5, <2>6 DEF IsFlagPiece
  <2>8. q \in Seq(Args)
    BY <2>5
  <2> QED
    BY <2>7, <2>8
<1>3. CASE q \in {<<Flag(s)>> : s \in Switches}
  <2>1. PICK s \in Switches : q = <<Flag(s)>>
    BY <1>3
  <2>2. Flag(s) \in Args /\ Flag(s).name = s /\ Flag(s).kind = "flag"
    BY DEF Flag, Args
  <2> QED
    BY <2>1, <2>2 DEF IsSwitchPiece
<1>4. CASE q \in {<<Setting(s, v)>> : s \in Switches, v \in Values}
  <2>1. PICK s \in Switches, v \in Values : q = <<Setting(s, v)>>
    BY <1>4
  <2>2. Setting(s, v) \in Args /\ Setting(s, v).name = s /\ Setting(s, v).kind = "setting"
    BY DEF Setting, Args
  <2> QED
    BY <2>1, <2>2 DEF IsSwitchPiece
<1> QED
  BY <1>1, <1>2, <1>3, <1>4 DEF Pieces

\* What each kind of piece names.
LEMMA PieceSays ==
    ASSUME NEW q
    PROVE  /\ IsWordPiece(q) => IsWord(q) /\ ~IsFlag(q) /\ ~IsSwitch(q) /\ \A x : ~Named(q, x)
           /\ IsFlagPiece(q) => /\ ~IsWord(q) /\ IsFlag(q) /\ ~IsSwitch(q)
                                /\ \A x : Named(q, x) <=> q[1] = Flag(x) /\ x \in Flags
           /\ IsSwitchPiece(q) => /\ ~IsWord(q) /\ ~IsFlag(q) /\ IsSwitch(q)
                                  /\ \A x : Named(q, x) => x \in Switches /\ x \notin Flags
<1>1. ASSUME IsWordPiece(q) PROVE IsWord(q) /\ ~IsFlag(q) /\ ~IsSwitch(q) /\ \A x : ~Named(q, x)
  <2>1. PICK a \in Args : q = <<a>> /\ a.kind = "word"
    BY <1>1 DEF IsWordPiece
  <2> QED
    BY <2>1 DEF IsWord, IsFlag, IsSwitch, Named
<1>2. ASSUME IsFlagPiece(q)
      PROVE  /\ ~IsWord(q) /\ IsFlag(q) /\ ~IsSwitch(q)
             /\ \A x : Named(q, x) <=> q[1] = Flag(x) /\ x \in Flags
  <2>1. PICK a \in Args, b \in Args : q = <<a, b>> /\ a = Flag(a.name) /\ a.name \in Flags
    BY <1>2 DEF IsFlagPiece
  <2>2. \A x : Flag(x).name = x /\ Flag(x).kind = "flag"
    BY DEF Flag
  <2>3. q[1] = a /\ Len(q) = 2
    BY <2>1
  <2>4. a.kind = "flag"
    BY <2>1, <2>2
  <2>5. \A x : Named(q, x) <=> q[1] = Flag(x) /\ x \in Flags
    BY <2>1, <2>2, <2>3, <2>4 DEF Named
  <2> QED
    BY <2>3, <2>5 DEF IsWord, IsFlag, IsSwitch
<1>3. ASSUME IsSwitchPiece(q)
      PROVE  /\ ~IsWord(q) /\ ~IsFlag(q) /\ IsSwitch(q)
             /\ \A x : Named(q, x) => x \in Switches /\ x \notin Flags
  <2>1. PICK a \in Args : q = <<a>> /\ a.kind # "word" /\ a.name \in Switches
    BY <1>3 DEF IsSwitchPiece
  <2>2. q[1] = a /\ Len(q) = 1
    BY <2>1
  <2>3. ~IsWord(q) /\ ~IsFlag(q) /\ IsSwitch(q)
    BY <2>1, <2>2 DEF IsWord, IsFlag, IsSwitch
  <2>4. \A x : Named(q, x) => x \in Switches /\ x \notin Flags
    BY <2>1, <2>2, FlagsAssumption DEF Named
  <2> QED
    BY <2>3, <2>4
<1> QED
  BY <1>1, <1>2, <1>3

\* What one more piece adds to what a line says.
LEMMA SaysAppend ==
    ASSUME NEW p \in Seq(Pieces), NEW q \in Pieces
    PROVE  /\ \A x : Once(Append(p, q), x) <=> Once(p, x) \/ Named(q, x)
           /\ \A x : Twice(Append(p, q), x) <=> Twice(p, x) \/ (Once(p, x) /\ Named(q, x))
           /\ \A x : Said(Append(p, q), x) = Said(p, x) \cup (IF Named(q, x) THEN {q[1]} ELSE {})
           /\ FlagsOf(Append(p, q)) = FlagsOf(p) \cup (IF IsFlag(q) THEN {<<q[1], q[2].name>>} ELSE {})
           /\ WordsOf(Append(p, q)) = IF IsWord(q) THEN Append(WordsOf(p), q[1].name) ELSE WordsOf(p)
<1> DEFINE t == Append(p, q)
           m == Len(p)
<1>1. /\ m \in Nat /\ DOMAIN p = 1..m /\ DOMAIN t = 1..m + 1 /\ t[m + 1] = q
      /\ \A i \in 1..m : t[i] = p[i]
  OBVIOUS
<1>2. 1..m + 1 = (1..m) \cup {m + 1} /\ m + 1 \notin 1..m
  BY <1>1
<1> HIDE DEF t, m
<1>3. ASSUME NEW x PROVE Once(t, x) <=> Once(p, x) \/ Named(q, x)
  BY <1>1, <1>2 DEF Once
<1>4. ASSUME NEW x PROVE Twice(t, x) <=> Twice(p, x) \/ (Once(p, x) /\ Named(q, x))
  BY <1>1, <1>2 DEF Once, Twice
<1>5. ASSUME NEW x PROVE Said(t, x) = Said(p, x) \cup (IF Named(q, x) THEN {q[1]} ELSE {})
  BY <1>1, <1>2 DEF Said
<1>6. FlagsOf(t) = FlagsOf(p) \cup (IF IsFlag(q) THEN {<<q[1], q[2].name>>} ELSE {})
  <2>1. \A s : FlagsOf(s) = {<<s[i][1], s[i][2].name>> : i \in {k \in DOMAIN s : IsFlag(s[k])}}
    BY DEF FlagsOf
  <2> QED
    BY <1>1, <1>2, <2>1
<1>7. WordsOf(t) = IF IsWord(q) THEN Append(WordsOf(p), q[1].name) ELSE WordsOf(p)
  <2> DEFINE S == {i \in 1..m : IsWord(p[i])}
             w == WordPieces(p)
  <2>1. {i \in DOMAIN t : IsWord(t[i])} = IF IsWord(q) THEN S \cup {m + 1} ELSE S
    BY <1>1, <1>2
  <2>2. S \in SUBSET (1..Len(p))
    BY DEF m
  <2> HIDE DEF S
  <2>3. Entries(t, S) = Entries(p, S) /\ Entries(t, S \cup {m + 1}) = Append(Entries(p, S), q)
    BY <2>2, EntriesAppend DEF t, m
  <2>4. WordPieces(t) = IF IsWord(q) THEN Append(w, q) ELSE w
    BY <1>1, <2>1, <2>3 DEF WordPieces, S
  <2>5. w \in Seq(Pieces)
    BY <1>1, <2>2, EntriesIsSeq DEF WordPieces, S, m
  <2> DEFINE n == Len(w)
             names(s) == [i \in DOMAIN s |-> s[i][1].name]
             u == Append(w, q)
  <2>6. n \in Nat /\ DOMAIN w = 1..n
    BY <2>5
  <2>7. u \in Seq(Pieces) /\ DOMAIN u = 1..n + 1 /\ u[n + 1] = q /\ \A i \in 1..n : u[i] = w[i]
    BY <2>5, AppendProperties
  <2> HIDE DEF w, n, u
  <2>8. names(u) = [i \in 1..n + 1 |-> IF i = n + 1 THEN q[1].name ELSE names(w)[i]]
    <3>1. ASSUME NEW i \in 1..n + 1
          PROVE  u[i][1].name = IF i = n + 1 THEN q[1].name ELSE names(w)[i]
      <4>1. i = n + 1 \/ i \in 1..n
        BY <2>6
      <4> QED
        BY <2>6, <2>7, <4>1
    <3> QED
      BY <2>7, <3>1
  <2>9. Append(names(w), q[1].name) = [i \in 1..n + 1 |-> IF i = n + 1 THEN q[1].name ELSE names(w)[i]]
    <3> DEFINE v == names(w)
    <3>1. DOMAIN v = 1..n /\ v = [i \in 1..n |-> v[i]]
      BY <2>6
    <3> HIDE DEF v
    <3>2. v \in Seq({v[i] : i \in 1..n}) /\ Len(v) = n
      BY <2>6, <3>1
    <3>3. Append(v, q[1].name) = [i \in 1..Len(v) + 1 |-> IF i = Len(v) + 1 THEN q[1].name ELSE v[i]]
      BY <3>2
    <3> QED
      BY <3>2, <3>3 DEF v
  <2>10. WordsOf(t) = names(WordPieces(t)) /\ WordsOf(p) = names(w)
    BY DEF WordsOf, w
  <2> HIDE DEF names
  <2> QED
    BY <2>4, <2>8, <2>9, <2>10 DEF u
<1> QED
  BY <1>3, <1>4, <1>5, <1>6, <1>7 DEF t

\* A flag was parsed before exactly when a piece names it.
LEMMA KnownFlag ==
    ASSUME NEW p \in Seq(Pieces), NEW x \in Flags
    PROVE  (\E f \in FlagsOf(p) : f[1] = Flag(x)) <=> Once(p, x)
<1>1. ASSUME NEW i \in DOMAIN p PROVE Named(p[i], x) <=> IsFlag(p[i]) /\ p[i][1] = Flag(x)
  <2>1. p[i] \in Pieces
    OBVIOUS
  <2> QED
    BY <2>1, PieceIs, PieceSays
<1>2. FlagsOf(p) = {<<p[i][1], p[i][2].name>> : i \in {k \in DOMAIN p : IsFlag(p[k])}}
  BY DEF FlagsOf
<1>3. ASSUME Once(p, x) PROVE \E f \in FlagsOf(p) : f[1] = Flag(x)
  <2>1. PICK i \in DOMAIN p : Named(p[i], x)
    BY <1>3 DEF Once
  <2>2. <<p[i][1], p[i][2].name>> \in FlagsOf(p) /\ p[i][1] = Flag(x)
    BY <1>1, <1>2, <2>1
  <2> QED
    BY <2>2
<1>4. ASSUME NEW f \in FlagsOf(p), f[1] = Flag(x) PROVE Once(p, x)
  <2>1. PICK i \in DOMAIN p : IsFlag(p[i]) /\ f = <<p[i][1], p[i][2].name>>
    BY <1>2
  <2>2. Named(p[i], x)
    BY <1>1, <1>4, <2>1
  <2> QED
    BY <2>2 DEF Once
<1> QED
  BY <1>3, <1>4

\* What the two passes have found once they have gone over the pieces.
HeardIs(p, hits, switch) ==
    /\ hits \in Seq(Args) /\ ToSet(hits) = Said(p, switch)
    /\ Len(hits) # 0 <=> Once(p, switch)
    /\ Len(hits) > 1 <=> Twice(p, switch)
LeftIs(p, st) ==
    /\ st \in States /\ st.open = <<>> /\ st.positionals = WordsOf(p) /\ st.flags = FlagsOf(p)
    /\ st.ok <=> \A f \in Flags : ~Twice(p, f)
LineIs(p, line) ==
    /\ line \in Seq(Args) /\ \A s \in Switches : HeardIs(p, HeardOf(line, s), s)
    /\ LeftIs(p, ParseAll(Left(line)))

\* One more piece leaves a switch as it was heard, or is heard.
LEMMA HeardAppend ==
    ASSUME NEW p \in Seq(Pieces), NEW q \in Pieces, NEW hits, NEW switch, HeardIs(p, hits, switch), NEW a \in Args
    PROVE  /\ ~Named(q, switch) => HeardIs(Append(p, q), hits, switch)
           /\ Named(q, switch) /\ a = q[1] => HeardIs(Append(p, q), Append(hits, a), switch)
<1> DEFINE t == Append(p, q)
           n == Len(hits)
           more == Append(hits, a)
<1>1. /\ Once(t, switch) <=> Once(p, switch) \/ Named(q, switch)
      /\ Twice(t, switch) <=> Twice(p, switch) \/ (Once(p, switch) /\ Named(q, switch))
      /\ Said(t, switch) = Said(p, switch) \cup (IF Named(q, switch) THEN {q[1]} ELSE {})
  BY SaysAppend
<1>2. hits \in Seq(Args) /\ n \in Nat /\ ToSet(hits) = Said(p, switch)
      /\ (n # 0 <=> Once(p, switch)) /\ (n > 1 <=> Twice(p, switch))
  BY DEF HeardIs
<1>3. more \in Seq(Args) /\ Len(more) = n + 1 /\ more[n + 1] = a /\ \A i \in 1..n : more[i] = hits[i]
  BY <1>2, AppendProperties
<1>4. DOMAIN hits = 1..n
  BY <1>2
<1> HIDE DEF t, n, more
<1>5. ASSUME ~Named(q, switch) PROVE HeardIs(t, hits, switch)
  BY <1>1, <1>2, <1>5 DEF HeardIs, n
<1>6. ASSUME Named(q, switch), a = q[1] PROVE HeardIs(t, more, switch)
  <2>1. DOMAIN more = 1..n + 1 /\ 1..n + 1 = (1..n) \cup {n + 1}
    BY <1>2, <1>3
  <2>2. ToSet(more) = ToSet(hits) \cup {a}
    BY <1>3, <1>4, <2>1 DEF ToSet
  <2>3. n + 1 # 0 /\ (n + 1 > 1 <=> n # 0) /\ (n > 1 => n # 0)
    BY <1>2
  <2> QED
    BY <1>1, <1>2, <1>3, <1>6, <2>2, <2>3 DEF HeardIs
<1> QED
  BY <1>5, <1>6 DEF t, more

\* A word on the line is read as one.
LEMMA WordAppend ==
    ASSUME NEW p \in Seq(Pieces), NEW q \in Pieces, NEW line, LineIs(p, line), IsWordPiece(q)
    PROVE  LineIs(Append(p, q), line \o q)
<1>1. PICK a \in Args : q = <<a>> /\ a.kind = "word" /\ a.name \in Words
  BY DEF IsWordPiece
<1>2. line \in Seq(Args) /\ line \o q = Append(line, a) /\ Append(line, a) \in Seq(Args)
  BY <1>1 DEF LineIs
<1>3. IsWord(q) /\ ~IsFlag(q) /\ \A x : ~Named(q, x)
  BY PieceSays
<1>4. ASSUME NEW s \in Switches PROVE HeardIs(Append(p, q), HeardOf(Append(line, a), s), s)
  <2>1. HeardOf(Append(line, a), s) = HeardOf(line, s)
    BY <1>1, <1>2, LineAppend DEF Is
  <2>2. HeardIs(p, HeardOf(line, s), s)
    BY DEF LineIs
  <2> QED
    BY <1>1, <1>3, <2>1, <2>2, HeardAppend
<1>5. LeftIs(Append(p, q), ParseAll(Left(Append(line, a))))
  <2> DEFINE st == ParseAll(Left(line))
             end == ParseAll(Left(Append(line, a)))
  <2>1. Left(line) \in Seq(Args) /\ Left(Append(line, a)) = Append(Left(line), a)
    BY <1>1, <1>2, LineAppend
  <2>2. end = ParseOne(st, a) /\ end \in States
    BY <2>1, ParseAllIs, AppendProperties
  <2>3. LeftIs(p, st)
    BY DEF LineIs
  <2> HIDE DEF st, end
  <2>4. end = [st EXCEPT !.positionals = Append(@, a.name)]
    BY <1>1, <2>2, <2>3 DEF ParseOne, LeftIs
  <2>5. end.ok = st.ok /\ end.flags = st.flags /\ end.open = <<>> /\ end.positionals = Append(st.positionals, a.name)
    BY <2>3, <2>4 DEF LeftIs, States
  <2>6. /\ FlagsOf(Append(p, q)) = FlagsOf(p) /\ WordsOf(Append(p, q)) = Append(WordsOf(p), q[1].name)
        /\ \A x : Twice(Append(p, q), x) <=> Twice(p, x)
    BY <1>3, SaysAppend
  <2>7. q[1] = a
    BY <1>1
  <2>8. LeftIs(Append(p, q), end)
    BY <2>2, <2>3, <2>5, <2>6, <2>7 DEF LeftIs
  <2> QED
    BY <2>8 DEF end
<1> QED
  BY <1>2, <1>4, <1>5 DEF LineIs

\* A switch on the line is heard and leaves no trace in the rest.
LEMMA SwitchAppend ==
    ASSUME NEW p \in Seq(Pieces), NEW q \in Pieces, NEW line, LineIs(p, line), IsSwitchPiece(q)
    PROVE  LineIs(Append(p, q), line \o q)
<1>1. PICK a \in Args : q = <<a>> /\ a.kind # "word" /\ a.name \in Switches
  BY DEF IsSwitchPiece
<1>2. line \in Seq(Args) /\ line \o q = Append(line, a) /\ Append(line, a) \in Seq(Args) /\ q[1] = a
  BY <1>1 DEF LineIs
<1>3. ~IsWord(q) /\ ~IsFlag(q) /\ \A x : Named(q, x) => x \notin Flags
  BY PieceSays
<1>4. ASSUME NEW s \in Switches PROVE HeardIs(Append(p, q), HeardOf(Append(line, a), s), s)
  <2>1. HeardOf(Append(line, a), s) = IF Is(a, s) THEN Append(HeardOf(line, s), a) ELSE HeardOf(line, s)
    BY <1>1, <1>2, LineAppend
  <2>2. HeardIs(p, HeardOf(line, s), s)
    BY DEF LineIs
  <2>3. Is(a, s) <=> Named(q, s)
    BY <1>2 DEF Is, Named
  <2> QED
    BY <1>2, <2>1, <2>2, <2>3, HeardAppend
<1>5. LeftIs(Append(p, q), ParseAll(Left(Append(line, a))))
  <2> DEFINE st == ParseAll(Left(line))
  <2>1. Left(Append(line, a)) = Left(line)
    BY <1>1, <1>2, LineAppend
  <2>2. LeftIs(p, st)
    BY DEF LineIs
  <2> HIDE DEF st
  <2>3. /\ FlagsOf(Append(p, q)) = FlagsOf(p) /\ WordsOf(Append(p, q)) = WordsOf(p)
        /\ \A x \in Flags : Twice(Append(p, q), x) <=> Twice(p, x)
    BY <1>3, SaysAppend
  <2>4. LeftIs(Append(p, q), st)
    BY <2>2, <2>3 DEF LeftIs
  <2> QED
    BY <2>1, <2>4 DEF st
<1> QED
  BY <1>2, <1>4, <1>5 DEF LineIs

\* A flag on the line takes the word after it.
LEMMA FlagAppend ==
    ASSUME NEW p \in Seq(Pieces), NEW q \in Pieces, NEW line, LineIs(p, line), IsFlagPiece(q)
    PROVE  LineIs(Append(p, q), line \o q)
<1>1. PICK a \in Args, b \in Args :
          /\ q = <<a, b>> /\ a = Flag(a.name) /\ a.name \in Flags /\ a # Flag("")
          /\ b.kind = "word" /\ b.name \in Words
  BY DEF IsFlagPiece
<1>2. /\ line \in Seq(Args) /\ line \o q = Append(Append(line, a), b) /\ q[1] = a /\ q[2] = b
      /\ Append(line, a) \in Seq(Args) /\ Append(Append(line, a), b) \in Seq(Args)
  <2>1. line \in Seq(Args)
    BY DEF LineIs
  <2>2. Append(line, a) \in Seq(Args) /\ Append(Append(line, a), b) \in Seq(Args)
    BY <2>1, AppendProperties
  <2>3. line \o <<a, b>> = Append(Append(line, a), b)
    BY <2>1
  <2> QED
    BY <1>1, <2>1, <2>2, <2>3
<1>3. ~IsWord(q) /\ IsFlag(q) /\ \A x : Named(q, x) <=> q[1] = Flag(x) /\ x \in Flags
  BY PieceSays
<1>4. a.kind = "flag" /\ a.name \notin Switches /\ \A x : a = Flag(x) <=> x = a.name
  <2>1. \A x : Flag(x).kind = "flag" /\ Flag(x).name = x
    BY DEF Flag
  <2> QED
    BY <1>1, <2>1, FlagsAssumption
<1> DEFINE l1 == Append(line, a)
           l2 == Append(l1, b)
<1>5. ASSUME NEW s \in Switches PROVE HeardIs(Append(p, q), HeardOf(l2, s), s)
  <2>1. HeardOf(l1, s) = HeardOf(line, s)
    <3>1. ~Is(a, s)
      BY <1>4 DEF Is
    <3> QED
      BY <1>2, <3>1, LineAppend
  <2>2. HeardOf(l2, s) = HeardOf(l1, s)
    <3>1. ~Is(b, s)
      BY <1>1 DEF Is
    <3> QED
      BY <1>2, <3>1, LineAppend
  <2>3. HeardIs(p, HeardOf(line, s), s)
    BY DEF LineIs
  <2>4. ~Named(q, s)
    BY <1>3, FlagsAssumption
  <2> HIDE DEF l1, l2
  <2> QED
    BY <1>1, <2>1, <2>2, <2>3, <2>4, HeardAppend
<1>6. LeftIs(Append(p, q), ParseAll(Left(l2)))
  <2> DEFINE st == ParseAll(Left(line))
             open == ParseAll(Left(l1))
             end == ParseAll(Left(l2))
  <2>1. Left(line) \in Seq(Args) /\ Left(l1) = Append(Left(line), a)
    BY <1>2, <1>4, LineAppend
  <2>2. Left(l1) \in Seq(Args) /\ Left(l2) = Append(Left(l1), b)
    BY <1>1, <1>2, LineAppend
  <2> HIDE DEF l1, l2
  <2>3. open = ParseOne(st, a)
    BY <2>1, ParseAllIs
  <2>4. end = ParseOne(open, b) /\ end \in States
    BY <2>2, ParseAllIs, AppendProperties
  <2>5. LeftIs(p, st)
    BY DEF LineIs
  <2> HIDE DEF st, open, end
  <2>6. /\ open.ok = (st.ok /\ ~\E f \in st.flags : f[1] = a)
        /\ open.flags = st.flags /\ open.positionals = st.positionals /\ open.open = <<a>>
    BY <1>1, <1>4, <2>3, <2>5 DEF ParseOne, LeftIs
  <2>7. /\ end.ok = open.ok /\ end.flags = open.flags \cup {<<a, b.name>>}
        /\ end.positionals = open.positionals /\ end.open = <<>>
    <3>1. <<a>> # <<>> /\ <<a>>[1] = a
      OBVIOUS
    <3>2. end = [ok |-> open.ok, flags |-> open.flags \cup {<<a, b.name>>},
                 positionals |-> open.positionals, open |-> <<>>]
      BY <1>1, <2>4, <2>6, <3>1 DEF ParseOne
    <3> QED
      BY <3>2
  <2>8. /\ FlagsOf(Append(p, q)) = FlagsOf(p) \cup {<<a, b.name>>} /\ WordsOf(Append(p, q)) = WordsOf(p)
        /\ \A x : Twice(Append(p, q), x) <=> Twice(p, x) \/ (Once(p, x) /\ Named(q, x))
    BY <1>2, <1>3, SaysAppend
  <2>9. (\E f \in st.flags : f[1] = a) <=> Once(p, a.name)
    <3>1. st.flags = FlagsOf(p)
      BY <2>5 DEF LeftIs
    <3>2. (\E f \in FlagsOf(p) : f[1] = Flag(a.name)) <=> Once(p, a.name)
      BY <1>1, KnownFlag
    <3> QED
      BY <1>1, <3>1, <3>2
  <2>10. \A x \in Flags : Named(q, x) <=> x = a.name
    BY <1>2, <1>3, <1>4
  <2>11. end.ok <=> \A x \in Flags : ~Twice(Append(p, q), x)
    BY <1>1, <2>5, <2>6, <2>7, <2>8, <2>9, <2>10 DEF LeftIs
  <2>12. LeftIs(Append(p, q), end)
    BY <2>4, <2>5, <2>6, <2>7, <2>8, <2>11 DEF LeftIs
  <2> QED
    BY <2>12 DEF end
<1> QED
  BY <1>2, <1>5, <1>6 DEF LineIs

\* A line is read as what its pieces say, however many and in any order.
LEMMA EveryLineIs ==
    ASSUME NEW pieces \in Seq(Pieces)
    PROVE  LineIs(pieces, FlattenSeq(pieces))
<1> DEFINE T == {p \in Seq(Pieces) : LineIs(p, FlattenSeq(p))}
<1>1. <<>> \in T
  <2>1. FlattenSeq(<<>>) = <<>> /\ <<>> \in Seq(Args) /\ <<>> \in Seq(Pieces)
    BY FlattenIs
  <2>2. \A S : Entries(<<>>, {}) = <<>>
    <3>1. Cardinality({}) = 0 /\ 1..0 = {}
      BY FS_EmptySet
    <3> QED
      BY <3>1 DEF Entries
  <2>3. \A x : ~Once(<<>>, x) /\ ~Twice(<<>>, x) /\ Said(<<>>, x) = {}
    BY DEF Once, Twice, Said
  <2>4. FlagsOf(<<>>) = {}
    BY DEF FlagsOf
  <2>5. WordsOf(<<>>) = <<>>
    <3>1. {i \in DOMAIN <<>> : IsWord(<<>>[i])} = {}
      OBVIOUS
    <3>2. WordPieces(<<>>) = <<>>
      BY <2>2, <3>1 DEF WordPieces
    <3> QED
      BY <3>2 DEF WordsOf
  <2>6. \A s : Hits(<<>>, s) = <<>> /\ Rest(<<>>, s) = <<>>
    <3>1. \A s : Mine(<<>>, s) = {} /\ DOMAIN <<>> \ Mine(<<>>, s) = {}
      BY DEF Mine
    <3> QED
      BY <2>2, <3>1 DEF Hits, Rest
  <2>7. Left(<<>>) = <<>>
    BY <2>6 DEF Left, NoProtect, NoAuth
  <2>8. \A s \in Switches : HeardOf(<<>>, s) = <<>>
    <3>1. NoAuth(<<>>) = <<>> /\ NoProtect(<<>>) = <<>>
      BY <2>6 DEF NoProtect, NoAuth
    <3>2. Heard(<<>>) = [auth |-> <<>>, protect |-> <<>>, register |-> <<>>]
      BY <2>6, <3>1 DEF Heard
    <3> QED
      BY <3>2 DEF HeardOf, Place, Switches
  <2>9. \A s \in Switches : HeardIs(<<>>, HeardOf(<<>>, s), s)
    <3>1. ToSet(<<>>) = {} /\ Len(<<>>) = 0 /\ ~(Len(<<>>) > 1)
      BY DEF ToSet
    <3>2. \A s : HeardIs(<<>>, <<>>, s)
      BY <2>1, <2>3, <3>1 DEF HeardIs
    <3> QED
      BY <2>8, <3>2
  <2>10. LeftIs(<<>>, ParseAll(Left(<<>>)))
    <3>1. ParseAll(Left(<<>>)) = NothingParsed /\ NothingParsed \in States
      BY <2>7, ParseAllIs
    <3>2. /\ NothingParsed.ok = TRUE /\ NothingParsed.flags = {}
          /\ NothingParsed.positionals = <<>> /\ NothingParsed.open = <<>>
      BY DEF NothingParsed
    <3>3. LeftIs(<<>>, NothingParsed)
      BY <2>3, <2>4, <2>5, <3>1, <3>2 DEF LeftIs
    <3> QED
      BY <3>1, <3>3
  <2> QED
    BY <2>1, <2>9, <2>10 DEF LineIs
<1>2. ASSUME NEW p \in Seq(Pieces), p \in T, NEW q \in Pieces PROVE Append(p, q) \in T
  <2>1. p \in Seq(Seq(Args)) /\ q \in Seq(Args)
    <3>1. Pieces \subseteq Seq(Args)
      BY PieceIs
    <3> QED
      BY <3>1
  <2>2. FlattenSeq(Append(p, q)) = FlattenSeq(p) \o q
    BY <2>1, FlattenIs
  <2>3. LineIs(Append(p, q), FlattenSeq(p) \o q)
    BY <1>2, PieceIs, WordAppend, SwitchAppend, FlagAppend
  <2> QED
    BY <2>2, <2>3, AppendProperties
<1>3. Seq(Pieces) \subseteq T
  <2> HIDE DEF T
  <2> QED
    BY <1>1, <1>2, SeqInduction
<1> QED
  BY <1>3

(***************************************************************************)
(* What runStart makes of it.                                              *)
(***************************************************************************)
Yes(p, switch) == \E a \in Said(p, switch) : SaysTrue(a)
Sensible(p, switch) == \A a \in Said(p, switch) : a.kind = "setting" => a.value \in Trues \cup Falses
PopIs(p, pop, switch) ==
    /\ pop.present \in BOOLEAN /\ pop.value \in BOOLEAN
    /\ pop.present <=> Said(p, switch) # {}
    /\ pop.ok <=> ~Twice(p, switch) /\ Sensible(p, switch)
    /\ pop.ok => (pop.value <=> Yes(p, switch))

\* popBoolFlagWithPresence reports what the line says of its switch.
LEMMA PopFinds ==
    ASSUME NEW p \in Seq(Pieces), NEW args, NEW switch \in Switches, HeardIs(p, Hits(args, switch), switch)
    PROVE  /\ PopIs(p, PopBoolFlag(args, switch), switch)
           /\ PopBoolFlag(args, switch).args = Rest(args, switch)
<1> DEFINE hits == Hits(args, switch)
           pop == PopBoolFlag(args, switch)
<1>1. pop = [ok |-> ~Wrong(hits), args |-> Rest(args, switch), present |-> hits # <<>>,
             value |-> ~Wrong(hits) /\ hits # <<>> /\ SaysTrue(hits[1])]
  BY DEF PopBoolFlag, Hits, Rest, Mine
<1>2. /\ hits \in Seq(Args) /\ ToSet(hits) = Said(p, switch)
      /\ Len(hits) > 1 <=> Twice(p, switch)
  BY DEF HeardIs
<1> HIDE DEF hits, pop
<1>3. ToSet(hits) = {hits[i] : i \in DOMAIN hits}
  BY DEF ToSet
<1>4. Wrong(hits) <=> Twice(p, switch) \/ ~Sensible(p, switch)
  BY <1>2, <1>3 DEF Wrong, Sensible
<1>5. hits # <<>> <=> Said(p, switch) # {}
  BY <1>2, <1>3
<1>6. ASSUME ~Wrong(hits) PROVE hits # <<>> /\ SaysTrue(hits[1]) <=> Yes(p, switch)
  <2>1. CASE hits = <<>>
    BY <1>5, <2>1 DEF Yes
  <2>2. CASE hits # <<>>
    <3> DEFINE n == Len(hits)
    <3>1. n \in Nat /\ n # 0 /\ ~(n > 1)
      BY <1>2, <1>6, <2>2 DEF Wrong
    <3> HIDE DEF n
    <3>2. n = 1
      BY <3>1
    <3>3. DOMAIN hits = 1..1
      BY <1>2, <3>2 DEF n
    <3>4. Said(p, switch) = {hits[1]}
      BY <1>2, <1>3, <3>3
    <3> QED
      BY <2>2, <3>4 DEF Yes
  <2> QED
    BY <2>1, <2>2
<1>7. /\ pop.ok = ~Wrong(hits) /\ pop.args = Rest(args, switch) /\ pop.present = (hits # <<>>)
      /\ pop.value = (~Wrong(hits) /\ hits # <<>> /\ SaysTrue(hits[1]))
  BY <1>1
<1>8. PopIs(p, pop, switch)
  BY <1>4, <1>5, <1>6, <1>7 DEF PopIs
<1> QED
  BY <1>7, <1>8 DEF pop

ReadIs(p, read) ==
    /\ PopIs(p, read.auth, "auth") /\ PopIs(p, read.protect, "protect-previews")
    /\ PopIs(p, read.register, "allow-registration")
    /\ read.parsed.positionals = WordsOf(p) /\ read.parsed.flags = FlagsOf(p)
    /\ read.parsed.ok <=> \A f \in Flags : ~Twice(p, f)
    /\ read.ok <=> read.auth.ok /\ read.protect.ok /\ read.register.ok /\ read.parsed.ok

\* runStart reads every line as its pieces say.
LEMMA StartReads ==
    ASSUME NEW p \in Seq(Pieces)
    PROVE  ReadIs(p, ReadStart(FlattenSeq(p)))
<1> DEFINE line == FlattenSeq(p)
           read == ReadStart(line)
           auth == PopBoolFlag(line, "auth")
           protect == PopBoolFlag(NoAuth(line), "protect-previews")
           register == PopBoolFlag(NoProtect(line), "allow-registration")
           end == ParseAll(Left(line))
<1>1. LineIs(p, line)
  BY EveryLineIs
<1> HIDE DEF line
<1>2. /\ HeardIs(p, Hits(line, "auth"), "auth")
      /\ HeardIs(p, Hits(NoAuth(line), "protect-previews"), "protect-previews")
      /\ HeardIs(p, Hits(NoProtect(line), "allow-registration"), "allow-registration")
  <2>1. /\ HeardOf(line, "auth") = Hits(line, "auth")
        /\ HeardOf(line, "protect-previews") = Hits(NoAuth(line), "protect-previews")
        /\ HeardOf(line, "allow-registration") = Hits(NoProtect(line), "allow-registration")
    BY DEF HeardOf, Heard, Place, Switches
  <2>2. \A s \in Switches : HeardIs(p, HeardOf(line, s), s)
    BY <1>1 DEF LineIs
  <2>3. "auth" \in Switches /\ "protect-previews" \in Switches /\ "allow-registration" \in Switches
    BY DEF Switches
  <2> QED
    BY <2>1, <2>2, <2>3
<1>3. PopIs(p, auth, "auth") /\ auth.args = NoAuth(line)
  BY <1>2, PopFinds DEF NoAuth, Switches
<1>4. PopIs(p, protect, "protect-previews") /\ protect.args = NoProtect(line)
  BY <1>2, PopFinds DEF NoProtect, Switches
<1>5. PopIs(p, register, "allow-registration") /\ register.args = Left(line)
  BY <1>2, PopFinds DEF Left, Switches
<1>6. LeftIs(p, end)
  BY <1>1 DEF LineIs
<1>7. read = [ok |-> auth.ok /\ protect.ok /\ register.ok /\ ParseArgs(Left(line)).ok,
              parsed |-> ParseArgs(Left(line)), auth |-> auth, protect |-> protect, register |-> register]
  <2> HIDE DEF read
  <2> QED
    BY <1>3, <1>4, <1>5 DEF ReadStart, read
<1>8. ParseArgs(Left(line)) = [ok |-> end.ok /\ end.open = <<>>, flags |-> end.flags, positionals |-> end.positionals]
  BY DEF ParseArgs
<1> DEFINE parsed == ParseArgs(Left(line))
<1> HIDE DEF read, auth, protect, register, end, parsed
<1>9. parsed.positionals = WordsOf(p) /\ parsed.flags = FlagsOf(p)
      /\ (parsed.ok <=> \A f \in Flags : ~Twice(p, f))
  <2>1. /\ parsed.ok = (end.ok /\ end.open = <<>>) /\ parsed.positionals = end.positionals
        /\ parsed.flags = end.flags
    BY <1>8 DEF parsed
  <2> QED
    BY <1>6, <2>1 DEF LeftIs
<1>10. /\ read.ok = (auth.ok /\ protect.ok /\ register.ok /\ parsed.ok) /\ read.parsed = parsed
       /\ read.auth = auth /\ read.protect = protect /\ read.register = register
  BY <1>7 DEF parsed
<1>11. ReadIs(p, read)
  BY <1>3, <1>4, <1>5, <1>9, <1>10 DEF ReadIs
<1> QED
  BY <1>11 DEF read, line

\* The pieces that name something twice, or make no sense, by what they name.
LEMMA FaultsAre ==
    ASSUME NEW p \in Seq(Pieces)
    PROVE  /\ NamedTwice(p) <=> \E x \in Flags \cup Switches : Twice(p, x)
           /\ Nonsense(p) <=> \E s \in Switches : ~Sensible(p, s)
<1>1. ASSUME NEW i \in DOMAIN p
      PROVE  /\ p[i][1].kind # "word" => p[i][1].name \in Flags \cup Switches
             /\ p[i][1].kind = "setting" => p[i][1].name \in Switches
  <2>1. p[i] \in Pieces
    OBVIOUS
  <2> DEFINE q == p[i]
  <2> HIDE DEF q
  <2>2. q \in Pieces
    BY <2>1 DEF q
  <2>3. CASE IsWordPiece(q)
    <3>1. PICK a \in Args : q = <<a>> /\ a.kind = "word"
      BY <2>3 DEF IsWordPiece
    <3>2. q[1] = a
      BY <3>1
    <3> QED
      BY <3>1, <3>2 DEF q
  <2>4. CASE IsSwitchPiece(q)
    <3>1. PICK a \in Args : q = <<a>> /\ a.name \in Switches
      BY <2>4 DEF IsSwitchPiece
    <3>2. q[1] = a
      BY <3>1
    <3> QED
      BY <3>1, <3>2 DEF q
  <2>5. CASE IsFlagPiece(q)
    <3>1. PICK a \in Args, b \in Args : q = <<a, b>> /\ a = Flag(a.name) /\ a.name \in Flags
      BY <2>5 DEF IsFlagPiece
    <3>2. q[1] = a
      BY <3>1
    <3>3. a.kind = "flag"
      <4>1. \A x : Flag(x).kind = "flag"
        BY DEF Flag
      <4> QED
        BY <3>1, <4>1
    <3> QED
      BY <3>1, <3>2, <3>3 DEF q
  <2> QED
    BY <2>2, <2>3, <2>4, <2>5, PieceIs
<1>2. NamedTwice(p) <=> \E x \in Flags \cup Switches : Twice(p, x)
  BY <1>1 DEF NamedTwice, Twice, Named
<1>3. Nonsense(p) <=> \E s \in Switches : ~Sensible(p, s)
  BY <1>1 DEF Nonsense, Sensible, Said, Named
<1> QED
  BY <1>2, <1>3

\* Every line is read as its pieces mean it.
THEOREM AnyLineReadsBack ==
    ASSUME NEW pieces \in Seq(Pieces)
    PROVE  ArgumentsReadBack(pieces)
<1> DEFINE read == ReadStart(FlattenSeq(pieces))
<1>1. ReadIs(pieces, read)
  BY StartReads
<1> HIDE DEF read
<1>2. read.ok <=> (\A x \in Flags \cup Switches : ~Twice(pieces, x)) /\ \A s \in Switches : Sensible(pieces, s)
  <2>1. \A s \in Switches : s = "auth" \/ s = "protect-previews" \/ s = "allow-registration"
    BY DEF Switches
  <2>2. "auth" \in Switches /\ "protect-previews" \in Switches /\ "allow-registration" \in Switches
    BY DEF Switches
  <2> QED
    BY <1>1, <2>1, <2>2 DEF ReadIs, PopIs
<1>3. read.ok <=> ~NamedTwice(pieces) /\ ~Nonsense(pieces)
  BY <1>2, FaultsAre
<1>4. read.parsed.positionals = WordsOf(pieces) /\ read.parsed.flags = FlagsOf(pieces)
  BY <1>1 DEF ReadIs
<1> QED
  BY <1>3, <1>4 DEF ArgumentsReadBack, WordsOf, WordPieces, FlagsOf, read

Asked(p, switch, env) == IF Said(p, switch) = {} THEN env \in Trues ELSE Yes(p, switch)
Denied(p, switch, env) == IF Said(p, switch) = {} THEN env \in Falses ELSE ~Yes(p, switch)

\* resolveBool lets the line speak, else the environment, else the default.
LEMMA ResolveIs ==
    ASSUME NEW p, NEW pop, NEW switch, PopIs(p, pop, switch), pop.ok, NEW env
    PROVE  /\ ResolveBool(pop, env, FALSE) = Asked(p, switch, env)
           /\ ResolveBool(pop, env, TRUE) = ~Denied(p, switch, env)
<1>1. pop.value \in BOOLEAN /\ (pop.present <=> Said(p, switch) # {}) /\ (pop.value <=> Yes(p, switch))
  BY DEF PopIs
<1>2. env \in Trues => env \notin Falses
  BY DEF Trues, Falses
<1>3. CASE pop.present
  <2>1. \A b \in BOOLEAN : ResolveBool(pop, env, b) = pop.value
    BY <1>3 DEF ResolveBool
  <2>2. Yes(p, switch) \in BOOLEAN
    BY DEF Yes
  <2> QED
    BY <1>1, <1>3, <2>1, <2>2 DEF Asked, Denied
<1>4. CASE ~pop.present
  BY <1>1, <1>2, <1>4 DEF ResolveBool, Asked, Denied
<1> QED
  BY <1>3, <1>4

\* Whatever the line and the environment, the posture is the one asked for.
THEOREM AnyPostureIsAsked ==
    ASSUME NEW pieces \in Seq(Pieces), NEW env
    PROVE  PostureIsAsAsked(pieces, env)
<1> DEFINE read == ReadStart(FlattenSeq(pieces))
           said(s) == {q[1] : q \in {q \in ToSet(pieces) : IsSwitch(q) /\ q[1].name = s}}
           asked(s) == IF said(s) = {} THEN env[s] \in Trues ELSE \E a \in said(s) : SaysTrue(a)
           denied(s) == IF said(s) = {} THEN env[s] \in Falses ELSE ~\E a \in said(s) : SaysTrue(a)
<1>1. ReadIs(pieces, read)
  BY StartReads
<1>2. ASSUME NEW s \in Switches
      PROVE  asked(s) = Asked(pieces, s, env[s]) /\ denied(s) = Denied(pieces, s, env[s])
  <2>1. said(s) = Said(pieces, s)
    <3>1. ASSUME NEW i \in DOMAIN pieces
          PROVE  Named(pieces[i], s) <=> IsSwitch(pieces[i]) /\ pieces[i][1].name = s
      <4>1. pieces[i] \in Pieces /\ s \notin Flags
        <5>1. pieces[i] \in Pieces
          OBVIOUS
        <5>2. s \notin Flags
          BY FlagsAssumption
        <5> QED
          BY <5>1, <5>2
      <4>2. Named(pieces[i], s) => IsSwitch(pieces[i])
        BY <4>1, PieceIs, PieceSays
      <4> QED
        BY <4>2 DEF Named, IsSwitch
    <3>2. ToSet(pieces) = {pieces[i] : i \in DOMAIN pieces}
      BY DEF ToSet
    <3> QED
      BY <3>1, <3>2 DEF Said
  <2> HIDE DEF said
  <2> QED
    BY <2>1 DEF Asked, Denied, Yes
<1>3. ASSUME read.ok
      PROVE  /\ ResolveBool(read.protect, env["protect-previews"], FALSE) = asked("protect-previews")
             /\ ResolveBool(read.auth, env["auth"], FALSE) = asked("auth")
             /\ ResolveBool(read.register, env["allow-registration"], TRUE) = ~denied("allow-registration")
  <2> HIDE DEF asked, denied, read
  <2>1. /\ PopIs(pieces, read.auth, "auth") /\ PopIs(pieces, read.protect, "protect-previews")
        /\ PopIs(pieces, read.register, "allow-registration")
        /\ read.auth.ok /\ read.protect.ok /\ read.register.ok
    BY <1>1, <1>3 DEF ReadIs
  <2>2. "auth" \in Switches /\ "protect-previews" \in Switches /\ "allow-registration" \in Switches
    BY DEF Switches
  <2>3. ResolveBool(read.auth, env["auth"], FALSE) = Asked(pieces, "auth", env["auth"])
    <3>1. PopIs(pieces, read.auth, "auth") /\ read.auth.ok
      BY <2>1
    <3> QED
      BY <3>1, ResolveIs
  <2>4. ResolveBool(read.protect, env["protect-previews"], FALSE)
          = Asked(pieces, "protect-previews", env["protect-previews"])
    <3>1. PopIs(pieces, read.protect, "protect-previews") /\ read.protect.ok
      BY <2>1
    <3> QED
      BY <3>1, ResolveIs
  <2>5. ResolveBool(read.register, env["allow-registration"], TRUE)
          = ~Denied(pieces, "allow-registration", env["allow-registration"])
    <3>1. PopIs(pieces, read.register, "allow-registration") /\ read.register.ok
      BY <2>1
    <3> QED
      BY <3>1, ResolveIs
  <2> QED
    BY <1>2, <2>2, <2>3, <2>4, <2>5
<1> HIDE DEF asked, denied
<1>4. ASSUME read.ok
      PROVE  LET protect == asked("protect-previews")
                 auth == protect \/ asked("auth")
                 register == auth /\ ~denied("allow-registration")
             IN  Posture(read, env) = [auth |-> auth, protect |-> protect, register |-> register]
  <2> HIDE DEF read
  <2> QED
    BY <1>3, <1>4 DEF Posture
<1> QED
  BY <1>4 DEF PostureIsAsAsked, asked, denied

(***************************************************************************)
(* Every input that Algorithms takes is of the kinds proved about above.   *)
(***************************************************************************)
IsVersions == \E old, new \in Seq(Lines) : input = <<"lines", old, new>>
IsTexts == \E old, new \in Seq(Chars) : input = <<"texts", old, new>>
IsSite == \E tree \in Sites, denied \in Denials, entry \in Seq(Names) \ {<<>>}, root \in Seq(Names),
             hasRoot, single \in BOOLEAN, body \in Bodies :
              input = <<"send", tree, denied, entry, hasRoot, root, single, body>>
IsPost == \E entry \in RawPaths, archive \in Seq(Archived), body \in Bodies :
              input = <<"post", entry, archive, body>>
IsLine == \E pieces \in Seq(Pieces), env \in Environments : input = <<"start", pieces, env>>
InputOK == input = Nothing \/ IsVersions \/ IsTexts \/ IsSite \/ IsPost \/ IsLine

\* Every input is one of the five kinds, of any size.
LEMMA EveryInputIsOK == Spec => []InputOK
<1>1. Init => InputOK
  BY DEF Init, InputOK
<1>2. ASSUME InputOK, [Next]_input PROVE InputOK'
  <2>1. CASE UNCHANGED input
    BY <1>2, <2>1 DEF InputOK, IsVersions, IsTexts, IsSite, IsPost, IsLine
  <2>2. CASE Compare
    <3>1. IsVersions'
      BY <2>2, TextsAssumption DEF Compare, IsVersions
    <3> QED
      BY <3>1 DEF InputOK
  <2>3. CASE CompareTexts
    <3>1. IsTexts'
      BY <2>3, TextsAssumption DEF CompareTexts, IsTexts
    <3> QED
      BY <3>1 DEF InputOK
  <2>4. CASE SendSite
    <3>1. IsSite'
      BY <2>4, SitesAssumption DEF SendSite, IsSite
    <3> QED
      BY <3>1 DEF InputOK
  <2>5. CASE PostArchive
    <3>1. IsPost'
      BY <2>5, SitesAssumption DEF PostArchive, IsPost
    <3> QED
      BY <3>1 DEF InputOK
  <2>6. CASE StartServer
    <3>1. IsLine'
      BY <2>6, CommandLinesAssumption DEF StartServer, IsLine
    <3> QED
      BY <3>1 DEF InputOK
  <2> QED
    BY <1>2, <2>1, <2>2, <2>3, <2>4, <2>5, <2>6 DEF Next
<1> QED
  BY <1>1, <1>2, PTL DEF Spec

\* The kind of an input tells which of them it is.
LEMMA KindOfInput ==
    ASSUME InputOK
    PROVE  /\ Of("lines") => IsVersions
           /\ Of("texts") => IsTexts
           /\ Of("send") => IsSite
           /\ Of("post") => IsPost
           /\ Of("start") => IsLine
<1>1. input = Nothing => input[1] = "nothing"
  BY DEF Nothing
<1>2. IsVersions => input[1] = "lines"
  BY DEF IsVersions
<1>3. IsTexts => input[1] = "texts"
  BY DEF IsTexts
<1>4. IsSite => input[1] = "send"
  BY DEF IsSite
<1>5. IsPost => input[1] = "post"
  BY DEF IsPost
<1>6. IsLine => input[1] = "start"
  BY DEF IsLine
<1> QED
  BY <1>1, <1>2, <1>3, <1>4, <1>5, <1>6 DEF InputOK, Of

(***************************************************************************)
(* Whatever the texts, DiffLines shows both completely, changes no more    *)
(* lines than it must, and shows no empty diff for texts that differ.      *)
(***************************************************************************)
THEOREM EveryDiffRebuilds == Spec => []DiffsRebuildBothTexts
<1>1. InputOK => DiffsRebuildBothTexts
  <2>1. SUFFICES ASSUME InputOK, Of("lines") PROVE RebuildsBothTexts(input[2], input[3])
    BY DEF DiffsRebuildBothTexts
  <2>2. PICK old \in Seq(Lines), new \in Seq(Lines) : input = <<"lines", old, new>>
    BY <2>1, KindOfInput DEF IsVersions
  <2>3. RebuildsBothTexts(old, new)
    BY DiffRebuilds
  <2> QED
    BY <2>2, <2>3
<1> QED
  BY <1>1, EveryInputIsOK, PTL

\* No diff of the same lines changes fewer of them.
THEOREM EveryDiffIsMinimal == Spec => []DiffsAreMinimal
<1>1. InputOK => DiffsAreMinimal
  <2>1. SUFFICES ASSUME InputOK, Of("lines") PROVE ChangesAsLittleAsPossible(input[2], input[3])
    BY DEF DiffsAreMinimal
  <2>2. PICK old \in Seq(Lines), new \in Seq(Lines) : input = <<"lines", old, new>>
    BY <2>1, KindOfInput DEF IsVersions
  <2>3. ChangesAsLittleAsPossible(old, new)
    BY DiffIsMinimal
  <2> QED
    BY <2>2, <2>3
<1> QED
  BY <1>1, EveryInputIsOK, PTL

\* SplitLines hides one newline at the end and nothing else.
THEOREM NoDiffHidesAChange == Spec => []DiffsShowEveryChange
<1>1. InputOK => DiffsShowEveryChange
  <2>1. SUFFICES ASSUME InputOK, Of("texts") PROVE ShowsEveryChange(input[2], input[3])
    BY DEF DiffsShowEveryChange
  <2>2. PICK old \in Seq(Chars), new \in Seq(Chars) : input = <<"texts", old, new>>
    BY <2>1, KindOfInput DEF IsTexts
  <2>3. ShowsEveryChange(old, new)
    BY TextsAssumption, DiffHidesNothing
  <2> QED
    BY <2>2, <2>3
<1> QED
  BY <1>1, EveryInputIsOK, PTL

(***************************************************************************)
(* Whatever the site, what `sth send` packs is what                        *)
(* handleCreateUploadedSession stores.                                     *)
(***************************************************************************)
THEOREM EverySiteArrives == Spec => []SentSitesArrive
<1>1. InputOK => SentSitesArrive
  <2>1. SUFFICES ASSUME InputOK, Of("send")
                 PROVE  SendsArrive(input[2], input[3], input[4], input[5], input[6], input[7], input[8])
    BY DEF SentSitesArrive
  <2>2. PICK tree \in Sites, denied \in Denials, entry \in Seq(Names) \ {<<>>}, root \in Seq(Names),
             hasRoot \in BOOLEAN, single \in BOOLEAN, body \in Bodies :
                 input = <<"send", tree, denied, entry, hasRoot, root, single, body>>
    BY <2>1, KindOfInput DEF IsSite
  <2>3. SendsArrive(tree, denied, entry, hasRoot, root, single, body)
    BY AnySiteArrives
  <2> QED
    BY <2>2, <2>3
<1> QED
  BY <1>1, EveryInputIsOK, PTL

\* Whatever is posted, what extractZIPArchive stores is below the root and
\* within the limit.
THEOREM EveryArchiveIsBounded == Spec => []ExtractionIsBounded
<1>1. InputOK => ExtractionIsBounded
  <2>1. SUFFICES ASSUME InputOK, Of("post") PROVE StoredIsBounded(input[2], input[3], input[4])
    BY DEF ExtractionIsBounded
  <2>2. PICK entry \in RawPaths, archive \in Seq(Archived), body \in Bodies :
                 input = <<"post", entry, archive, body>>
    BY <2>1, KindOfInput DEF IsPost
  <2>3. StoredIsBounded(entry, archive, body)
    BY AnyArchiveIsBounded
  <2> QED
    BY <2>2, <2>3
<1> QED
  BY <1>1, EveryInputIsOK, PTL

(***************************************************************************)
(* Whatever the command line, parseArgs and popBoolFlag read it as it was  *)
(* written, and runStart takes the posture it asks for.                    *)
(***************************************************************************)
THEOREM EveryLineReadsBack == Spec => []LinesReadBack
<1>1. InputOK => LinesReadBack
  <2>1. SUFFICES ASSUME InputOK, Of("start") PROVE ArgumentsReadBack(input[2])
    BY DEF LinesReadBack
  <2>2. PICK pieces \in Seq(Pieces), env \in Environments : input = <<"start", pieces, env>>
    BY <2>1, KindOfInput DEF IsLine
  <2>3. ArgumentsReadBack(pieces)
    BY AnyLineReadsBack
  <2> QED
    BY <2>2, <2>3
<1> QED
  BY <1>1, EveryInputIsOK, PTL

\* The environment speaks only where the command line is silent.
THEOREM EveryStartIsAsAsked == Spec => []StartsAsAsked
<1>1. InputOK => StartsAsAsked
  <2>1. SUFFICES ASSUME InputOK, Of("start") PROVE PostureIsAsAsked(input[2], input[3])
    BY DEF StartsAsAsked
  <2>2. PICK pieces \in Seq(Pieces), env \in Environments : input = <<"start", pieces, env>>
    BY <2>1, KindOfInput DEF IsLine
  <2>3. PostureIsAsAsked(pieces, env)
    BY AnyPostureIsAsked
  <2> QED
    BY <2>2, <2>3
<1> QED
  BY <1>1, EveryInputIsOK, PTL
=============================================================================
