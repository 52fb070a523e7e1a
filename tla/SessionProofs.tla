---------------------------- MODULE SessionProofs ----------------------------
(***************************************************************************)
(* Theorems about Session, and about the parsers and the report it is made *)
(* of: for any configuration files, hosts, replies and bounds.             *)
(***************************************************************************)
EXTENDS Session, FiniteSetTheorems, SequenceTheorems, WellFoundedInduction, TLAPS

(***************************************************************************)
(* The inductive invariant.                                                *)
(***************************************************************************)

\* What the slots can hold, and what is written from them.
Meanings == UNION {{Meant[k][f] : f \in Configs} : k \in Kinds}
Targets == {Meant["rfo"][f].target : f \in Configs}
Scanned == [nr : Nat, target : Targets]
Rows == [scan : Nat, path : Paths]
Table == [key : {Meant["rxo"][f].db_password : f \in Configs}, rows : Seq(Rows)]

\* A row of a capture: of a word that was answered, or of one that was not.
Asked == {[target |-> <<"name", t>>, status |-> r.status, body |-> r.body] :
              t \in Targets, r \in Replies}
Unasked == [target |-> Blank, status |-> 0, body |-> <<>>]
Answers == Asked \cup {Unasked}

TypeOK ==
    /\ slot \in [Kinds -> {None} \cup Meanings]
    /\ json \in [Paths -> Seq(Scanned)]
    /\ db \in [Hosts \cup {""} -> {Absent} \cup Table]
    /\ scans \in Nat

\* A slot that is loaded holds what some file means.
Slots == \A k \in Kinds : slot[k] # None => \E f \in Configs : slot[k] = Meant[k][f]

\* The scans of a path are numbered as they were written.
Numbered ==
    \A p \in Paths : \A i \in DOMAIN json[p] :
        json[p][1].nr <= json[p][i].nr /\ json[p][i].nr <= scans

\* The rows of a table are of the first scan of the path they came from.
FirstScans ==
    \A h \in DOMAIN db : db[h] # Absent =>
        \A i \in DOMAIN db[h].rows :
            LET row == db[h].rows[i]
            IN  json[row.path] # <<>> /\ row.scan = json[row.path][1].nr

\* A stash has a name without a scheme.
Plain == \A s \in stashes : s[1] = "text"

\* A report is of the rows captured for it.
Reported ==
    /\ DOMAIN reports = Paths /\ DOMAIN captured = Paths
    /\ \A p \in Paths :
           \/ reports[p] = Absent /\ captured[p] = Absent
           \/ captured[p] \in [1..WordCount -> Answers] /\ reports[p] = Report(captured[p])

Inv == TypeOK /\ Slots /\ Numbered /\ FirstScans /\ Plain /\ Reported

(***************************************************************************)
(* Induction over the naturals up to n, as membership in a set, and the    *)
(* folds of the model unrolled by it.                                      *)
(***************************************************************************)

\* A set of naturals that is not empty has a least member.
LEMMA Least ==
    ASSUME NEW S, S \subseteq Nat, S # {}
    PROVE  \E m \in S : \A n \in S : m <= n
<1> DEFINE R == OpToRel(<, Nat)
<1>1. IsWellFoundedOn(R, Nat)
  BY NatLessThanWellFounded
<1>2. PICK m \in S : \A n \in S : <<n, m>> \notin R
  BY <1>1, WFMin
<1>3. \A n \in S : ~(n < m)
  BY <1>2 DEF OpToRel
<1>4. QED
  BY <1>3

\* What holds of 0 and passes from each k - 1 to k holds up to n.
LEMMA Upto ==
    ASSUME NEW n \in Nat, NEW S, 0 \in S, \A k \in 1..n : k - 1 \in S => k \in S
    PROVE  0..n \subseteq S
<1> DEFINE Bad == (0..n) \ S
<1>1. SUFFICES ASSUME Bad # {} PROVE FALSE
  OBVIOUS
<1>2. Bad \subseteq Nat
  OBVIOUS
<1>3. PICK m \in Bad : \A k \in Bad : m <= k
  <2> HIDE DEF Bad
  <2>1. QED
    BY <1>1, <1>2, Least
<1>4. m \in 1..n /\ m - 1 \in 0..n /\ ~(m <= m - 1)
  OBVIOUS
<1>5. m - 1 \in S
  BY <1>3, <1>4
<1>6. QED
  BY <1>4, <1>5

\* The greatest of 1..m is m.
LEMMA MaxIs ==
    ASSUME NEW m \in Nat, NEW u \in SUBSET (1..m), m \in u
    PROVE  Max(u) = m
<1>1. \A x \in u : (\A y \in u : x >= y) <=> x = m
  OBVIOUS
<1>2. QED
  BY <1>1 DEF Max

\* A set of naturals up to n that is not empty has its maximum.
LEMMA MaxIn ==
    ASSUME NEW n \in Nat, NEW u \in SUBSET (1..n), u # {}
    PROVE  Max(u) \in u
<1> DEFINE S == {m \in 0..n : \A v \in SUBSET (1..m) : v # {} =>
                    \E x \in v : \A y \in v : x >= y}
<1>1. 0 \in S
  <2>1. 0 \in 0..n /\ \A v \in SUBSET (1..0) : v = {}
    OBVIOUS
  <2>2. QED
    BY <2>1
<1>2. ASSUME NEW m \in 1..n, m - 1 \in S PROVE m \in S
  <2>1. ASSUME NEW v \in SUBSET (1..m), v # {}
        PROVE  \E x \in v : \A y \in v : x >= y
    <3>1. CASE m \in v
      BY <3>1
    <3>2. CASE m \notin v
      <4>1. v \in SUBSET (1..(m - 1))
        BY <3>2
      <4>2. QED
        BY <1>2, <2>1, <4>1
    <3>3. QED
      BY <3>1, <3>2
  <2>2. QED
    BY <2>1
<1>3. n \in S
  <2> HIDE DEF S
  <2>1. 0..n \subseteq S
    BY <1>1, <1>2, Upto
  <2>2. QED
    BY <2>1
<1>4. QED
  BY <1>3 DEF Max

\* A function F by which the n items of s can be folded from base, and a
\* table of the fold over every part of them.
Folds(A, B, F, base, n, s) ==
    F \in [A -> [B -> A]] /\ base \in A /\ n \in Nat /\ s \in [1..n -> B]
Tabulates(g, A, F, base, n, s) ==
    /\ g \in [SUBSET (1..n) -> A]
    /\ \A u \in SUBSET (1..n) :
           g[u] = IF u = {} THEN base ELSE F[g[u \ {Max(u)}]][s[Max(u)]]

\* There is such a table.
LEMMA FoldExists ==
    ASSUME NEW A, NEW B, NEW F, NEW base, NEW n, NEW s, Folds(A, B, F, base, n, s)
    PROVE  \E g : Tabulates(g, A, F, base, n, s)
<1> DEFINE S == {m \in 0..n : \E g : Tabulates(g, A, F, base, m, s)}
<1>1. F \in [A -> [B -> A]] /\ base \in A /\ n \in Nat /\ s \in [1..n -> B]
  BY DEF Folds
<1>2. 0 \in S
  <2> DEFINE g == [u \in SUBSET (1..0) |-> base]
  <2>1. \A u \in SUBSET (1..0) : u = {}
    OBVIOUS
  <2>2. Tabulates(g, A, F, base, 0, s)
    BY <1>1, <2>1 DEF Tabulates
  <2>3. 0 \in 0..n
    BY <1>1
  <2>4. QED
    BY <2>2, <2>3
<1>3. ASSUME NEW m \in 1..n, m - 1 \in S PROVE m \in S
  <2>1. PICK h : Tabulates(h, A, F, base, m - 1, s)
    BY <1>3
  <2>2. /\ h \in [SUBSET (1..(m - 1)) -> A]
        /\ \A u \in SUBSET (1..(m - 1)) :
               h[u] = IF u = {} THEN base ELSE F[h[u \ {Max(u)}]][s[Max(u)]]
    BY <2>1 DEF Tabulates
  <2> DEFINE g == [u \in SUBSET (1..m) |->
                      IF m \in u THEN F[h[u \ {m}]][s[m]] ELSE h[u]]
  <2>3. ASSUME NEW u \in SUBSET (1..m)
        PROVE  /\ u \ {m} \in SUBSET (1..(m - 1))
               /\ m \notin u => u \in SUBSET (1..(m - 1))
               /\ m \in u => Max(u) = m
    <3>1. m \in Nat
      BY <1>1
    <3>2. m \in u => Max(u) = m
      BY <3>1, MaxIs
    <3>3. u \ {m} \in SUBSET (1..(m - 1)) /\ (m \notin u => u \in SUBSET (1..(m - 1)))
      BY <3>1
    <3>4. QED
      BY <3>2, <3>3
  <2>4. g \in [SUBSET (1..m) -> A]
    <3>1. ASSUME NEW u \in SUBSET (1..m)
          PROVE (IF m \in u THEN F[h[u \ {m}]][s[m]] ELSE h[u]) \in A
      BY <1>1, <2>2, <2>3
    <3>2. QED
      BY <3>1
  <2>5. ASSUME NEW u \in SUBSET (1..m)
        PROVE  g[u] = IF u = {} THEN base ELSE F[g[u \ {Max(u)}]][s[Max(u)]]
    <3>1. CASE m \in u
      <4>1. g[u] = F[h[u \ {m}]][s[m]] /\ Max(u) = m
        BY <2>3, <3>1
      <4>2. g[u \ {m}] = h[u \ {m}]
        BY <2>3
      <4>3. QED
        BY <3>1, <4>1, <4>2
    <3>2. CASE m \notin u
      <4>1. u \in SUBSET (1..(m - 1)) /\ g[u] = h[u]
        BY <2>3, <3>2
      <4> DEFINE v == u \ {Max(u)}
      <4>2. v \in SUBSET (1..(m - 1)) /\ v \in SUBSET (1..m) /\ m \notin v
        BY <3>2, <4>1
      <4>3. g[v] = h[v]
        <5> HIDE DEF v
        <5>1. QED
          BY <4>2
      <4>4. h[u] = IF u = {} THEN base ELSE F[h[u \ {Max(u)}]][s[Max(u)]]
        BY <2>2, <4>1
      <4>5. QED
        BY <4>1, <4>3, <4>4
    <3>3. QED
      BY <3>1, <3>2
  <2>6. Tabulates(g, A, F, base, m, s)
    BY <2>4, <2>5 DEF Tabulates
  <2>7. m \in 0..n
    BY <1>1
  <2>8. QED
    BY <2>6, <2>7
<1>4. n \in S
  <2> HIDE DEF S
  <2>1. 0..n \subseteq S
    BY <1>1, <1>2, <1>3, Upto
  <2>2. QED
    BY <1>1, <2>1
<1>5. QED
  BY <1>4

\* The sets such a table is asked for on the way through a sequence.
LEMMA PrefixSets ==
    ASSUME NEW n \in Nat, NEW k \in 1..n
    PROVE  /\ 1..k \in SUBSET (1..n) /\ 1..k # {}
           /\ Max(1..k) = k
           /\ (1..k) \ {k} = 1..(k - 1)
<1>1. k \in Nat /\ 1..k \in SUBSET (1..k) /\ k \in 1..k
  OBVIOUS
<1>2. Max(1..k) = k
  BY <1>1, MaxIs
<1>3. 1..k \in SUBSET (1..n) /\ 1..k # {}
  OBVIOUS
<1>4. (1..k) \ {k} = 1..(k - 1)
  OBVIOUS
<1>5. QED
  BY <1>2, <1>3, <1>4

\* Where a table g follows F along a sequence, it is typed as F is.
LEMMA FoldTable ==
    ASSUME NEW A, NEW B, NEW F, NEW base, NEW n, NEW s, Folds(A, B, F, base, n, s),
           NEW g, g[1..0] = base,
           \A k \in 1..n : g[1..(k - 1)] \in A => g[1..k] = F[g[1..(k - 1)]][s[k]]
    PROVE  \E t \in [0..n -> A] :
               /\ t[0] = base /\ t[n] = g[1..n]
               /\ \A k \in 1..n : t[k] = F[t[k - 1]][s[k]]
<1> DEFINE S == {k \in 0..n : g[1..k] \in A}
           t == [k \in 0..n |-> g[1..k]]
<1>0. F \in [A -> [B -> A]] /\ base \in A /\ n \in Nat /\ s \in [1..n -> B]
  BY DEF Folds
<1>1. 0 \in S
  BY <1>0
<1>2. ASSUME NEW k \in 1..n, k - 1 \in S PROVE k \in S
  <2>1. g[1..(k - 1)] \in A /\ s[k] \in B /\ k \in 0..n
    BY <1>0, <1>2
  <2>2. g[1..k] = F[g[1..(k - 1)]][s[k]]
    BY <2>1
  <2>3. F[g[1..(k - 1)]][s[k]] \in A
    BY <1>0, <2>1
  <2>4. QED
    BY <2>1, <2>2, <2>3
<1>3. 0..n \subseteq S
  <2> HIDE DEF S
  <2>1. QED
    BY <1>0, <1>1, <1>2, Upto
<1>4. t \in [0..n -> A] /\ t[0] = base /\ t[n] = g[1..n]
  BY <1>0, <1>3
<1>5. ASSUME NEW k \in 1..n PROVE t[k] = F[t[k - 1]][s[k]]
  <2>1. k - 1 \in 0..n /\ k \in 0..n /\ g[1..(k - 1)] \in A
    BY <1>0, <1>3
  <2>2. QED
    BY <2>1
<1>6. QED
  BY <1>4, <1>5

\* Along a sequence alone, a fold is a table by position.
LEMMA FoldRuns ==
    ASSUME NEW A, NEW B, NEW F, NEW base, NEW n, NEW s, Folds(A, B, F, base, n, s)
    PROVE  \E t \in [0..n -> A] :
               t[0] = base /\ \A k \in 1..n : t[k] = F[t[k - 1]][s[k]]
<1>1. PICK g : Tabulates(g, A, F, base, n, s)
  BY FoldExists
<1>2. /\ g \in [SUBSET (1..n) -> A]
      /\ \A u \in SUBSET (1..n) :
             g[u] = IF u = {} THEN base ELSE F[g[u \ {Max(u)}]][s[Max(u)]]
  BY <1>1 DEF Tabulates
<1>3. n \in Nat
  BY DEF Folds
<1>4. g[1..0] = base
  <2>1. 1..0 = {} /\ 1..0 \in SUBSET (1..n)
    BY <1>3
  <2>2. QED
    BY <1>2, <2>1
<1>5. \A k \in 1..n : g[1..(k - 1)] \in A => g[1..k] = F[g[1..(k - 1)]][s[k]]
  BY <1>2, <1>3, PrefixSets
<1>6. QED
  BY <1>4, <1>5, FoldTable

\* A flattening grows by one sequence at a time,
LEMMA FlattenSteps ==
    ASSUME NEW A, NEW h \in Seq(Seq(A))
    PROVE  \E t \in [0..Len(h) -> Seq(A)] :
               /\ t[0] = <<>> /\ t[Len(h)] = FlattenSeq(h)
               /\ \A k \in 1..Len(h) : t[k] = t[k - 1] \o h[k]
<1> DEFINE n == Len(h)
           Q == Seq(A)
           F == [x \in Q |-> [y \in Q |-> x \o y]]
           Eq(g) == g = [i \in 1..n |-> IF i = 1 THEN h[i] ELSE g[i - 1] \o h[i]]
<1>1. n \in Nat /\ h \in [1..n -> Q] /\ <<>> \in Q /\ \A x \in Q : <<>> \o x = x
  OBVIOUS
<1>2. F \in [Q -> [Q -> Q]] /\ \A x \in Q, y \in Q : F[x][y] = x \o y
  OBVIOUS
<1>3. Folds(Q, Q, F, <<>>, n, h)
  <2> HIDE DEF Q, F, n
  <2>1. QED
    BY <1>1, <1>2 DEF Folds
<1>4. PICK t \in [0..n -> Q] :
          t[0] = <<>> /\ \A k \in 1..n : t[k] = F[t[k - 1]][h[k]]
  <2> HIDE DEF Q, F, n
  <2>1. QED
    BY <1>3, FoldRuns
<1>5. ASSUME NEW k \in 1..n PROVE t[k] = t[k - 1] \o h[k]
  <2>1. k - 1 \in 0..n
    BY <1>1
  <2>2. t[k - 1] \in Q /\ h[k] \in Q
    BY <1>1, <2>1
  <2>3. QED
    BY <1>2, <1>4, <2>2
<1>6. CASE n = 0
  <2>1. h = <<>>
    BY <1>6
  <2>2. FlattenSeq(h) = <<>>
    BY <1>6, <2>1 DEF FlattenSeq
  <2>3. QED
    BY <1>4, <1>5, <1>6, <2>2
<1>7. CASE n # 0
  <2>1. \E g : Eq(g)
    <3> DEFINE g == [i \in 1..n |-> t[i]]
    <3>1. ASSUME NEW i \in 1..n PROVE g[i] = IF i = 1 THEN h[i] ELSE g[i - 1] \o h[i]
      <4>1. CASE i = 1
        <5>1. t[1] = t[0] \o h[1] /\ h[1] \in Q
          BY <1>1, <1>5, <4>1
        <5>2. QED
          BY <1>1, <1>4, <4>1, <5>1
      <4>2. CASE i # 1
        <5>1. i - 1 \in 1..n
          BY <1>1, <4>2
        <5>2. QED
          BY <1>5, <4>2, <5>1
      <4>3. QED
        BY <4>1, <4>2
    <3>2. Eq(g)
      BY <3>1
    <3>3. QED
      BY <3>2
  <2>2. PICK g : Eq(g) /\ FlattenSeq(h) = g[n]
    BY <1>7, <2>1 DEF FlattenSeq
  <2> DEFINE S == {k \in 0..n : k = 0 \/ g[k] = t[k]}
  <2>3. 0 \in S
    BY <1>1
  <2>4. ASSUME NEW k \in 1..n, k - 1 \in S PROVE k \in S
    <3>1. CASE k = 1
      <4>1. t[1] = t[0] \o h[1] /\ h[1] \in Q
        BY <1>1, <1>5, <3>1
      <4>2. g[1] = h[1]
        BY <2>2, <3>1
      <4>3. QED
        BY <1>1, <1>4, <3>1, <4>1, <4>2
    <3>2. CASE k # 1
      <4>1. k - 1 # 0 /\ k \in 0..n
        BY <1>1, <3>2
      <4>2. g[k - 1] = t[k - 1]
        BY <2>4, <4>1
      <4>3. g[k] = g[k - 1] \o h[k]
        BY <2>2, <3>2
      <4>4. QED
        BY <1>5, <4>1, <4>2, <4>3
    <3>3. QED
      BY <3>1, <3>2
  <2>5. n \in S
    <3> HIDE DEF S, n
    <3>1. 0..n \subseteq S
      BY <1>1, <2>3, <2>4, Upto
    <3>2. QED
      BY <1>1, <3>1
  <2>6. t[n] = FlattenSeq(h)
    BY <1>7, <2>2, <2>5
  <2>7. QED
    BY <1>4, <1>5, <2>6
<1>8. QED
  BY <1>6, <1>7

\* and is no different for what comes after.
LEMMA FlattenGrows ==
    ASSUME NEW A, NEW h \in Seq(Seq(A)), NEW k \in Seq(Seq(A)),
           Len(k) = Len(h) + 1, \A i \in 1..Len(h) : k[i] = h[i]
    PROVE  /\ FlattenSeq(h) \in Seq(A)
           /\ FlattenSeq(k) = FlattenSeq(h) \o k[Len(k)]
<1> DEFINE n == Len(h)
<1>1. n \in Nat /\ Len(k) = n + 1 /\ n \in 0..n
  OBVIOUS
<1>2. PICK t \in [0..n -> Seq(A)] :
          /\ t[0] = <<>> /\ t[n] = FlattenSeq(h)
          /\ \A i \in 1..n : t[i] = t[i - 1] \o h[i]
  BY FlattenSteps
<1>3. PICK u \in [0..n + 1 -> Seq(A)] :
          /\ u[0] = <<>> /\ u[n + 1] = FlattenSeq(k)
          /\ \A i \in 1..(n + 1) : u[i] = u[i - 1] \o k[i]
  <2>1. \E u \in [0..Len(k) -> Seq(A)] :
            /\ u[0] = <<>> /\ u[Len(k)] = FlattenSeq(k)
            /\ \A i \in 1..Len(k) : u[i] = u[i - 1] \o k[i]
    BY FlattenSteps
  <2>2. QED
    BY <1>1, <2>1
<1> DEFINE S == {i \in 0..n : u[i] = t[i]}
<1>4. n \in S
  <2>1. 0 \in S
    BY <1>1, <1>2, <1>3
  <2>2. ASSUME NEW i \in 1..n, i - 1 \in S PROVE i \in S
    <3>1. i \in 1..(n + 1) /\ i \in 0..n /\ u[i - 1] = t[i - 1] /\ k[i] = h[i]
      BY <1>1, <2>2
    <3>2. QED
      BY <1>2, <1>3, <3>1
  <2>3. 0..n \subseteq S
    <3> HIDE DEF S, n
    <3>1. QED
      BY <1>1, <2>1, <2>2, Upto
  <2>4. QED
    BY <1>1, <2>3
<1>5. u[n + 1] = u[n] \o k[n + 1]
  <2>1. n + 1 \in 1..(n + 1) /\ (n + 1) - 1 = n
    BY <1>1
  <2>2. QED
    BY <1>3, <2>1
<1>6. QED
  BY <1>1, <1>2, <1>3, <1>4, <1>5

(***************************************************************************)
(* What a configuration file comes to.                                     *)
(***************************************************************************)

\* The struct after each line of the file.
Loops(t, kind, file) ==
    /\ t[0] = [refused |-> FALSE, out |-> Fresh(kind)]
    /\ t[Len(file.lines)] = Loop(kind, file)
    /\ \A k \in 1..Len(file.lines) : t[k] = Turn(kind, t[k - 1], file.lines[k])

\* The states of the loop, for the values of the file.
Values(file) == {file.lines[i].value : i \in DOMAIN file.lines}
States(kind, file) ==
    [refused : BOOLEAN, out : [Keys(kind) -> Values(file) \cup {Fresh(kind)[key] : key \in Keys(kind)}]]

LEMMA LinesAre ==
    ASSUME NEW file \in Configs
    PROVE  /\ Len(file.lines) \in Nat /\ DOMAIN file.lines = 1..Len(file.lines)
           /\ file.lines \in [1..Len(file.lines) -> {file.lines[i] : i \in DOMAIN file.lines}]
<1> DEFINE L == {file.lines[i] : i \in DOMAIN file.lines}
<1>1. file.lines \in Seq(L)
  BY SessionAssumption
<1> HIDE DEF L
<1>2. /\ Len(file.lines) \in Nat /\ DOMAIN file.lines = 1..Len(file.lines)
      /\ file.lines \in [1..Len(file.lines) -> L]
  BY <1>1
<1>3. QED
  BY <1>2 DEF L

LEMMA FreshType ==
    ASSUME NEW kind
    PROVE  DOMAIN Fresh(kind) = Keys(kind)
BY DEF Fresh, Zeroed

LEMMA TurnType ==
    ASSUME NEW kind, NEW file, NEW acc \in States(kind, file), NEW i \in DOMAIN file.lines
    PROVE  Turn(kind, acc, file.lines[i]) \in States(kind, file)
<1> DEFINE line == file.lines[i]
           V == Values(file) \cup {Fresh(kind)[key] : key \in Keys(kind)}
<1>1. line.value \in V
  BY DEF Values
<1>2. acc = [refused |-> acc.refused, out |-> acc.out]
      /\ acc.refused \in BOOLEAN /\ acc.out \in [Keys(kind) -> V]
  BY DEF States
<1> HIDE DEF line, V
<1>3. (kind = "rxo") \in BOOLEAN
  OBVIOUS
<1>4. [acc EXCEPT !.refused = (kind = "rxo")] \in [refused : BOOLEAN, out : [Keys(kind) -> V]]
  BY <1>2, <1>3
<1>5. [acc EXCEPT !.refused = TRUE] \in [refused : BOOLEAN, out : [Keys(kind) -> V]]
  BY <1>2
<1>6. ASSUME line.key \in Keys(kind)
      PROVE  [acc EXCEPT !.out[line.key] = line.value] \in [refused : BOOLEAN, out : [Keys(kind) -> V]]
  BY <1>1, <1>2, <1>6
<1>7. acc \in [refused : BOOLEAN, out : [Keys(kind) -> V]]
  BY DEF States, V
<1>8. Turn(kind, acc, line) \in [refused : BOOLEAN, out : [Keys(kind) -> V]]
  BY <1>4, <1>5, <1>6, <1>7 DEF Turn
<1>9. QED
  BY <1>8 DEF States, V, line

LEMMA LoopSteps ==
    ASSUME NEW kind, NEW file \in Configs
    PROVE  \E t \in [0..Len(file.lines) -> States(kind, file)] : Loops(t, kind, file)
<1> DEFINE s == file.lines
           n == Len(s)
           A == States(kind, file)
           B == {s[i] : i \in DOMAIN s}
           base == [refused |-> FALSE, out |-> Fresh(kind)]
           with(x, y) == Turn(kind, x, y)
           F == [x \in A |-> [y \in B |-> with(x, y)]]
           Eq(g) == g = [u \in SUBSET (1..n) |->
                            IF u = {} THEN base ELSE with(g[u \ {Max(u)}], s[Max(u)])]
<1>1. n \in Nat /\ s \in [1..n -> B] /\ DOMAIN s = 1..n
  BY LinesAre
<1>2. F \in [A -> [B -> A]] /\ base \in A /\ \A x \in A, y \in B : F[x][y] = with(x, y)
  <2>1. base \in A
    <3> DEFINE f == Fresh(kind)
    <3>1. DOMAIN f = Keys(kind) /\ f = [key \in DOMAIN f |-> f[key]]
      BY FreshType DEF Fresh, Zeroed
    <3> HIDE DEF f
    <3>2. f \in [Keys(kind) -> Values(file) \cup {f[key] : key \in Keys(kind)}]
      BY <3>1
    <3>3. QED
      BY <3>2 DEF States, f
  <2>2. ASSUME NEW x \in A, NEW y \in B PROVE with(x, y) \in A
    BY TurnType
  <2> HIDE DEF A, B, base, with
  <2>3. QED
    BY <2>1, <2>2
<1>3. Folds(A, B, F, base, n, s)
  <2> HIDE DEF A, B, base, n, s, F
  <2>1. QED
    BY <1>1, <1>2 DEF Folds
<1>4. (\E g : Eq(g)) => \E g : Eq(g) /\ Loop(kind, file) = g[1..n]
  BY <1>1 DEF Loop, FoldLeft, MapThenFoldSet
<1>5. \E t \in [0..n -> A] :
          /\ t[0] = base /\ t[n] = Loop(kind, file)
          /\ \A k \in 1..n : t[k] = with(t[k - 1], s[k])
  <2> HIDE DEF s, n, A, B, base, with, F
  <2>1. PICK f : Tabulates(f, A, F, base, n, s)
    BY <1>3, FoldExists
  <2>2. /\ f \in [SUBSET (1..n) -> A]
        /\ \A u \in SUBSET (1..n) :
              f[u] = IF u = {} THEN base ELSE F[f[u \ {Max(u)}]][s[Max(u)]]
    BY <2>1 DEF Tabulates
  <2>3. ASSUME NEW u \in SUBSET (1..n)
        PROVE  f[u] = IF u = {} THEN base ELSE with(f[u \ {Max(u)}], s[Max(u)])
    <3>1. CASE u = {}
      BY <2>2, <3>1
    <3>2. CASE u # {}
      <4>1. Max(u) \in 1..n
        BY <1>1, <3>2, MaxIn
      <4>2. u \ {Max(u)} \in SUBSET (1..n)
        OBVIOUS
      <4>3. f[u \ {Max(u)}] \in A /\ s[Max(u)] \in B
        BY <1>1, <2>2, <4>1, <4>2
      <4>4. QED
        BY <1>2, <2>2, <3>2, <4>3
    <3>3. QED
      BY <3>1, <3>2
  <2>4. Eq(f)
    BY <2>2, <2>3
  <2>5. PICK g : Eq(g) /\ Loop(kind, file) = g[1..n]
    BY <1>4, <2>4
  <2>6. g[1..0] = base
    <3>1. 1..0 = {} /\ 1..0 \in SUBSET (1..n)
      BY <1>1
    <3>2. QED
      BY <2>5, <3>1
  <2>7. ASSUME NEW k \in 1..n PROVE g[1..k] = with(g[1..(k - 1)], s[k])
    BY <1>1, <2>5, PrefixSets, ZenonT(30)
  <2>8. \A k \in 1..n : g[1..(k - 1)] \in A => g[1..k] = F[g[1..(k - 1)]][s[k]]
    BY <1>1, <1>2, <2>7
  <2>9. PICK t \in [0..n -> A] :
            /\ t[0] = base /\ t[n] = g[1..n]
            /\ \A k \in 1..n : t[k] = F[t[k - 1]][s[k]]
    BY <1>3, <2>6, <2>8, FoldTable
  <2>10. ASSUME NEW k \in 1..n PROVE t[k] = with(t[k - 1], s[k])
    <3>1. k - 1 \in 0..n
      BY <1>1
    <3>2. t[k - 1] \in A /\ s[k] \in B
      BY <1>1, <3>1
    <3>3. QED
      BY <1>2, <2>9, <3>2
  <2>11. QED
    BY <2>5, <2>9, <2>10
<1>6. QED
  BY <1>5 DEF Loops

\* What the first k lines mean.
Sets(file, key, k) == {i \in 1..k : file.lines[i].key = key}
Means(acc, kind, file, k) ==
    /\ acc.refused <=> \E i \in 1..k : Wrong(kind, file.lines[i])
    /\ ~acc.refused => \A key \in Keys(kind) :
           acc.out[key] = IF Sets(file, key, k) = {} THEN Fresh(kind)[key]
                          ELSE file.lines[Max(Sets(file, key, k))].value

\* A line more.
LEMMA SetsGrow ==
    ASSUME NEW file, NEW key, NEW k \in Nat \ {0}
    PROVE  /\ file.lines[k].key = key =>
                  Sets(file, key, k) # {} /\ Max(Sets(file, key, k)) = k
           /\ file.lines[k].key # key => Sets(file, key, k) = Sets(file, key, k - 1)
<1>1. ASSUME file.lines[k].key = key
      PROVE  Sets(file, key, k) # {} /\ Max(Sets(file, key, k)) = k
  <2>1. k \in Sets(file, key, k) /\ Sets(file, key, k) \in SUBSET (1..k)
    BY <1>1 DEF Sets
  <2>2. QED
    BY <2>1, MaxIs
<1>2. ASSUME file.lines[k].key # key
      PROVE  Sets(file, key, k) = Sets(file, key, k - 1)
  BY <1>2 DEF Sets
<1>3. QED
  BY <1>1, <1>2

LEMMA NoKey ==
    ASSUME NEW kind \in Kinds
    PROVE  Skipped.key \notin Keys(kind)
BY DEF Skipped, Keys, Kinds

LEMMA TurnMeans ==
    ASSUME NEW kind \in Kinds, NEW file \in Configs, NEW k \in 1..Len(file.lines),
           NEW acc \in States(kind, file), Means(acc, kind, file, k - 1)
    PROVE  Means(Turn(kind, acc, file.lines[k]), kind, file, k)
<1> DEFINE line == file.lines[k]
           next == Turn(kind, acc, line)
           V == Values(file) \cup {Fresh(kind)[key] : key \in Keys(kind)}
<1>1. k \in Nat \ {0} /\ k - 1 \in Nat /\ \A i : i \in 1..k <=> i \in 1..(k - 1) \/ i = k
  BY LinesAre
<1>2. acc = [refused |-> acc.refused, out |-> acc.out]
      /\ acc.refused \in BOOLEAN /\ acc.out \in [Keys(kind) -> V]
  BY DEF States
<1> HIDE DEF V
<1>3. (\E i \in 1..k : Wrong(kind, file.lines[i])) <=>
          (\E i \in 1..(k - 1) : Wrong(kind, file.lines[i])) \/ Wrong(kind, line)
  BY <1>1
<1>4. CASE acc.refused
  <2>1. next = acc
    BY <1>4 DEF Turn
  <2>2. QED
    BY <1>3, <1>4, <2>1 DEF Means
\* A line that sets nothing.
<1>5. ASSUME ~acc.refused, next.refused = FALSE, next.out = acc.out, line.key \notin Keys(kind),
             ~Wrong(kind, line)
      PROVE  Means(next, kind, file, k)
  <2>1. \A key \in Keys(kind) : Sets(file, key, k) = Sets(file, key, k - 1)
    BY <1>1, <1>5, SetsGrow
  <2> HIDE DEF next, line
  <2>2. QED
    BY <1>3, <1>5, <2>1 DEF Means
<1>6. CASE ~acc.refused /\ line = Skipped
  <2>1. next = acc
    BY <1>6 DEF Turn
  <2>2. line.key \notin Keys(kind) /\ ~Wrong(kind, line)
    BY <1>6, NoKey DEF Wrong
  <2>3. QED
    BY <1>2, <1>5, <1>6, <2>1, <2>2
<1>7. CASE ~acc.refused /\ line # Skipped /\ line.key \notin Keys(kind)
  <2>1. next = [acc EXCEPT !.refused = (kind = "rxo")]
    BY <1>7 DEF Turn
  <2>2. next.refused = (kind = "rxo") /\ next.out = acc.out
    BY <1>2, <2>1
  <2>3. Wrong(kind, line) <=> kind = "rxo"
    BY <1>7 DEF Wrong
  <2>4. CASE kind = "rxo"
    <3>1. next.refused /\ \E i \in 1..k : Wrong(kind, file.lines[i])
      BY <1>3, <2>2, <2>3, <2>4
    <3> HIDE DEF next, line
    <3>2. Means(next, kind, file, k)
      BY <3>1 DEF Means
    <3>3. QED
      BY <3>2 DEF next, line
  <2>5. CASE kind # "rxo"
    BY <1>5, <1>7, <2>2, <2>3, <2>5
  <2>6. QED
    BY <2>4, <2>5
<1>8. CASE ~acc.refused /\ line # Skipped /\ line.key \in Keys(kind) /\ Accepts(line.key, line.value)
  <2>1. next = [acc EXCEPT !.out[line.key] = line.value]
    BY <1>8 DEF Turn
  <2>2. /\ next.refused = acc.refused
        /\ next.out = [acc.out EXCEPT ![line.key] = line.value]
    BY <1>2, <2>1
  <2>3. ~Wrong(kind, line)
    BY <1>8 DEF Wrong
  <2>4. ASSUME NEW key \in Keys(kind)
        PROVE  next.out[key] = IF Sets(file, key, k) = {} THEN Fresh(kind)[key]
                               ELSE file.lines[Max(Sets(file, key, k))].value
    <3>1. CASE key = line.key
      <4>1. next.out[key] = line.value
        BY <1>2, <1>8, <2>2, <3>1
      <4>2. Sets(file, key, k) # {} /\ Max(Sets(file, key, k)) = k
        BY <1>1, <3>1, SetsGrow
      <4>3. QED
        BY <4>1, <4>2
    <3>2. CASE key # line.key
      <4>1. next.out[key] = acc.out[key]
        BY <1>2, <2>2, <3>2
      <4>2. Sets(file, key, k) = Sets(file, key, k - 1)
        BY <1>1, <3>2, SetsGrow
      <4>3. QED
        BY <1>8, <4>1, <4>2 DEF Means
    <3>3. QED
      BY <3>1, <3>2
  <2>5. ~next.refused /\ ~\E i \in 1..k : Wrong(kind, file.lines[i])
    BY <1>3, <1>8, <2>2, <2>3 DEF Means
  <2> HIDE DEF next
  <2>6. Means(next, kind, file, k)
    BY <2>4, <2>5 DEF Means
  <2>7. QED
    BY <2>6 DEF next
<1>9. CASE ~acc.refused /\ line # Skipped /\ line.key \in Keys(kind) /\ ~Accepts(line.key, line.value)
  <2>1. next = [acc EXCEPT !.refused = TRUE]
    BY <1>9 DEF Turn
  <2>2. next.refused
    BY <1>2, <2>1
  <2>3. Wrong(kind, line)
    BY <1>9 DEF Wrong
  <2>4. QED
    BY <1>3, <2>2, <2>3 DEF Means
<1>10. QED
  BY <1>2, <1>4, <1>6, <1>7, <1>8, <1>9

\* Each parser returns what the file means.
LEMMA ParseIsMeaning ==
    ASSUME NEW kind \in Kinds, NEW file \in Configs
    PROVE  Parse(kind, file) = Meaning(kind, file)
<1> DEFINE n == Len(file.lines)
           end == Loop(kind, file)
<1>1. n \in Nat /\ DOMAIN file.lines = 1..n
  BY LinesAre
<1>2. PICK t \in [0..n -> States(kind, file)] : Loops(t, kind, file)
  BY LoopSteps
<1>3. /\ t[0] = [refused |-> FALSE, out |-> Fresh(kind)] /\ t[n] = end
      /\ \A k \in 1..n : t[k] = Turn(kind, t[k - 1], file.lines[k])
  BY <1>2 DEF Loops
<1> DEFINE S == {k \in 0..n : Means(t[k], kind, file, k)}
<1>4. 0 \in S
  <2>1. \A key \in Keys(kind) : Sets(file, key, 0) = {}
    BY DEF Sets
  <2>2. Means(t[0], kind, file, 0)
    BY <1>3, <2>1 DEF Means
  <2>3. QED
    BY <1>1, <2>2
<1>5. ASSUME NEW k \in 1..n, k - 1 \in S PROVE k \in S
  <2>1. k \in 0..n /\ k - 1 \in 0..n /\ Means(t[k - 1], kind, file, k - 1)
    BY <1>1, <1>5
  <2>2. t[k - 1] \in States(kind, file)
    BY <2>1
  <2>3. Means(Turn(kind, t[k - 1], file.lines[k]), kind, file, k)
    BY <2>1, <2>2, TurnMeans
  <2>4. QED
    BY <1>3, <2>1, <2>3
<1>6. n \in S
  <2> HIDE DEF S, n
  <2>1. 0..n \subseteq S
    BY <1>1, <1>4, <1>5, Upto
  <2>2. QED
    BY <1>1, <2>1
<1>7. Means(end, kind, file, n)
  BY <1>3, <1>6
<1>8. end \in States(kind, file)
  BY <1>1, <1>3
<1>9. DOMAIN end.out = Keys(kind) /\ end.out = [key \in Keys(kind) |-> end.out[key]]
  BY <1>8 DEF States
<1> HIDE DEF end
<1>10. CASE ~Opens(kind, file)
  BY <1>10 DEF Parse, Meaning
<1>11. CASE Opens(kind, file) /\ end.refused
  BY <1>1, <1>7, <1>11 DEF Parse, Meaning, Refused, Means, end
<1>12. CASE Opens(kind, file) /\ ~end.refused
  <2>1. Parse(kind, file) = end.out
    BY <1>12 DEF Parse, end
  <2>2. \A key : Sets(file, key, n) = {i \in DOMAIN file.lines : file.lines[i].key = key}
    BY <1>1 DEF Sets
  <2>3. ~\E i \in DOMAIN file.lines : Wrong(kind, file.lines[i])
    BY <1>1, <1>7, <1>12 DEF Means
  <2>4. Meaning(kind, file) =
            [key \in Keys(kind) |-> IF Sets(file, key, n) = {} THEN Fresh(kind)[key]
                                    ELSE file.lines[Max(Sets(file, key, n))].value]
    BY <1>12, <2>2, <2>3 DEF Meaning
  <2>5. QED
    BY <1>7, <1>9, <1>12, <2>1, <2>4 DEF Means
<1>13. QED
  BY <1>10, <1>11, <1>12

(***************************************************************************)
(* What a report is read back as.                                          *)
(***************************************************************************)

\* The states of the reader of a text with lines from L.
Recorded(L) == [target : L, status : {Code(l) : l \in L} \cup {0}, body : Seq(L)]
Reads(L) ==
    [step : {"target", "rule", "status", "second_rule", "body"},
     record : Recorded(L), records : Seq(Recorded(L))]

\* The record a state holds when its reading ends.
Ending(acc) == IF acc.step = "body" THEN Push(acc).records ELSE acc.records

LEMMA ReadType ==
    ASSUME NEW L, Blank \in L, NEW acc \in Reads(L), NEW line \in L
    PROVE  ReadLine(acc, line) \in Reads(L)
<1> DEFINE S == {Code(l) : l \in L} \cup {0}
           R == Recorded(L)
           Q == Seq(L)
           Steps == {"target", "rule", "status", "second_rule", "body"}
<1>1. /\ acc = [step |-> acc.step, record |-> acc.record, records |-> acc.records]
      /\ acc.step \in Steps /\ acc.record \in R /\ acc.records \in Seq(R)
  BY DEF Reads
<1>2. /\ acc.record = [target |-> acc.record.target, status |-> acc.record.status,
                       body |-> acc.record.body]
      /\ acc.record.target \in L /\ acc.record.status \in S /\ acc.record.body \in Q
  BY <1>1 DEF Recorded
<1>3. Code(line) \in S /\ 0 \in S /\ <<>> \in Q /\ Append(acc.record.body, line) \in Q
  BY <1>2
<1>4. \A st \in Steps, r \in R, rs \in Seq(R) :
          [step |-> st, record |-> r, records |-> rs] \in Reads(L)
  BY DEF Reads
<1>5. \A tg \in L, st \in S, b \in Q : [target |-> tg, status |-> st, body |-> b] \in R
  BY DEF Recorded
<1>6. Append(acc.records, acc.record) \in Seq(R)
  <2>1. acc.records \in Seq(R) /\ acc.record \in R
    BY <1>1
  <2> HIDE DEF R
  <2>2. QED
    BY <2>1
<1> HIDE DEF R, S, Q
<1>7. CASE acc.step = "target"
  <2>1. [Nothing EXCEPT !.target = line] = [target |-> line, status |-> 0, body |-> <<>>]
    BY DEF Nothing
  <2>2. [target |-> line, status |-> 0, body |-> <<>>] \in R
    BY <1>3, <1>5
  <2>3. ReadLine(acc, line) = ReadTarget(acc, line)
    BY <1>7 DEF ReadLine
  <2>4. line # Blank =>
            ReadTarget(acc, line) =
                [step |-> "rule", record |-> [target |-> line, status |-> 0, body |-> <<>>],
                 records |-> acc.records]
    BY <1>1, <2>1 DEF ReadTarget
  <2>5. line = Blank => ReadTarget(acc, line) = acc
    BY DEF ReadTarget
  <2>6. QED
    BY <1>1, <1>4, <2>2, <2>3, <2>4, <2>5
<1>8. ASSUME NEW next \in Steps PROVE ReadRule(acc, line, next) \in Reads(L)
  <2>1. ReadRule(acc, line, next) =
            [step |-> IF line = Rule THEN next ELSE "target", record |-> acc.record,
             records |-> acc.records]
    BY <1>1 DEF ReadRule
  <2>2. QED
    BY <1>1, <1>4, <1>8, <2>1
<1>9. CASE acc.step = "rule" \/ acc.step = "second_rule"
  BY <1>8, <1>9 DEF ReadLine
<1>10. CASE acc.step = "status"
  <2>1. [target |-> acc.record.target, status |-> Code(line), body |-> acc.record.body] \in R
    BY <1>2, <1>3, <1>5
  <2>2. ReadLine(acc, line) =
            [step |-> "second_rule", records |-> acc.records,
             record |-> [target |-> acc.record.target, status |-> Code(line),
                         body |-> acc.record.body]]
    BY <1>1, <1>2, <1>10 DEF ReadLine, ReadStatus
  <2>3. QED
    BY <1>1, <1>4, <2>1, <2>2
<1>11. CASE acc.step = "body"
  <2>1. [target |-> acc.record.target, status |-> acc.record.status,
         body |-> Append(acc.record.body, line)] \in R
    BY <1>2, <1>3, <1>5
  <2>2. ReadLine(acc, line) = ReadBody(acc, line)
    BY <1>11 DEF ReadLine
  <2>3. line # Blank =>
            ReadBody(acc, line) =
                [step |-> "body", records |-> acc.records,
                 record |-> [target |-> acc.record.target, status |-> acc.record.status,
                             body |-> Append(acc.record.body, line)]]
    BY <1>1, <1>2, <1>11 DEF ReadBody, EndsBody
  <2>4. line = Blank =>
            ReadBody(acc, line) =
                [step |-> "target", records |-> Append(acc.records, acc.record),
                 record |-> acc.record]
    BY <1>1 DEF ReadBody, EndsBody, Push
  <2>5. QED
    BY <1>1, <1>4, <1>6, <2>1, <2>2, <2>3, <2>4
<1>12. QED
  BY <1>1, <1>7, <1>9, <1>10, <1>11

\* The reader line by line,
LEMMA ReadSteps ==
    ASSUME NEW L, Blank \in L, NEW text \in Seq(L)
    PROVE  \E t \in [0..Len(text) -> Reads(L)] :
               /\ t[0] = Start /\ Records(text) = Ending(t[Len(text)])
               /\ \A k \in 1..Len(text) : t[k] = ReadLine(t[k - 1], text[k])
<1> DEFINE n == Len(text)
           A == Reads(L)
           B == L
           base == Start
           with(x, y) == ReadLine(x, y)
           F == [x \in A |-> [y \in B |-> with(x, y)]]
           Eq(g) == g = [u \in SUBSET (1..n) |->
                            IF u = {} THEN base ELSE with(g[u \ {Max(u)}], text[Max(u)])]
<1>1. n \in Nat /\ text \in [1..n -> B] /\ DOMAIN text = 1..n
  OBVIOUS
<1>2. F \in [A -> [B -> A]] /\ base \in A /\ \A x \in A, y \in B : F[x][y] = with(x, y)
  <2>1. ASSUME NEW x \in A, NEW y \in B PROVE with(x, y) \in A
    BY ReadType
  <2>2. base \in A
    <3>1. Nothing \in Recorded(L)
      BY DEF Nothing, Recorded
    <3>2. <<>> \in Seq(Recorded(L))
      OBVIOUS
    <3>3. QED
      BY <3>1, <3>2 DEF Start, Reads
  <2> HIDE DEF A, B, base, with
  <2>3. QED
    BY <2>1, <2>2
<1>3. Folds(A, B, F, base, n, text)
  <2> HIDE DEF A, B, base, n, F
  <2>1. QED
    BY <1>1, <1>2 DEF Folds
<1>4. (\E g : Eq(g)) => \E g : Eq(g) /\ ReadAll(text) = g[1..n]
  BY <1>1 DEF ReadAll, FoldLeft, MapThenFoldSet
<1>5. \E t \in [0..n -> A] :
          /\ t[0] = base /\ ReadAll(text) = t[n]
          /\ \A k \in 1..n : t[k] = with(t[k - 1], text[k])
  <2> HIDE DEF n, A, B, base, with, F
  <2>1. PICK f : Tabulates(f, A, F, base, n, text)
    BY <1>3, FoldExists
  <2>2. /\ f \in [SUBSET (1..n) -> A]
        /\ \A u \in SUBSET (1..n) :
              f[u] = IF u = {} THEN base ELSE F[f[u \ {Max(u)}]][text[Max(u)]]
    BY <2>1 DEF Tabulates
  <2>3. ASSUME NEW u \in SUBSET (1..n)
        PROVE  f[u] = IF u = {} THEN base ELSE with(f[u \ {Max(u)}], text[Max(u)])
    <3>1. CASE u = {}
      BY <2>2, <3>1
    <3>2. CASE u # {}
      <4>1. Max(u) \in 1..n
        BY <1>1, <3>2, MaxIn
      <4>2. u \ {Max(u)} \in SUBSET (1..n)
        OBVIOUS
      <4>3. f[u \ {Max(u)}] \in A /\ text[Max(u)] \in B
        BY <1>1, <2>2, <4>1, <4>2
      <4>4. QED
        BY <1>2, <2>2, <3>2, <4>3
    <3>3. QED
      BY <3>1, <3>2
  <2>4. Eq(f)
    BY <2>2, <2>3
  <2>5. PICK g : Eq(g) /\ ReadAll(text) = g[1..n]
    BY <1>4, <2>4
  <2>6. g[1..0] = base
    <3>1. 1..0 = {} /\ 1..0 \in SUBSET (1..n)
      BY <1>1
    <3>2. QED
      BY <2>5, <3>1
  <2>7. ASSUME NEW k \in 1..n PROVE g[1..k] = with(g[1..(k - 1)], text[k])
    <3>1. \A u \in SUBSET (1..n) :
              g[u] = IF u = {} THEN base ELSE with(g[u \ {Max(u)}], text[Max(u)])
      BY <2>5
    <3>2. /\ 1..k \in SUBSET (1..n) /\ 1..k # {}
          /\ Max(1..k) = k /\ (1..k) \ {k} = 1..(k - 1)
      BY <1>1, PrefixSets
    <3>3. QED
      BY <3>1, <3>2
  <2>8. \A k \in 1..n : g[1..(k - 1)] \in A => g[1..k] = F[g[1..(k - 1)]][text[k]]
    BY <1>1, <1>2, <2>7
  <2>9. PICK t \in [0..n -> A] :
            /\ t[0] = base /\ t[n] = g[1..n]
            /\ \A k \in 1..n : t[k] = F[t[k - 1]][text[k]]
    BY <1>3, <2>6, <2>8, FoldTable
  <2>10. ASSUME NEW k \in 1..n PROVE t[k] = with(t[k - 1], text[k])
    <3>1. k - 1 \in 0..n
      BY <1>1
    <3>2. t[k - 1] \in A /\ text[k] \in B
      BY <1>1, <3>1
    <3>3. QED
      BY <1>2, <2>9, <3>2
  <2>11. QED
    BY <2>5, <2>9, <2>10
<1>6. QED
  BY <1>5 DEF Records, Ending

\* and what it should have read row by row.
LEMMA ReadBackSteps ==
    ASSUME NEW R, NEW rows \in Seq(R)
    PROVE  \E t \in [0..Len(rows) -> Seq({AsRead(r) : r \in R})] :
               /\ t[0] = <<>> /\ t[Len(rows)] = ReadBack(rows)
               /\ \A k \in 1..Len(rows) :
                      t[k] = IF rows[k].target = Blank THEN t[k - 1]
                             ELSE Append(t[k - 1], AsRead(rows[k]))
<1> DEFINE n == Len(rows)
           E == {AsRead(r) : r \in R}
           A == Seq(E)
           B == R
           base == <<>>
           with(x, y) == IF y.target = Blank THEN x ELSE Append(x, AsRead(y))
           F == [x \in A |-> [y \in B |-> with(x, y)]]
           Eq(g) == g = [u \in SUBSET (1..n) |->
                            IF u = {} THEN base ELSE with(g[u \ {Max(u)}], rows[Max(u)])]
<1>1. n \in Nat /\ rows \in [1..n -> B] /\ DOMAIN rows = 1..n
  OBVIOUS
<1>2. F \in [A -> [B -> A]] /\ base \in A /\ \A x \in A, y \in B : F[x][y] = with(x, y)
  <2>1. ASSUME NEW x \in A, NEW y \in B PROVE with(x, y) \in A
    <3>1. AsRead(y) \in E
      OBVIOUS
    <3> HIDE DEF E
    <3>2. QED
      BY <3>1
  <2>2. base \in A
    OBVIOUS
  <2> HIDE DEF A, B, base, with
  <2>3. QED
    BY <2>1, <2>2
<1>3. Folds(A, B, F, base, n, rows)
  <2> HIDE DEF A, B, base, n, F
  <2>1. QED
    BY <1>1, <1>2 DEF Folds
<1>4. (\E g : Eq(g)) => \E g : Eq(g) /\ ReadBack(rows) = g[1..n]
  BY <1>1 DEF ReadBack, FoldLeft, MapThenFoldSet
<1>5. \E t \in [0..n -> A] :
          /\ t[0] = base /\ ReadBack(rows) = t[n]
          /\ \A k \in 1..n : t[k] = with(t[k - 1], rows[k])
  <2> HIDE DEF n, A, B, base, with, F
  <2>1. PICK f : Tabulates(f, A, F, base, n, rows)
    BY <1>3, FoldExists
  <2>2. /\ f \in [SUBSET (1..n) -> A]
        /\ \A u \in SUBSET (1..n) :
              f[u] = IF u = {} THEN base ELSE F[f[u \ {Max(u)}]][rows[Max(u)]]
    BY <2>1 DEF Tabulates
  <2>3. ASSUME NEW u \in SUBSET (1..n)
        PROVE  f[u] = IF u = {} THEN base ELSE with(f[u \ {Max(u)}], rows[Max(u)])
    <3>1. CASE u = {}
      BY <2>2, <3>1
    <3>2. CASE u # {}
      <4>1. Max(u) \in 1..n
        BY <1>1, <3>2, MaxIn
      <4>2. u \ {Max(u)} \in SUBSET (1..n)
        OBVIOUS
      <4>3. f[u \ {Max(u)}] \in A /\ rows[Max(u)] \in B
        BY <1>1, <2>2, <4>1, <4>2
      <4>4. QED
        BY <1>2, <2>2, <3>2, <4>3
    <3>3. QED
      BY <3>1, <3>2
  <2>4. Eq(f)
    BY <2>2, <2>3
  <2>5. PICK g : Eq(g) /\ ReadBack(rows) = g[1..n]
    BY <1>4, <2>4
  <2>6. g[1..0] = base
    <3>1. 1..0 = {} /\ 1..0 \in SUBSET (1..n)
      BY <1>1
    <3>2. QED
      BY <2>5, <3>1
  <2>7. ASSUME NEW k \in 1..n PROVE g[1..k] = with(g[1..(k - 1)], rows[k])
    <3>1. \A u \in SUBSET (1..n) :
              g[u] = IF u = {} THEN base ELSE with(g[u \ {Max(u)}], rows[Max(u)])
      BY <2>5
    <3>2. /\ 1..k \in SUBSET (1..n) /\ 1..k # {}
          /\ Max(1..k) = k /\ (1..k) \ {k} = 1..(k - 1)
      BY <1>1, PrefixSets
    <3>3. QED
      BY <3>1, <3>2
  <2>8. \A k \in 1..n : g[1..(k - 1)] \in A => g[1..k] = F[g[1..(k - 1)]][rows[k]]
    BY <1>1, <1>2, <2>7
  <2>9. PICK t \in [0..n -> A] :
            /\ t[0] = base /\ t[n] = g[1..n]
            /\ \A k \in 1..n : t[k] = F[t[k - 1]][rows[k]]
    BY <1>3, <2>6, <2>8, FoldTable
  <2>10. ASSUME NEW k \in 1..n PROVE t[k] = with(t[k - 1], rows[k])
    <3>1. k - 1 \in 0..n
      BY <1>1
    <3>2. t[k - 1] \in A /\ rows[k] \in B
      BY <1>1, <3>1
    <3>3. QED
      BY <1>2, <2>9, <3>2
  <2>11. QED
    BY <2>5, <2>9, <2>10
<1>6. QED
  BY <1>5

\* The lines a report may have.
Alphabet ==
    {Blank, Rule, Warn} \cup {<<"name", t>> : t \in Targets}
    \cup {<<"code", a.status>> : a \in Answers}
    \cup UNION {{r.body[i] : i \in DOMAIN r.body} : r \in Replies}

LEMMA Forms ==
    /\ Blank # Rule /\ Warn # Blank /\ Warn # Rule
    /\ \A t : <<"name", t>> # Blank /\ <<"name", t>> # Rule
    /\ \A n : /\ <<"code", n>> # Blank /\ <<"code", n>> # Rule
              /\ Code(<<"code", n>>) = n
BY DEF Blank, Rule, Warn, Code

LEMMA AnswerType ==
    ASSUME NEW row \in Answers
    PROVE  /\ row.target \in Alphabet /\ row.target # Rule
           /\ <<"code", row.status>> \in Alphabet
           /\ Printed(row) \in Seq(Alphabet) /\ Printed(row) # <<>>
           /\ row.target = Blank => row = Unasked
           /\ row = [target |-> row.target, status |-> row.status, body |-> row.body]
<1>1. {Blank, Rule, Warn} \subseteq Alphabet /\ <<"code", row.status>> \in Alphabet
  BY DEF Alphabet
<1>2. CASE row = Unasked
  <2>1. row.target = Blank /\ row.body = <<>>
    BY <1>2 DEF Unasked
  <2>2. Printed(row) = <<Warn>> /\ Warn \in Alphabet
    BY <1>1, <2>1 DEF Printed
  <2>3. Printed(row) \in Seq(Alphabet) /\ Printed(row) # <<>>
    BY <2>2
  <2>4. QED
    BY <1>1, <1>2, <2>1, <2>3, Forms DEF Unasked
<1>3. CASE row \in Asked
  <2>1. PICK t \in Targets, r \in Replies :
            row = [target |-> <<"name", t>>, status |-> r.status, body |-> r.body]
    BY <1>3 DEF Asked
  <2>2. row.target = <<"name", t>> /\ row.body = r.body /\ row.target \in Alphabet
    BY <2>1 DEF Alphabet
  <2>3. r.body \in Seq(Alphabet)
    <3> DEFINE b == r.body
               L == {r.body[i] : i \in DOMAIN r.body}
    <3>1. b \in Seq(L)
      BY SessionAssumption
    <3>2. L \subseteq Alphabet
      BY DEF Alphabet
    <3> HIDE DEF b, L
    <3>3. Len(b) \in Nat /\ b \in [1..Len(b) -> L]
      BY <3>1
    <3>4. b \in [1..Len(b) -> Alphabet]
      BY <3>2, <3>3
    <3>5. b \in Seq(Alphabet)
      BY <3>3, <3>4
    <3>6. QED
      BY <3>5 DEF b
  <2>4. Printed(row) \in Seq(Alphabet) /\ Printed(row) # <<>>
    <3>1. CASE row.body = <<>>
      <4>1. Printed(row) = <<Warn>> /\ Warn \in Alphabet
        BY <1>1, <3>1 DEF Printed
      <4>2. QED
        BY <4>1
    <3>2. CASE row.body # <<>>
      BY <2>2, <2>3, <3>2 DEF Printed
    <3>3. QED
      BY <3>1, <3>2
  <2>5. row.target # Rule /\ row.target # Blank
    BY <2>2, Forms
  <2>6. row = [target |-> row.target, status |-> row.status, body |-> row.body]
    BY <2>1
  <2>7. QED
    BY <1>1, <2>2, <2>4, <2>5, <2>6
<1>4. QED
  BY <1>2, <1>3 DEF Answers

\* A sequence after another.
Join(a, b) == a \o b
AreJoined(A, a, b, c) ==
    /\ c \in Seq(A) /\ Len(c) = Len(a) + Len(b)
    /\ Len(a) \in Nat /\ Len(b) \in Nat
    /\ \A i \in 1..Len(a) : c[i] = a[i]
    /\ \A j \in 1..Len(b) : c[Len(a) + j] = b[j]
LEMMA Joined ==
    \A A, a, b, c : a \in Seq(A) /\ b \in Seq(A) /\ c = Join(a, b) => AreJoined(A, a, b, c)
<1> SUFFICES ASSUME NEW A, NEW a, NEW b, NEW c, a \in Seq(A), b \in Seq(A), c = Join(a, b)
             PROVE  AreJoined(A, a, b, c)
  OBVIOUS
<1>1. c \in Seq(A) /\ Len(c) = Len(a) + Len(b) /\ Len(a) \in Nat /\ Len(b) \in Nat
  BY DEF Join
<1>2. ASSUME NEW i \in 1..Len(a) PROVE c[i] = a[i]
  BY DEF Join
<1>3. ASSUME NEW j \in 1..Len(b) PROVE c[Len(a) + j] = b[j]
  BY DEF Join
<1>4. QED
  BY <1>1, <1>2, <1>3 DEF AreJoined

\* A row of the report line by line.
LEMMA BlockIs ==
    ASSUME NEW row \in Answers
    PROVE  /\ Block(row) \in Seq(Alphabet) /\ Len(Block(row)) = Len(Printed(row)) + 5
           /\ Block(row)[1] = row.target /\ Block(row)[2] = Rule
           /\ Block(row)[3] = <<"code", row.status>> /\ Block(row)[4] = Rule
           /\ \A j \in 1..Len(Printed(row)) : Block(row)[j + 4] = Printed(row)[j]
           /\ Block(row)[Len(Printed(row)) + 5] = Blank
<1> DEFINE Q == Alphabet
           lines == Printed(row)
           head == <<row.target, Rule, <<"code", row.status>>, Rule>>
           upto == head \o lines
           last == <<Blank>>
           b == upto \o last
<1>1. lines \in Seq(Q)
  BY AnswerType
<1>2. head \in Seq(Q) /\ Len(head) = 4
  <2>1. row.target \in Alphabet /\ <<"code", row.status>> \in Alphabet /\ Rule \in Alphabet
    BY AnswerType DEF Alphabet
  <2>2. QED
    BY <2>1
<1>3. last \in Seq(Q) /\ Len(last) = 1 /\ last[1] = Blank
  <2>1. Blank \in Alphabet
    BY DEF Alphabet
  <2>2. QED
    BY <2>1
<1>4. head[1] = row.target /\ head[2] = Rule /\ head[3] = <<"code", row.status>> /\ head[4] = Rule
  OBVIOUS
<1>0. upto = Join(head, lines) /\ b = Join(upto, last)
  BY DEF Join
<1>7. Block(row) = b
  BY DEF Block
<1> HIDE DEF Q, lines, head, last, upto, b
<1>5. /\ upto \in Seq(Q) /\ Len(upto) = 4 + Len(lines) /\ Len(lines) \in Nat
      /\ \A i \in 1..4 : upto[i] = head[i]
      /\ \A j \in 1..Len(lines) : upto[4 + j] = lines[j]
  <2>1. AreJoined(Q, head, lines, upto)
    BY <1>0, <1>1, <1>2, Joined
  <2>2. QED
    BY <1>2, <2>1 DEF AreJoined
<1>6. /\ b \in Seq(Q) /\ Len(b) = (4 + Len(lines)) + 1
      /\ \A i \in 1..(4 + Len(lines)) : b[i] = upto[i]
      /\ b[(4 + Len(lines)) + 1] = Blank
  <2>1. AreJoined(Q, upto, last, b)
    BY <1>0, <1>3, <1>5, Joined
  <2>2. QED
    BY <1>3, <1>5, <2>1 DEF AreJoined
<1>8. b[1] = head[1] /\ b[2] = head[2] /\ b[3] = head[3] /\ b[4] = head[4]
  BY <1>5, <1>6
<1>9. ASSUME NEW j \in 1..Len(lines) PROVE b[j + 4] = lines[j]
  <2>1. 4 + j \in 1..(4 + Len(lines)) /\ 4 + j = j + 4
    BY <1>5
  <2>2. QED
    BY <1>5, <1>6, <2>1
<1>10. (4 + Len(lines)) + 1 = Len(lines) + 5
  BY <1>5
<1>11. QED
  BY <1>4, <1>6, <1>7, <1>8, <1>9, <1>10 DEF lines, Q


(***************************************************************************)
(* What one line makes of the reader, in each of its steps.                *)
(***************************************************************************)

\* The first line of a block that is not blank names its target.
LEMMA AtTarget ==
    ASSUME NEW acc \in Reads(Alphabet), NEW line, NEW next, next = ReadLine(acc, line),
           acc.step = "target", line # Blank
    PROVE  /\ next.step = "rule" /\ next.records = acc.records
           /\ next.record = [target |-> line, status |-> 0, body |-> <<>>]
<1>1. acc = [step |-> acc.step, record |-> acc.record, records |-> acc.records]
  BY DEF Reads
<1>3. [Nothing EXCEPT !.target = line] = [target |-> line, status |-> 0, body |-> <<>>]
  BY DEF Nothing
<1>4. next = ReadTarget(acc, line)
  BY DEF ReadLine
<1>5. next = [step |-> "rule", record |-> [target |-> line, status |-> 0, body |-> <<>>],
              records |-> acc.records]
  BY <1>1, <1>3, <1>4 DEF ReadTarget
<1>6. QED
  BY <1>5

\* Blank lines before it are passed over.
LEMMA AtBlank ==
    ASSUME NEW acc \in Reads(Alphabet), acc.step = "target"
    PROVE  ReadLine(acc, Blank) = acc
BY DEF ReadLine, ReadTarget

\* After it comes a "---", or the block is given up,
LEMMA AtRule ==
    ASSUME NEW acc \in Reads(Alphabet), NEW line, NEW next, next = ReadLine(acc, line),
           acc.step = "rule"
    PROVE  /\ next.step = IF line = Rule THEN "status" ELSE "target"
           /\ next.records = acc.records /\ next.record = acc.record
<1>1. acc = [step |-> acc.step, record |-> acc.record, records |-> acc.records]
  BY DEF Reads
<1>2. next = ReadRule(acc, line, "status")
  BY DEF ReadLine
<1>3. next = [step |-> IF line = Rule THEN "status" ELSE "target", record |-> acc.record,
              records |-> acc.records]
  BY <1>1, <1>2 DEF ReadRule
<1>4. QED
  BY <1>3

\* as after the status.
LEMMA AtSecondRule ==
    ASSUME NEW acc \in Reads(Alphabet), NEW line, NEW next, next = ReadLine(acc, line),
           acc.step = "second_rule"
    PROVE  /\ next.step = IF line = Rule THEN "body" ELSE "target"
           /\ next.records = acc.records /\ next.record = acc.record
<1>1. acc = [step |-> acc.step, record |-> acc.record, records |-> acc.records]
  BY DEF Reads
<1>2. next = ReadRule(acc, line, "body")
  BY DEF ReadLine
<1>3. next = [step |-> IF line = Rule THEN "body" ELSE "target", record |-> acc.record,
              records |-> acc.records]
  BY <1>1, <1>2 DEF ReadRule
<1>4. QED
  BY <1>3

\* The status is what stoi reads.
LEMMA AtStatus ==
    ASSUME NEW acc \in Reads(Alphabet), NEW line, NEW next, next = ReadLine(acc, line),
           acc.step = "status"
    PROVE  /\ next.step = "second_rule" /\ next.records = acc.records
           /\ next.record = [target |-> acc.record.target, status |-> Code(line),
                             body |-> acc.record.body]
<1>1. acc = [step |-> acc.step, record |-> acc.record, records |-> acc.records]
  BY DEF Reads
<1>2. acc.record = [target |-> acc.record.target, status |-> acc.record.status,
                    body |-> acc.record.body]
  BY DEF Reads, Recorded
<1>3. next = ReadStatus(acc, line)
  BY DEF ReadLine
<1>4. next = [step |-> "second_rule", records |-> acc.records,
              record |-> [target |-> acc.record.target, status |-> Code(line),
                          body |-> acc.record.body]]
  BY <1>1, <1>2, <1>3 DEF ReadStatus
<1>5. QED
  BY <1>4

\* A line of the body is kept,
LEMMA AtBody ==
    ASSUME NEW acc \in Reads(Alphabet), NEW line, NEW next, next = ReadLine(acc, line),
           acc.step = "body", line # Blank
    PROVE  /\ next.step = "body" /\ next.records = acc.records
           /\ next.record = [target |-> acc.record.target, status |-> acc.record.status,
                             body |-> Append(acc.record.body, line)]
<1>1. acc = [step |-> acc.step, record |-> acc.record, records |-> acc.records]
  BY DEF Reads
<1>2. acc.record = [target |-> acc.record.target, status |-> acc.record.status,
                    body |-> acc.record.body]
  BY DEF Reads, Recorded
<1>3. next = ReadBody(acc, line)
  BY DEF ReadLine
<1>4. next = [step |-> "body", records |-> acc.records,
              record |-> [target |-> acc.record.target, status |-> acc.record.status,
                          body |-> Append(acc.record.body, line)]]
  BY <1>1, <1>2, <1>3 DEF ReadBody, EndsBody
<1>5. QED
  BY <1>4

\* and a blank one ends it.
LEMMA AtBodyEnd ==
    ASSUME NEW acc \in Reads(Alphabet), NEW next, next = ReadLine(acc, Blank),
           acc.step = "body"
    PROVE  next.step = "target" /\ next.records = Append(acc.records, acc.record)
<1>1. acc = [step |-> acc.step, record |-> acc.record, records |-> acc.records]
  BY DEF Reads
<1>2. next = ReadBody(acc, Blank)
  BY DEF ReadLine
<1>3. next = [step |-> "target", records |-> Append(acc.records, acc.record),
              record |-> acc.record]
  BY <1>1, <1>2 DEF ReadBody, EndsBody, Push
<1>4. QED
  BY <1>3

\* The beginning of a sequence, one element longer.
LEMMA Prefixed ==
    ASSUME NEW A, NEW s \in Seq(A), NEW j \in 1..Len(s)
    PROVE  Append(SubSeq(s, 1, j - 1), s[j]) = SubSeq(s, 1, j)
<1>1. /\ SubSeq(s, 1, j - 1) \in Seq(A) /\ Len(SubSeq(s, 1, j - 1)) = j - 1
      /\ \A i \in 1..(j - 1) : SubSeq(s, 1, j - 1)[i] = s[i]
  OBVIOUS
<1>2. /\ SubSeq(s, 1, j) \in Seq(A) /\ Len(SubSeq(s, 1, j)) = j
      /\ \A i \in 1..j : SubSeq(s, 1, j)[i] = s[i]
  OBVIOUS
<1> DEFINE p == SubSeq(s, 1, j - 1)
           q == SubSeq(s, 1, j)
<1>3. p \in Seq(A) /\ Len(p) = j - 1 /\ \A i \in 1..(j - 1) : p[i] = s[i]
  BY <1>1
<1>4. q \in Seq(A) /\ Len(q) = j /\ \A i \in 1..j : q[i] = s[i]
  BY <1>2
<1>5. s[j] \in A /\ j \in Nat
  OBVIOUS
<1> HIDE DEF p, q
<1>6. Append(p, s[j]) \in Seq(A) /\ Len(Append(p, s[j])) = j
  BY <1>3, <1>5
<1>7. ASSUME NEW i \in 1..j PROVE Append(p, s[j])[i] = q[i]
  <2>1. CASE i = j
    BY <1>3, <1>4, <1>5, <2>1
  <2>2. CASE i # j
    <3>1. i \in 1..(j - 1)
      BY <1>5, <2>2
    <3>2. Append(p, s[j])[i] = p[i]
      BY <1>3, <1>5, <3>1
    <3>3. QED
      BY <1>3, <1>4, <3>1, <3>2
  <2>3. QED
    BY <2>1, <2>2
<1>8. Append(p, s[j]) = q
  BY <1>4, <1>6, <1>7
<1>9. QED
  BY <1>8 DEF p, q

\* The first paragraph of a row ends before a line e of its block that is the
\* first blank one of its body.
Ends(row, e) ==
    /\ e \in 1..(Len(Printed(row)) + 1)
    /\ FirstParagraph(row) = SubSeq(Printed(row), 1, e - 1) /\ Len(FirstParagraph(row)) = e - 1
    /\ \A i \in 1..(e - 1) : Printed(row)[i] # Blank
    /\ e <= Len(Printed(row)) => Printed(row)[e] = Blank
LEMMA ParagraphEnds ==
    ASSUME NEW row \in Answers
    PROVE  \E e : Ends(row, e)
<1> DEFINE lines == Printed(row)
           ends == {i \in DOMAIN lines : lines[i] = Blank}
<1>1. lines \in Seq(Alphabet) /\ Len(lines) \in Nat /\ DOMAIN lines = 1..Len(lines)
  <2>1. lines \in Seq(Alphabet)
    BY AnswerType
  <2> HIDE DEF lines
  <2>2. QED
    BY <2>1
<1>2. FirstParagraph(row) = SubSeq(lines, 1, IF ends = {} THEN Len(lines) ELSE Min(ends) - 1)
  BY DEF FirstParagraph
<1>3. CASE ends = {}
  <2> DEFINE e == Len(lines) + 1
  <2>1. e - 1 = Len(lines) /\ FirstParagraph(row) = SubSeq(lines, 1, e - 1)
    BY <1>1, <1>2, <1>3
  <2>2. Len(SubSeq(lines, 1, e - 1)) = e - 1
    <3> HIDE DEF lines
    <3>1. QED
      BY <1>1
  <2>3. Ends(row, e)
    BY <1>1, <1>3, <2>1, <2>2 DEF Ends
  <2>4. QED
    BY <2>3
<1>4. CASE ends # {}
  <2>1. ends \subseteq Nat
    BY <1>1
  <2>2. PICK e \in ends : \A i \in ends : e <= i
    <3> HIDE DEF ends
    <3>1. QED
      BY <1>4, <2>1, Least
  <2>3. Min(ends) = e
    <3> HIDE DEF ends
    <3>1. \A x \in ends : (\A y \in ends : x <= y) <=> x = e
      BY <2>1, <2>2
    <3>2. QED
      BY <2>2, <3>1 DEF Min
  <2>4. e \in 1..Len(lines) /\ lines[e] = Blank
    BY <1>1, <2>2
  <2>5. FirstParagraph(row) = SubSeq(lines, 1, e - 1)
    BY <1>2, <1>4, <2>3
  <2>6. Len(SubSeq(lines, 1, e - 1)) = e - 1
    <3> HIDE DEF lines
    <3>1. QED
      BY <1>1, <2>4
  <2>7. ASSUME NEW i \in 1..(e - 1) PROVE lines[i] # Blank
    <3>1. i \in DOMAIN lines /\ ~(e <= i)
      BY <1>1, <2>4
    <3>2. QED
      BY <2>2, <3>1
  <2>8. Ends(row, e)
    BY <1>1, <2>4, <2>5, <2>6, <2>7 DEF Ends
  <2>9. QED
    BY <2>8
<1>5. QED
  BY <1>3, <1>4

\* A row without a "---" below its first paragraph.
Tidy(row) == \A j \in DOMAIN row.body : row.body[j] = Rule => j <= Len(FirstParagraph(row))

\* A reader s of the block of a row.
Reader(s, row) ==
    /\ s \in [0..Len(Block(row)) -> Reads(Alphabet)] /\ s[0].step = "target"
    /\ \A k \in 1..Len(Block(row)) : s[k] = ReadLine(s[k - 1], Block(row)[k])

\* Down to the blank line that ends the first paragraph, and with it the record.
LEMMA ReadParagraph ==
    ASSUME NEW row \in Answers, row.target # Blank, NEW s, Reader(s, row),
           NEW e, Ends(row, e)
    PROVE  s[e + 4].step = "target" /\ s[e + 4].records = Append(s[0].records, AsRead(row))
<1> DEFINE lines == Printed(row)
           n == Len(Block(row))
           text(k) == Block(row)[k]
           Read(j) == [target |-> row.target, status |-> row.status,
                       body |-> SubSeq(lines, 1, j)]
           S == {j \in 0..(e - 1) : /\ s[j + 4].step = "body" /\ s[j + 4].records = s[0].records
                                    /\ s[j + 4].record = Read(j)}
<1>1. lines \in Seq(Alphabet) /\ Len(lines) \in Nat /\ n = Len(lines) + 5
  <2>1. lines \in Seq(Alphabet) /\ n = Len(lines) + 5
    BY AnswerType, BlockIs
  <2> HIDE DEF lines, n
  <2>2. QED
    BY <2>1
<1>2. /\ text(1) = row.target /\ text(2) = Rule /\ text(3) = <<"code", row.status>>
      /\ text(4) = Rule /\ \A j \in 1..Len(lines) : text(j + 4) = lines[j]
      /\ text(Len(lines) + 5) = Blank
  BY BlockIs
<1>3. \A k \in 0..n : s[k] \in Reads(Alphabet)
  BY DEF Reader
<1>4. s[0].step = "target" /\ \A k \in 1..n : s[k] = ReadLine(s[k - 1], text(k))
  BY DEF Reader
<1>5. /\ e \in 1..(Len(lines) + 1)
      /\ FirstParagraph(row) = SubSeq(lines, 1, e - 1)
      /\ \A i \in 1..(e - 1) : lines[i] # Blank
      /\ e <= Len(lines) => lines[e] = Blank
  BY DEF Ends
<1> HIDE DEF lines, n, text
<1>6. ASSUME NEW k \in 1..n
      PROVE  s[k - 1] \in Reads(Alphabet) /\ s[k] = ReadLine(s[k - 1], text(k))
  <2>1. k - 1 \in 0..n
    BY <1>1
  <2>2. QED
    BY <1>3, <1>4, <2>1
<1>7. /\ s[1].step = "rule" /\ s[1].records = s[0].records
      /\ s[1].record = [target |-> row.target, status |-> 0, body |-> <<>>]
  <2>1. 1 \in 1..n /\ 1 - 1 = 0
    BY <1>1
  <2>2. s[0] \in Reads(Alphabet) /\ s[1] = ReadLine(s[0], text(1))
    BY <1>6, <2>1
  <2>3. QED
    BY <1>2, <1>4, <2>2, AtTarget
<1>8. /\ s[2].step = "status" /\ s[2].records = s[0].records
      /\ s[2].record = [target |-> row.target, status |-> 0, body |-> <<>>]
  <2>1. 2 \in 1..n /\ 2 - 1 = 1
    BY <1>1
  <2>2. s[1] \in Reads(Alphabet) /\ s[2] = ReadLine(s[1], text(2))
    BY <1>6, <2>1
  <2>3. QED
    BY <1>2, <1>7, <2>2, AtRule
<1>9. /\ s[3].step = "second_rule" /\ s[3].records = s[0].records
      /\ s[3].record = [target |-> row.target, status |-> row.status, body |-> <<>>]
  <2>1. 3 \in 1..n /\ 3 - 1 = 2
    BY <1>1
  <2>2. s[2] \in Reads(Alphabet) /\ s[3] = ReadLine(s[2], text(3))
    BY <1>6, <2>1
  <2>3. Code(text(3)) = row.status
    BY <1>2, Forms
  <2>4. /\ s[3].step = "second_rule" /\ s[3].records = s[2].records
        /\ s[3].record = [target |-> s[2].record.target, status |-> Code(text(3)),
                          body |-> s[2].record.body]
    BY <1>8, <2>2, AtStatus
  <2>5. QED
    BY <1>8, <2>3, <2>4
<1>10. /\ s[4].step = "body" /\ s[4].records = s[0].records
       /\ s[4].record = [target |-> row.target, status |-> row.status, body |-> <<>>]
  <2>1. 4 \in 1..n /\ 4 - 1 = 3
    BY <1>1
  <2>2. s[3] \in Reads(Alphabet) /\ s[4] = ReadLine(s[3], text(4))
    BY <1>6, <2>1
  <2>3. QED
    BY <1>2, <1>9, <2>2, AtSecondRule
<1>11. 0 \in S
  <2>1. SubSeq(lines, 1, 0) = <<>>
    BY <1>1
  <2>2. 0 \in 0..(e - 1) /\ 0 + 4 = 4
    BY <1>1, <1>5
  <2>3. QED
    BY <1>10, <2>1, <2>2
<1>12. ASSUME NEW j \in 1..(e - 1), j - 1 \in S PROVE j \in S
  <2>1. /\ j + 4 \in 1..n /\ (j + 4) - 1 = (j - 1) + 4
        /\ j \in 1..Len(lines) /\ j \in 0..(e - 1)
    BY <1>1, <1>5
  <2>2. s[(j - 1) + 4] \in Reads(Alphabet) /\ s[j + 4] = ReadLine(s[(j - 1) + 4], text(j + 4))
    BY <1>6, <2>1
  <2>3. text(j + 4) = lines[j] /\ lines[j] # Blank
    BY <1>2, <1>5, <2>1
  <2> DEFINE a == s[(j - 1) + 4]
  <2>4. a.step = "body" /\ a.records = s[0].records /\ a.record = Read(j - 1)
    BY <1>12
  <2>5. a \in Reads(Alphabet) /\ s[j + 4] = ReadLine(a, lines[j])
    BY <2>2, <2>3
  <2> HIDE DEF a
  <2>6. /\ s[j + 4].step = "body" /\ s[j + 4].records = a.records
        /\ s[j + 4].record = [target |-> a.record.target, status |-> a.record.status,
                              body |-> Append(a.record.body, lines[j])]
    BY <2>3, <2>4, <2>5, AtBody
  <2>7. Append(SubSeq(lines, 1, j - 1), lines[j]) = SubSeq(lines, 1, j)
    BY <1>1, <2>1, Prefixed
  <2>8. s[j + 4].record = Read(j)
    <3>1. /\ a.record.target = row.target /\ a.record.status = row.status
          /\ a.record.body = SubSeq(lines, 1, j - 1)
      BY <2>4
    <3>2. QED
      BY <2>6, <2>7, <3>1
  <2>9. QED
    BY <2>1, <2>4, <2>6, <2>8
<1>13. e - 1 \in S
  <2>1. e - 1 \in Nat /\ e - 1 \in 0..(e - 1)
    BY <1>1, <1>5
  <2> HIDE DEF S
  <2>2. 0..(e - 1) \subseteq S
    BY <1>11, <1>12, <2>1, Upto
  <2>3. QED
    BY <2>1, <2>2
<1>14. /\ e + 4 \in 1..n /\ (e + 4) - 1 = (e - 1) + 4
  BY <1>1, <1>5
<1>15. text(e + 4) = Blank
  <2>1. CASE e <= Len(lines)
    <3>1. e \in 1..Len(lines)
      BY <1>1, <1>5, <2>1
    <3>2. QED
      BY <1>2, <1>5, <2>1, <3>1
  <2>2. CASE ~(e <= Len(lines))
    <3>1. e + 4 = Len(lines) + 5
      BY <1>1, <1>5, <2>2
    <3>2. QED
      BY <1>2, <3>1
  <2>3. QED
    BY <2>1, <2>2
<1>16. /\ s[(e - 1) + 4] \in Reads(Alphabet)
       /\ s[e + 4] = ReadLine(s[(e - 1) + 4], Blank)
  BY <1>6, <1>14, <1>15
<1>17. /\ s[(e - 1) + 4].step = "body" /\ s[(e - 1) + 4].records = s[0].records
       /\ s[(e - 1) + 4].record = Read(e - 1)
  BY <1>13
<1>18. Read(e - 1) = AsRead(row)
  BY <1>5 DEF AsRead
<1>19. QED
  BY <1>16, <1>17, <1>18, AtBodyEnd

\* A named row is read back as it should be, and the reader is ready for the next:
\* the rest of a body is passed over in pairs of lines.
LEMMA ReadNamed ==
    ASSUME NEW row \in Answers, row.target # Blank, Tidy(row), NEW s, Reader(s, row)
    PROVE  /\ s[Len(Block(row))].step = "target"
           /\ s[Len(Block(row))].records = Append(s[0].records, AsRead(row))
<1> DEFINE lines == Printed(row)
           n == Len(Block(row))
           text(k) == Block(row)[k]
           read == Append(s[0].records, AsRead(row))
<1>1. PICK e : Ends(row, e)
  BY ParagraphEnds
<1>2. s[e + 4].step = "target" /\ s[e + 4].records = read
  BY <1>1, ReadParagraph
<1>3. Len(lines) \in Nat /\ n = Len(lines) + 5
  <2>1. lines \in Seq(Alphabet) /\ n = Len(lines) + 5
    BY AnswerType, BlockIs
  <2> HIDE DEF lines, n
  <2>2. QED
    BY <2>1
<1>4. (\A j \in 1..Len(lines) : text(j + 4) = lines[j]) /\ text(Len(lines) + 5) = Blank
  BY BlockIs
<1>5. /\ \A k \in 0..n : s[k] \in Reads(Alphabet)
      /\ \A k \in 1..n : s[k] = ReadLine(s[k - 1], text(k))
  BY DEF Reader
<1>6. e \in 1..(Len(lines) + 1) /\ Len(FirstParagraph(row)) = e - 1
  BY <1>1 DEF Ends
<1>7. ASSUME NEW j \in 1..Len(lines), e <= j PROVE lines[j] # Rule
  <2>1. CASE row.body = <<>>
    <3>1. lines = <<Warn>>
      BY <2>1 DEF Printed
    <3>2. lines[j] = Warn
      BY <3>1
    <3>3. QED
      BY <3>2, Forms
  <2>2. CASE row.body # <<>>
    <3>1. lines = row.body /\ DOMAIN lines = 1..Len(lines)
      <4>1. lines = row.body /\ lines \in Seq(Alphabet)
        BY <2>2, AnswerType DEF Printed
      <4> HIDE DEF lines
      <4>2. QED
        BY <4>1
    <3>2. lines[j] = Rule => j <= e - 1
      BY <1>6, <3>1 DEF Tidy
    <3>3. j \in Nat /\ ~(j <= e - 1)
      BY <1>3, <1>6, <1>7
    <3>4. QED
      BY <3>2, <3>3
  <2>3. QED
    BY <2>1, <2>2
<1> HIDE DEF lines, n, text, read
<1> DEFINE m == Len(lines) - (e - 1)
           S == {i \in 0..m : s[e + 4 + i].step \in {"target", "rule"}
                              /\ s[e + 4 + i].records = read}
<1>8. m \in Nat /\ e + 4 + m = n /\ e + 4 + 0 = e + 4 /\ 0 \in 0..m
  BY <1>3, <1>6
<1>9. 0 \in S
  BY <1>2, <1>8
<1>10. ASSUME NEW i \in 1..m, i - 1 \in S PROVE i \in S
  <2> DEFINE a == s[e + 4 + (i - 1)]
             line == text(e + 4 + i)
  <2>1. /\ e + 4 + i \in 1..n /\ (e + 4 + i) - 1 = e + 4 + (i - 1)
        /\ e + 4 + (i - 1) \in 0..n /\ i \in 0..m
    BY <1>3, <1>6
  <2>2. a \in Reads(Alphabet) /\ s[e + 4 + i] = ReadLine(a, line)
    BY <1>5, <2>1
  <2>3. a.step \in {"target", "rule"} /\ a.records = read
    BY <1>10
  <2>4. line # Rule
    <3>1. CASE i < m
      <4>1. e + i \in 1..Len(lines) /\ e <= e + i /\ e + 4 + i = (e + i) + 4
        BY <1>3, <1>6, <3>1
      <4>2. QED
        BY <1>4, <1>7, <4>1
    <3>2. CASE ~(i < m)
      <4>1. e + 4 + i = Len(lines) + 5
        BY <1>3, <1>6, <3>2
      <4>2. QED
        BY <1>4, <4>1, Forms
    <3>3. QED
      BY <3>1, <3>2
  <2> HIDE DEF a, line
  <2>5. s[e + 4 + i].step \in {"target", "rule"} /\ s[e + 4 + i].records = read
    <3>1. CASE a.step = "rule"
      BY <2>2, <2>3, <2>4, <3>1, AtRule
    <3>2. CASE a.step = "target" /\ line = Blank
      BY <2>2, <2>3, <3>2, AtBlank
    <3>3. CASE a.step = "target" /\ line # Blank
      <4> DEFINE b == s[e + 4 + i]
      <4>1. b = ReadLine(a, line)
        BY <2>2
      <4> HIDE DEF b
      <4>2. b.step = "rule" /\ b.records = a.records
        BY <2>2, <3>3, <4>1, AtTarget
      <4>3. QED
        BY <2>3, <4>2 DEF b
    <3>4. QED
      BY <2>3, <3>1, <3>2, <3>3
  <2>6. QED
    BY <2>1, <2>5
<1>11. 0..m \subseteq S
  <2> HIDE DEF S, m
  <2>1. QED
    BY <1>8, <1>9, <1>10, Upto
<1>12. CASE m = 0
  BY <1>2, <1>8, <1>12 DEF n, read
<1>13. CASE m # 0
  <2> DEFINE a == s[e + 4 + (m - 1)]
  <2>1. m - 1 \in 0..m /\ n \in 1..n /\ n - 1 = e + 4 + (m - 1) /\ n - 1 \in 0..n
    BY <1>3, <1>6, <1>8, <1>13
  <2>2. m - 1 \in S
    <3> HIDE DEF S, m
    <3>1. QED
      BY <1>11, <2>1
  <2>3. a.step \in {"target", "rule"} /\ a.records = read
    BY <2>2
  <2>4. a \in Reads(Alphabet) /\ s[n] = ReadLine(a, Blank)
    BY <1>3, <1>4, <1>5, <2>1
  <2> HIDE DEF a
  <2>5. s[n].step = "target" /\ s[n].records = read
    BY <2>3, <2>4, AtBlank, AtRule, Forms
  <2>6. QED
    BY <2>5 DEF n, read
<1>14. QED
  BY <1>12, <1>13

\* The block of a word that was not asked is given up line by line: no record
\* comes of it.
LEMMA ReadUnasked ==
    ASSUME NEW row \in Answers, row.target = Blank, NEW s, Reader(s, row)
    PROVE  /\ s[Len(Block(row))].step = "target"
           /\ s[Len(Block(row))].records = s[0].records
<1>1. row = Unasked
  BY AnswerType
<1>2. Printed(row) = <<Warn>>
  BY <1>1 DEF Printed, Unasked
<1>3. Len(Printed(row)) = 1 /\ Printed(row)[1] = Warn
  BY <1>2
<1> DEFINE text(k) == Block(row)[k]
           n == Len(Block(row))
<1>4. n = 6
  <2>1. Len(Block(row)) = Len(Printed(row)) + 5
    BY BlockIs
  <2>2. QED
    BY <1>3, <2>1
<1>5. /\ text(1) = Blank /\ text(2) = Rule /\ text(3) = <<"code", row.status>>
      /\ text(4) = Rule /\ text(5) = Warn /\ text(6) = Blank
  <2>1. /\ \A j \in 1..Len(Printed(row)) : text(j + 4) = Printed(row)[j]
        /\ text(Len(Printed(row)) + 5) = Blank
    BY BlockIs
  <2>2. text(5) = Warn /\ text(6) = Blank
    BY <1>3, <2>1
  <2>3. QED
    BY <2>2, BlockIs
<1>6. s[0].step = "target" /\ \A k \in 1..6 : s[k] = ReadLine(s[k - 1], text(k))
  BY <1>4 DEF Reader
<1>7. \A k \in 0..6 : s[k] \in Reads(Alphabet)
  BY <1>4 DEF Reader
<1> HIDE DEF text, n
<1>8. s[1] = s[0]
  <2>1. s[0] \in Reads(Alphabet) /\ s[1] = ReadLine(s[0], Blank)
    BY <1>5, <1>6, <1>7
  <2>2. QED
    BY <1>6, <2>1, AtBlank
<1>9. s[2].step = "rule" /\ s[2].records = s[0].records
  <2>1. s[1] \in Reads(Alphabet) /\ s[2] = ReadLine(s[1], Rule)
    BY <1>5, <1>6, <1>7
  <2>2. s[1].step = "target" /\ s[1].records = s[0].records /\ Rule # Blank
    BY <1>6, <1>8, Forms
  <2>3. /\ s[2].step = "rule" /\ s[2].records = s[1].records
        /\ s[2].record = [target |-> Rule, status |-> 0, body |-> <<>>]
    BY <2>1, <2>2, AtTarget
  <2>4. QED
    BY <2>2, <2>3
<1>10. s[3].step = "target" /\ s[3].records = s[0].records
  <2>1. s[2] \in Reads(Alphabet) /\ s[3] = ReadLine(s[2], text(3)) /\ text(3) # Rule
    BY <1>5, <1>6, <1>7, Forms
  <2>2. QED
    BY <1>9, <2>1, AtRule
<1>11. s[4].step = "rule" /\ s[4].records = s[0].records
  <2>1. s[3] \in Reads(Alphabet) /\ s[4] = ReadLine(s[3], Rule)
    BY <1>5, <1>6, <1>7
  <2>2. s[3].step = "target" /\ s[3].records = s[0].records /\ Rule # Blank
    BY <1>10, Forms
  <2>3. /\ s[4].step = "rule" /\ s[4].records = s[3].records
        /\ s[4].record = [target |-> Rule, status |-> 0, body |-> <<>>]
    BY <2>1, <2>2, AtTarget
  <2>4. QED
    BY <2>2, <2>3
<1>12. s[5].step = "target" /\ s[5].records = s[0].records
  <2>1. s[4] \in Reads(Alphabet) /\ s[5] = ReadLine(s[4], Warn)
    BY <1>5, <1>6, <1>7
  <2>2. QED
    BY <1>11, <2>1, AtRule, Forms
<1>13. s[6] = s[5]
  <2>1. s[5] \in Reads(Alphabet) /\ s[6] = ReadLine(s[5], Blank)
    BY <1>5, <1>6, <1>7
  <2>2. QED
    BY <1>12, <2>1, AtBlank
<1>14. QED
  BY <1>4, <1>12, <1>13 DEF n

\* A block after another: where each of them stands in the whole.
Grows(A, n, h, f) ==
    /\ n \in Nat /\ h \in [1..n -> Seq(A)] /\ f \in [0..n -> Seq(A)]
    /\ \A k \in 1..n : f[k] = f[k - 1] \o h[k]
Within(n, f) ==
    \A k \in 0..n : /\ Len(f[k]) <= Len(f[n])
                    /\ \A i \in 1..Len(f[k]) : f[n][i] = f[k][i]
LEMMA FlattenPrefix ==
    ASSUME NEW A, NEW n, NEW h, NEW f, Grows(A, n, h, f)
    PROVE  Within(n, f)
<1>0. /\ n \in Nat /\ h \in [1..n -> Seq(A)] /\ f \in [0..n -> Seq(A)]
      /\ \A k \in 1..n : f[k] = f[k - 1] \o h[k]
  BY DEF Grows
<1> DEFINE S == {d \in 0..n : /\ Len(f[n - d]) <= Len(f[n])
                              /\ \A i \in 1..Len(f[n - d]) : f[n][i] = f[n - d][i]}
<1>1. ASSUME NEW k \in 0..n PROVE f[k] \in Seq(A) /\ Len(f[k]) \in Nat
  BY <1>0
<1>2. 0 \in S
  <2>1. n - 0 = n /\ n \in 0..n /\ 0 \in 0..n
    BY <1>0
  <2>2. QED
    BY <1>1, <2>1
<1>3. ASSUME NEW d \in 1..n, d - 1 \in S PROVE d \in S
  <2> DEFINE k == n - (d - 1)
             a == f[k - 1]
             b == h[k]
             c == f[k]
  <2>1. k \in 1..n /\ n - d = k - 1 /\ k - 1 \in 0..n /\ k \in 0..n /\ d \in 0..n
    BY <1>0
  <2>2. a \in Seq(A) /\ b \in Seq(A) /\ c = Join(a, b)
    BY <1>0, <1>1, <2>1 DEF Join
  <2>3. Len(c) <= Len(f[n]) /\ \A i \in 1..Len(c) : f[n][i] = c[i]
    BY <1>3
  <2>4. a = f[n - d]
    BY <2>1
  <2> HIDE DEF k, a, b, c
  <2>5. AreJoined(A, a, b, c)
    BY <2>2, Joined
  <2>6. n \in 0..n /\ Len(f[n]) \in Nat
    BY <1>0, <1>1
  <2>7. Len(a) <= Len(f[n]) /\ \A i \in 1..Len(a) : f[n][i] = a[i]
    <3>1. /\ Len(c) = Len(a) + Len(b) /\ Len(a) \in Nat /\ Len(b) \in Nat
          /\ \A i \in 1..Len(a) : c[i] = a[i]
      BY <2>5 DEF AreJoined
    <3>2. Len(a) <= Len(c) /\ \A i \in 1..Len(a) : i \in 1..Len(c)
      BY <3>1
    <3>3. QED
      BY <2>3, <2>6, <3>1, <3>2
  <2>8. QED
    BY <2>1, <2>4, <2>7
<1>4. 0..n \subseteq S
  <2> HIDE DEF S
  <2>1. QED
    BY <1>0, <1>2, <1>3, Upto
<1>5. ASSUME NEW k \in 0..n
      PROVE  Len(f[k]) <= Len(f[n]) /\ \A i \in 1..Len(f[k]) : f[n][i] = f[k][i]
  <2>1. n - k \in 0..n /\ n - (n - k) = k
    BY <1>0
  <2>2. n - k \in S
    BY <1>4, <2>1
  <2>3. QED
    BY <2>1, <2>2
<1>6. QED
  BY <1>5 DEF Within

\* The rows of a capture are read back from its report: each block takes the reader
\* from one table of records to the next.
LEMMA ReadBackIs ==
    ASSUME NEW rows \in [1..WordCount -> Answers], Clean(rows)
    PROVE  Records(Report(rows)) = ReadBack(rows)
<1> DEFINE n == WordCount
           Q == Seq(Alphabet)
           h == [i \in DOMAIN rows |-> Block(rows[i])]
           whole == FlattenSeq(h)
           last == <<Blank>>
           text == whole \o last
<1>1. n \in Nat
  BY SessionAssumption
<1>2. DOMAIN rows = 1..n /\ \A k \in 1..n : rows[k] \in Answers
  OBVIOUS
<1>3. h \in [1..n -> Q] /\ \A k \in 1..n : h[k] = Block(rows[k])
  BY <1>2, BlockIs
<1>4. h \in Seq(Q) /\ Len(h) = n
  <2> HIDE DEF h, Q
  <2>1. QED
    BY <1>1, <1>3
<1>5. last \in Seq(Alphabet) /\ Len(last) = 1 /\ last[1] = Blank
  <2>1. Blank \in Alphabet
    BY DEF Alphabet
  <2>2. QED
    BY <2>1
<1>6. text = Join(whole, last) /\ Report(rows) = text
  BY DEF Join, Report
<1> HIDE DEF n, h, whole, last, text
<1>7. PICK f \in [0..n -> Q] :
          /\ f[0] = <<>> /\ f[n] = whole
          /\ \A k \in 1..n : f[k] = f[k - 1] \o h[k]
  BY <1>4, FlattenSteps DEF whole
<1>8. PICK u \in [0..n -> Seq({AsRead(r) : r \in Answers})] :
          /\ u[0] = <<>> /\ u[n] = ReadBack(rows)
          /\ \A k \in 1..n :
                 u[k] = IF rows[k].target = Blank THEN u[k - 1]
                        ELSE Append(u[k - 1], AsRead(rows[k]))
  <2>1. rows \in Seq(Answers) /\ Len(rows) = n
    BY <1>1 DEF n
  <2>2. QED
    BY <2>1, ReadBackSteps
<1>9. whole \in Seq(Alphabet) /\ Len(whole) \in Nat /\ AreJoined(Alphabet, whole, last, text)
  <2>1. n \in 0..n
    BY <1>1
  <2>2. whole \in Seq(Alphabet)
    BY <1>7, <2>1
  <2>3. QED
    BY <1>5, <1>6, <2>2, Joined
<1>10. /\ text \in Seq(Alphabet) /\ Len(text) = Len(whole) + 1
       /\ \A i \in 1..Len(whole) : text[i] = whole[i]
       /\ text[Len(whole) + 1] = Blank
  BY <1>5, <1>9 DEF AreJoined
<1>11. PICK t \in [0..Len(text) -> Reads(Alphabet)] :
           /\ t[0] = Start /\ Records(text) = Ending(t[Len(text)])
           /\ \A k \in 1..Len(text) : t[k] = ReadLine(t[k - 1], text[k])
  <2>1. Blank \in Alphabet
    BY DEF Alphabet
  <2>2. QED
    BY <1>10, <2>1, ReadSteps
<1>12. \A k \in 0..n : /\ Len(f[k]) <= Len(whole)
                       /\ \A i \in 1..Len(f[k]) : whole[i] = f[k][i]
  <2>1. Grows(Alphabet, n, h, f)
    BY <1>1, <1>3, <1>7 DEF Grows
  <2>2. Within(n, f)
    BY <2>1, FlattenPrefix
  <2>3. QED
    BY <1>7, <2>2 DEF Within
<1>13. \A k \in 1..n : Tidy(rows[k])
  BY <1>2 DEF Clean, Tidy
<1> DEFINE S == {k \in 0..n : t[Len(f[k])].step = "target" /\ t[Len(f[k])].records = u[k]}
<1>14. 0 \in S
  <2>1. Len(f[0]) = 0 /\ 0 \in 0..n
    BY <1>1, <1>7
  <2>2. QED
    BY <1>8, <1>11, <2>1 DEF Start
<1>15. ASSUME NEW k \in 1..n, k - 1 \in S PROVE k \in S
  <2> DEFINE a == f[k - 1]
             b == h[k]
             c == f[k]
             row == rows[k]
             s == [i \in 0..Len(b) |-> t[Len(a) + i]]
  <2>1. k - 1 \in 0..n /\ k \in 0..n
    BY <1>1
  <2>2. a \in Seq(Alphabet) /\ b \in Seq(Alphabet) /\ c = Join(a, b)
    BY <1>3, <1>7, <2>1 DEF Join
  <2>3. row \in Answers /\ b = Block(row) /\ Tidy(row)
    BY <1>2, <1>3, <1>13
  <2>4. Len(c) <= Len(whole) /\ \A i \in 1..Len(c) : whole[i] = c[i]
    BY <1>12, <2>1
  <2>5. t[Len(a)].step = "target" /\ t[Len(a)].records = u[k - 1]
    BY <1>15
  <2>6. u[k] = IF row.target = Blank THEN u[k - 1] ELSE Append(u[k - 1], AsRead(row))
    BY <1>8
  <2>7. t[Len(c)].step = "target" /\ t[Len(c)].records = u[k]
    <3> HIDE DEF a, b, c, row, s, Q
    <3>1. AreJoined(Alphabet, a, b, c)
      BY <2>2, Joined
    <3>2. /\ Len(c) = Len(a) + Len(b) /\ Len(a) \in Nat /\ Len(b) \in Nat
          /\ \A j \in 1..Len(b) : c[Len(a) + j] = b[j]
      BY <3>1 DEF AreJoined
    <3>3. s[0] = t[Len(a)] /\ s[Len(b)] = t[Len(c)]
      <4>1. 0 \in 0..Len(b) /\ Len(b) \in 0..Len(b) /\ Len(a) + 0 = Len(a)
        BY <3>2
      <4>2. QED
        BY <3>2, <4>1 DEF s
    <3>4. s \in [0..Len(b) -> Reads(Alphabet)]
      <4>1. ASSUME NEW i \in 0..Len(b) PROVE t[Len(a) + i] \in Reads(Alphabet)
        <5>1. Len(a) + i \in 0..Len(text)
          BY <1>9, <1>10, <2>4, <3>2
        <5>2. QED
          BY <1>11, <5>1
      <4>2. QED
        BY <4>1 DEF s
    <3>5. ASSUME NEW j \in 1..Len(b) PROVE s[j] = ReadLine(s[j - 1], b[j])
      <4>1. /\ j \in 0..Len(b) /\ j - 1 \in 0..Len(b)
            /\ Len(a) + j \in 1..Len(text) /\ (Len(a) + j) - 1 = Len(a) + (j - 1)
            /\ Len(a) + j \in 1..Len(c) /\ Len(a) + j \in 1..Len(whole)
        BY <1>9, <1>10, <2>4, <3>2
      <4>2. text[Len(a) + j] = b[j]
        BY <1>10, <2>4, <3>2, <4>1
      <4>3. t[Len(a) + j] = ReadLine(t[Len(a) + (j - 1)], b[j])
        BY <1>11, <4>1, <4>2
      <4>4. s[j] = t[Len(a) + j] /\ s[j - 1] = t[Len(a) + (j - 1)]
        BY <4>1 DEF s
      <4>5. QED
        BY <4>3, <4>4
    <3>6. Reader(s, row)
      BY <2>3, <2>5, <3>3, <3>4, <3>5 DEF Reader
    <3>7. CASE row.target = Blank
      <4>1. s[Len(b)].step = "target" /\ s[Len(b)].records = s[0].records
        BY <2>3, <3>6, <3>7, ReadUnasked
      <4>2. QED
        BY <2>5, <2>6, <3>3, <3>7, <4>1
    <3>8. CASE row.target # Blank
      <4>1. s[Len(b)].step = "target" /\ s[Len(b)].records = Append(s[0].records, AsRead(row))
        BY <2>3, <3>6, <3>8, ReadNamed
      <4>2. QED
        BY <2>5, <2>6, <3>3, <3>8, <4>1
    <3>9. QED
      BY <3>7, <3>8
  <2>8. QED
    BY <2>1, <2>7
<1>16. n \in S
  <2>1. 0..n \subseteq S
    <3> HIDE DEF S
    <3>1. QED
      BY <1>1, <1>14, <1>15, Upto
  <2>2. n \in 0..n
    BY <1>1
  <2>3. QED
    BY <2>1, <2>2
<1>17. t[Len(whole)].step = "target" /\ t[Len(whole)].records = ReadBack(rows)
  BY <1>7, <1>8, <1>16
<1>18. t[Len(text)] = t[Len(whole)]
  <2>1. /\ Len(text) \in 1..Len(text) /\ Len(text) - 1 = Len(whole)
        /\ Len(whole) \in 0..Len(text)
    BY <1>9, <1>10
  <2>2. t[Len(text)] = ReadLine(t[Len(whole)], Blank)
    BY <1>10, <1>11, <2>1
  <2>3. t[Len(whole)] \in Reads(Alphabet)
    BY <1>11, <2>1
  <2>4. QED
    BY <1>17, <2>2, <2>3, AtBlank
<1>19. Records(text) = t[Len(whole)].records
  BY <1>11, <1>17, <1>18 DEF Ending
<1>20. QED
  BY <1>6, <1>17, <1>19

(***************************************************************************)
(* The session.                                                            *)
(***************************************************************************)

\* What a file means names paths that some configuration names.
LEMMA MeantPath ==
    ASSUME NEW f \in Configs, NEW key \in {"json_file_path", "html_file_save"}
    PROVE  Meant["rso"][f][key] \in Paths
<1> DEFINE sets == {i \in DOMAIN f.lines : f.lines[i].key = key}
<1>1. Meant["rso"][f] = Meaning("rso", f)
  BY DEF Meant, Kinds
<1>2. key \in Keys("rso")
  BY DEF Keys
<1>3. Zeroed("rso")[key] \in Paths
  BY <1>2 DEF Zeroed, Zero, Ports, Waits, Tunings, Paths
<1>4. Fresh("rso")[key] \in Paths
  BY <1>2 DEF Fresh, Paths
<1>5. ASSUME sets # {} PROVE f.lines[Max(sets)].value \in Paths
  <2>1. Len(f.lines) \in Nat /\ sets \in SUBSET (1..Len(f.lines))
    BY LinesAre
  <2>2. Max(sets) \in sets
    <3> HIDE DEF sets
    <3>1. QED
      BY <1>5, <2>1, MaxIn
  <2>3. ASSUME NEW i \in sets PROVE f.lines[i].value \in Paths
    <3>1. i \in {j \in DOMAIN f.lines : f.lines[j].key \in {"json_file_path", "html_file_save"}}
      OBVIOUS
    <3>2. f.lines[i].value \in {f.lines[j].value : j \in {m \in DOMAIN f.lines :
              f.lines[m].key \in {"json_file_path", "html_file_save"}}}
      BY <3>1
    <3> DEFINE P(c) == {c.lines[j].value : j \in {m \in DOMAIN c.lines :
                           c.lines[m].key \in {"json_file_path", "html_file_save"}}}
    <3>3. Paths = {<<"text", "">>, Junk} \cup UNION {P(c) : c \in Configs}
      BY DEF Paths
    <3>4. f.lines[i].value \in P(f)
      BY <3>2
    <3> HIDE DEF P
    <3>5. QED
      BY <3>3, <3>4
  <2>4. QED
    BY <2>2, <2>3
<1>6. Meaning("rso", f)[key] =
          IF ~Opens("rso", f) \/ \E i \in DOMAIN f.lines : Wrong("rso", f.lines[i])
          THEN Zeroed("rso")[key]
          ELSE IF sets = {} THEN Fresh("rso")[key] ELSE f.lines[Max(sets)].value
  BY <1>2 DEF Meaning
<1>7. QED
  BY <1>1, <1>3, <1>4, <1>5, <1>6

\* A command that finds its slots loaded finds these in them.
LEMMA SlotsHold ==
    ASSUME Inv
    PROVE  /\ slot["rfo"] # None => Target \in Targets
           /\ slot["rxo"] # None => Password \in {Meant["rxo"][f].db_password : f \in Configs}
           /\ slot["rso"] # None => /\ Field("rso", "json_file_path") \in Paths
                                    /\ Field("rso", "html_file_save") \in Paths
<1>1. \A k \in Kinds : slot[k] # None => \E f \in Configs : slot[k] = Meant[k][f]
  BY DEF Inv, Slots
<1>2. ASSUME slot["rfo"] # None PROVE Target \in Targets
  <2>1. PICK f \in Configs : slot["rfo"] = Meant["rfo"][f]
    BY <1>1, <1>2 DEF Kinds
  <2>2. QED
    BY <2>1 DEF Target, Field, Targets
<1>3. ASSUME slot["rxo"] # None
      PROVE  Password \in {Meant["rxo"][f].db_password : f \in Configs}
  <2>1. PICK f \in Configs : slot["rxo"] = Meant["rxo"][f]
    BY <1>1, <1>3 DEF Kinds
  <2>2. QED
    BY <2>1 DEF Password, Field
<1>4. ASSUME slot["rso"] # None, NEW key \in {"json_file_path", "html_file_save"}
      PROVE  Field("rso", key) \in Paths
  <2>1. PICK f \in Configs : slot["rso"] = Meant["rso"][f]
    BY <1>1, <1>4 DEF Kinds
  <2>2. Meant["rso"][f][key] \in Paths
    BY MeantPath
  <2>3. QED
    BY <2>1, <2>2 DEF Field
<1>5. QED
  BY <1>2, <1>3, <1>4

\* What a load leaves is what its file means.
LEMMA LoadMeans ==
    ASSUME NEW load \in Loads
    PROVE  /\ load[1] \in Kinds /\ load[2] \in Configs
           /\ Loaded(load[1], load[2]) = Meant[load[1]][load[2]]
<1>1. load[1] \in Kinds /\ load[2] \in Configs
  BY SessionAssumption DEF Kinds
<1> DEFINE k == load[1]
           f == load[2]
<1>2. k \in Kinds /\ f \in Configs
  BY <1>1
<1> HIDE DEF k, f
<1>3. Parse(k, f) = Meaning(k, f)
  BY <1>2, ParseIsMeaning
<1>4. Loaded(k, f) = Parse(k, f)
  BY <1>2 DEF Loaded, Parsed
<1>5. Meant[k][f] = Meaning(k, f)
  BY <1>2 DEF Meant
<1>6. Loaded(k, f) = Meant[k][f]
  BY <1>3, <1>4, <1>5
<1>7. QED
  BY <1>1, <1>6 DEF k, f

LEMMA InitInv == Init => Inv
<1> SUFFICES ASSUME Init PROVE Inv
  OBVIOUS
<1>1. TypeOK
  <2>1. /\ slot = [k \in Kinds |-> None]
        /\ json = [p \in Paths |-> <<>>] /\ db = [h \in Hosts \cup {""} |-> Absent]
        /\ scans = 0
    BY DEF Init
  <2>2. <<>> \in Seq(Scanned)
    OBVIOUS
  <2>3. json \in [Paths -> Seq(Scanned)]
    BY <2>1, <2>2
  <2>4. db \in [Hosts \cup {""} -> {Absent} \cup Table]
    BY <2>1
  <2>5. slot \in [Kinds -> {None} \cup Meanings]
    BY <2>1
  <2>6. QED
    BY <2>1, <2>3, <2>4, <2>5 DEF TypeOK
<1>2. Slots
  BY DEF Init, Slots
<1>3. Numbered
  <2>1. \A p \in Paths : json[p] = <<>>
    BY DEF Init
  <2>2. DOMAIN <<>> = {}
    OBVIOUS
  <2>3. QED
    BY <2>1, <2>2 DEF Numbered
<1>4. FirstScans
  BY DEF Init, FirstScans
<1>5. Plain
  BY DEF Init, Plain
<1>6. Reported
  BY DEF Init, Reported
<1>7. QED
  BY <1>1, <1>2, <1>3, <1>4, <1>5, <1>6 DEF Inv

\* The invariant is of these variables alone,
LEMMA Quietly ==
    ASSUME Inv, UNCHANGED <<slot, json, db, stashes, reports, captured, scans>>
    PROVE  Inv'
<1>1. TypeOK'
  <2>1. slot' \in [Kinds -> {None} \cup Meanings]
    BY DEF Inv, TypeOK
  <2>2. json' \in [Paths -> Seq(Scanned)]
    BY DEF Inv, TypeOK
  <2>3. db' \in [Hosts \cup {""} -> {Absent} \cup Table]
    BY DEF Inv, TypeOK
  <2>4. scans' \in Nat
    BY DEF Inv, TypeOK
  <2>5. QED
    BY <2>1, <2>2, <2>3, <2>4 DEF TypeOK
<1>2. Slots'
  BY DEF Inv, Slots
<1>3. Numbered'
  BY DEF Inv, Numbered
<1>4. FirstScans'
  BY DEF Inv, FirstScans
<1>5. Plain'
  BY DEF Inv, Plain
<1>6. Reported'
  BY DEF Inv, Reported
<1>7. QED
  BY <1>1, <1>2, <1>3, <1>4, <1>5, <1>6 DEF Inv

\* and a command that writes one file leaves the parts of it that are of others.
LEMMA LoadInv ==
    ASSUME Inv, NEW load \in Loads, Load(load[1], load[2])
    PROVE  Inv'
<1>1. /\ load[1] \in Kinds /\ load[2] \in Configs
      /\ slot' = [slot EXCEPT ![load[1]] = Meant[load[1]][load[2]]]
      /\ UNCHANGED <<json, db, stashes, reports, captured, scans>>
  BY LoadMeans DEF Load, disk, counts
<1> DEFINE kind == load[1]
           file == load[2]
<1>2. /\ kind \in Kinds /\ file \in Configs
      /\ slot' = [slot EXCEPT ![kind] = Meant[kind][file]]
  BY <1>1
<1> HIDE DEF kind, file
<1>3. slot \in [Kinds -> {None} \cup Meanings]
  BY DEF Inv, TypeOK
<1>4. Meant[kind][file] \in Meanings
  BY <1>2 DEF Meanings
<1>5. TypeOK'
  <2>1. slot' \in [Kinds -> {None} \cup Meanings]
    BY <1>2, <1>3, <1>4
  <2>2. QED
    BY <1>1, <2>1 DEF Inv, TypeOK
<1>6. Slots'
  <2>1. ASSUME NEW k \in Kinds, slot'[k] # None
        PROVE  \E f \in Configs : slot'[k] = Meant[k][f]
    <3>1. CASE k = kind
      BY <1>2, <1>3, <3>1
    <3>2. CASE k # kind
      <4>1. slot'[k] = slot[k]
        BY <1>2, <1>3, <3>2
      <4>2. QED
        BY <2>1, <4>1 DEF Inv, Slots
    <3>3. QED
      BY <3>1, <3>2
  <2>2. QED
    BY <2>1 DEF Slots
<1>7. Numbered'
  BY <1>1 DEF Inv, Numbered
<1>8. FirstScans'
  BY <1>1 DEF Inv, FirstScans
<1>9. Plain'
  BY <1>1 DEF Inv, Plain
<1>10. Reported'
  BY <1>1 DEF Inv, Reported
<1>11. QED
  BY <1>5, <1>6, <1>7, <1>8, <1>9, <1>10 DEF Inv

LEMMA RestartInv ==
    ASSUME Inv, Restart
    PROVE  Inv'
<1>1. /\ slot' = [k \in Kinds |-> None]
      /\ UNCHANGED <<json, db, stashes, reports, captured, scans>>
  BY DEF Restart, disk, counts
<1>2. TypeOK'
  <2>1. slot' \in [Kinds -> {None} \cup Meanings]
    BY <1>1
  <2>2. QED
    BY <1>1, <2>1 DEF Inv, TypeOK
<1>3. Slots'
  BY <1>1 DEF Slots
<1>4. Numbered'
  BY <1>1 DEF Inv, Numbered
<1>5. FirstScans'
  BY <1>1 DEF Inv, FirstScans
<1>6. Plain'
  BY <1>1 DEF Inv, Plain
<1>7. Reported'
  BY <1>1 DEF Inv, Reported
<1>8. QED
  BY <1>2, <1>3, <1>4, <1>5, <1>6, <1>7 DEF Inv

\* A scan is numbered above those before it, and no path loses its first.
LEMMA ScanInv ==
    ASSUME Inv, Scan
    PROVE  Inv'
<1> DEFINE path == Field("rso", "json_file_path")
           scan == [nr |-> scans', target |-> Target]
<1>1. /\ UNCHANGED <<slot, db, stashes, reports, captured>> /\ scans' = scans + 1
      /\ json' = [json EXCEPT ![path] = Append(@, scan)] \/ json' = json
  BY DEF Scan, WrittenBeside
<1>2. path \in Paths /\ Target \in Targets
  <2>1. slot["rfo"] # None /\ slot["rso"] # None
    BY DEF Scan, Ready, Needs
  <2>2. QED
    BY <2>1, SlotsHold
<1>3. json \in [Paths -> Seq(Scanned)] /\ scans \in Nat
  BY DEF Inv, TypeOK
<1>4. scan \in Scanned /\ scan.nr = scans + 1
  BY <1>1, <1>2, <1>3 DEF Scanned
<1>5. \A p \in Paths : \A i \in DOMAIN json[p] :
          json[p][1].nr <= json[p][i].nr /\ json[p][i].nr <= scans
  BY DEF Inv, Numbered
<1> HIDE DEF path, scan
<1>6. ASSUME NEW p \in Paths
      PROVE  /\ json'[p] \in Seq(Scanned)
             /\ json[p] # <<>> => json'[p] # <<>> /\ json'[p][1] = json[p][1]
             /\ \A i \in DOMAIN json'[p] :
                    json'[p][1].nr <= json'[p][i].nr /\ json'[p][i].nr <= scans'
  <2> DEFINE old == json[p]
  <2>1. old \in Seq(Scanned)
    BY <1>3
  <2>2. \A i \in DOMAIN old : old[1].nr <= old[i].nr /\ old[i].nr <= scans
    BY <1>5
  <2>3. json'[p] = Append(old, scan) \/ json'[p] = old
    BY <1>1, <1>3
  <2> HIDE DEF old
  <2>4. /\ Len(old) \in Nat /\ DOMAIN old = 1..Len(old)
        /\ \A i \in 1..Len(old) : old[i] \in Scanned
    BY <2>1
  <2>5. \A i \in 1..Len(old) : old[i].nr \in Nat
    BY <2>4 DEF Scanned
  <2>6. CASE json'[p] = old
    <3>1. ASSUME NEW i \in DOMAIN old
          PROVE  old[1].nr <= old[i].nr /\ old[i].nr <= scans'
      BY <1>1, <1>3, <2>2, <2>4, <2>5
    <3>2. QED
      BY <2>1, <2>6, <3>1 DEF old
  <2>7. CASE json'[p] = Append(old, scan)
    <3> DEFINE new == Append(old, scan)
    <3>1. /\ new \in Seq(Scanned) /\ Len(new) = Len(old) + 1 /\ DOMAIN new = 1..Len(new)
          /\ new[Len(old) + 1] = scan
      BY <1>4, <2>1, <2>4
    <3>2. ASSUME NEW i \in 1..Len(old) PROVE new[i] = old[i]
      BY <1>4, <2>1, <2>4
    <3>3. old # <<>> => new # <<>> /\ new[1] = old[1]
      <4>1. ASSUME old # <<>> PROVE 1 \in 1..Len(old)
        BY <2>1, <2>4, <4>1
      <4>2. Len(new) # 0
        BY <2>4, <3>1
      <4>3. QED
        BY <3>2, <4>1, <4>2
    <3> HIDE DEF new
    <3>4. ASSUME NEW i \in DOMAIN new
          PROVE  new[1].nr <= new[i].nr /\ new[i].nr <= scans'
      <4>1. CASE i = Len(old) + 1
        <5>1. new[i].nr = scans + 1 /\ scans' = scans + 1
          BY <1>1, <1>4, <3>1, <4>1
        <5>2. CASE Len(old) = 0
          BY <1>3, <2>4, <4>1, <5>1, <5>2
        <5>3. CASE Len(old) # 0
          <6>1. 1 \in 1..Len(old)
            BY <2>4, <5>3
          <6>2. new[1].nr = old[1].nr /\ old[1].nr <= scans /\ old[1].nr \in Nat
            BY <2>2, <2>4, <2>5, <3>2, <6>1
          <6>3. QED
            BY <1>3, <5>1, <6>2
        <5>4. QED
          BY <5>2, <5>3
      <4>2. CASE i # Len(old) + 1
        <5>1. i \in 1..Len(old) /\ 1 \in 1..Len(old)
          BY <2>4, <3>1, <4>2
        <5>2. new[1] = old[1] /\ new[i] = old[i]
          BY <3>2, <5>1
        <5>3. old[1].nr <= old[i].nr /\ old[i].nr <= scans /\ old[i].nr \in Nat
          BY <2>2, <2>4, <2>5, <5>1
        <5>4. QED
          BY <1>1, <1>3, <5>2, <5>3
      <4>3. QED
        BY <4>1, <4>2
    <3>5. json'[p] = new
      BY <2>7 DEF new
    <3>6. QED
      BY <3>1, <3>3, <3>4, <3>5 DEF old
  <2>8. QED
    BY <2>3, <2>6, <2>7
<1>7. TypeOK'
  <2>1. DOMAIN json' = Paths /\ json' = [p \in Paths |-> json'[p]]
    BY <1>1, <1>3
  <2>2. json' \in [Paths -> Seq(Scanned)]
    BY <1>6, <2>1
  <2>3. slot' \in [Kinds -> {None} \cup Meanings]
    BY <1>1 DEF Inv, TypeOK
  <2>4. db' \in [Hosts \cup {""} -> {Absent} \cup Table]
    BY <1>1 DEF Inv, TypeOK
  <2>5. scans' \in Nat
    BY <1>1, <1>3
  <2>6. QED
    BY <2>2, <2>3, <2>4, <2>5 DEF TypeOK
<1>8. Slots'
  BY <1>1 DEF Inv, Slots
<1>9. Numbered'
  BY <1>6 DEF Numbered
<1>10. FirstScans'
  <2>1. ASSUME NEW h \in DOMAIN db, db[h] # Absent, NEW i \in DOMAIN db[h].rows
        PROVE  LET row == db[h].rows[i]
               IN  json'[row.path] # <<>> /\ row.scan = json'[row.path][1].nr
    <3> DEFINE row == db[h].rows[i]
    <3>1. json[row.path] # <<>> /\ row.scan = json[row.path][1].nr
      BY <2>1 DEF Inv, FirstScans
    <3>2. row.path \in Paths
      <4>1. db[h] \in Table
        BY <2>1 DEF Inv, TypeOK
      <4>2. db[h].rows \in Seq(Rows)
        BY <4>1 DEF Table
      <4>3. row \in Rows
        BY <2>1, <4>2
      <4>4. QED
        BY <4>3 DEF Rows
    <3> HIDE DEF row
    <3>3. json'[row.path] # <<>> /\ json'[row.path][1] = json[row.path][1]
      BY <1>6, <3>1, <3>2
    <3>4. row.scan = json'[row.path][1].nr
      BY <3>1, <3>3
    <3>5. QED
      BY <3>3, <3>4 DEF row
  <2>2. QED
    BY <1>1, <2>1 DEF FirstScans
<1>11. Plain'
  BY <1>1 DEF Inv, Plain
<1>12. Reported'
  BY <1>1 DEF Inv, Reported
<1>13. QED
  BY <1>7, <1>8, <1>9, <1>10, <1>11, <1>12 DEF Inv

\* A report and the rows it is of are written together.
LEMMA CaptureInv ==
    ASSUME Inv, Capture
    PROVE  Inv'
<1> DEFINE path == Field("rso", "html_file_save")
<1>1. PICK rows \in [1..WordCount -> CaptureRows], ok \in BOOLEAN :
          /\ reports' = IF ok THEN [reports EXCEPT ![path] = Report(rows)] ELSE reports
          /\ captured' = IF ok THEN [captured EXCEPT ![path] = rows] ELSE captured
  BY DEF Capture, Opened
<1>2. UNCHANGED <<slot, json, db, stashes, scans>>
  BY DEF Capture
<1>3. path \in Paths /\ Target \in Targets
  <2>1. slot["rfo"] # None /\ slot["rso"] # None
    BY DEF Capture, Ready, Needs
  <2>2. QED
    BY <2>1, SlotsHold
<1>4. CaptureRows \subseteq Answers
  BY <1>3 DEF CaptureRows, Answers, Asked, Unasked
<1>5. rows \in [1..WordCount -> Answers]
  BY <1>4
<1> HIDE DEF path
<1>6. TypeOK'
  <2>1. slot' \in [Kinds -> {None} \cup Meanings]
    BY <1>2 DEF Inv, TypeOK
  <2>2. json' \in [Paths -> Seq(Scanned)]
    BY <1>2 DEF Inv, TypeOK
  <2>3. db' \in [Hosts \cup {""} -> {Absent} \cup Table]
    BY <1>2 DEF Inv, TypeOK
  <2>4. scans' \in Nat
    BY <1>2 DEF Inv, TypeOK
  <2>5. QED
    BY <2>1, <2>2, <2>3, <2>4 DEF TypeOK
<1>7. Slots'
  BY <1>2 DEF Inv, Slots
<1>8. Numbered'
  BY <1>2 DEF Inv, Numbered
<1>9. FirstScans'
  BY <1>2 DEF Inv, FirstScans
<1>10. Plain'
  BY <1>2 DEF Inv, Plain
<1>11. Reported'
  <2>1. /\ DOMAIN reports = Paths /\ DOMAIN captured = Paths
        /\ \A p \in Paths :
               \/ reports[p] = Absent /\ captured[p] = Absent
               \/ captured[p] \in [1..WordCount -> Answers] /\ reports[p] = Report(captured[p])
    BY DEF Inv, Reported
  <2>2. DOMAIN reports' = Paths /\ DOMAIN captured' = Paths
    BY <1>1, <2>1
  <2>3. ASSUME NEW p \in Paths
        PROVE  \/ reports'[p] = Absent /\ captured'[p] = Absent
               \/ captured'[p] \in [1..WordCount -> Answers] /\ reports'[p] = Report(captured'[p])
    <3>1. CASE ok /\ p = path
      <4>1. captured'[p] = rows /\ reports'[p] = Report(rows)
        BY <1>1, <2>1, <3>1
      <4>2. QED
        BY <1>5, <4>1
    <3>2. CASE ~(ok /\ p = path)
      <4>1. captured'[p] = captured[p] /\ reports'[p] = reports[p]
        BY <1>1, <2>1, <3>2
      <4>2. QED
        BY <2>1, <4>1
    <3>3. QED
      BY <3>1, <3>2
  <2>4. QED
    BY <2>2, <2>3 DEF Reported
<1>12. QED
  BY <1>6, <1>7, <1>8, <1>9, <1>10, <1>11 DEF Inv

\* The rows a transfer adds are of the first scan of the path it reads.
LEMMA ImportedRows ==
    ASSUME Inv, NEW path \in Paths
    PROVE  /\ Imported(path) \in Seq(Rows)
           /\ \A i \in DOMAIN Imported(path) :
                  LET row == Imported(path)[i]
                  IN  json[row.path] # <<>> /\ row.scan = json[row.path][1].nr
<1>1. json[path] \in Seq(Scanned)
  BY DEF Inv, TypeOK
<1>2. CASE json[path] = <<>>
  <2>1. Source(path) = <<>> /\ DOMAIN <<>> = {}
    BY <1>2 DEF Source
  <2>2. DOMAIN Imported(path) = {} /\ Imported(path) = <<>>
    BY <2>1 DEF Imported
  <2>3. QED
    BY <2>2
<1>3. CASE json[path] # <<>>
  <2> DEFINE first == json[path][1]
             row == [scan |-> first.nr, path |-> path]
  <2>1. Source(path) = <<first>>
    BY <1>1, <1>3 DEF Source
  <2>2. first \in Scanned
    BY <1>1, <1>3
  <2>3. row \in Rows
    BY <2>2 DEF Scanned, Rows
  <2>4. DOMAIN Source(path) = 1..1 /\ Source(path)[1] = first
    BY <2>1
  <2> HIDE DEF first
  <2>5. Imported(path) = [i \in 1..1 |-> row]
    <3>1. \A i \in 1..1 : Source(path)[i] = first
      BY <2>4
    <3>2. QED
      BY <2>4, <3>1 DEF Imported
  <2>6. Imported(path) \in Seq(Rows)
    <3> HIDE DEF row
    <3>1. QED
      BY <2>3, <2>5
  <2>7. ASSUME NEW i \in DOMAIN Imported(path)
        PROVE  Imported(path)[i] = row
    BY <2>5
  <2>8. row.path = path /\ row.scan = json[path][1].nr
    BY DEF first
  <2> HIDE DEF row
  <2>9. QED
    BY <1>3, <2>6, <2>7, <2>8
<1>4. QED
  BY <1>2, <1>3

\* What stands in a sequence after another stands in one of them.
EitherOf(a, b, c) ==
    \A i \in DOMAIN c : \/ \E j \in DOMAIN a : c[i] = a[j]
                       \/ \E j \in DOMAIN b : c[i] = b[j]
LEMMA FromEither ==
    ASSUME NEW A, NEW a \in Seq(A), NEW b \in Seq(A), NEW c, AreJoined(A, a, b, c)
    PROVE  EitherOf(a, b, c)
<1>1. /\ c \in Seq(A) /\ Len(c) = Len(a) + Len(b)
      /\ Len(a) \in Nat /\ Len(b) \in Nat
      /\ \A i \in 1..Len(a) : c[i] = a[i]
      /\ \A j \in 1..Len(b) : c[Len(a) + j] = b[j]
  BY DEF AreJoined
<1>2. DOMAIN a = 1..Len(a) /\ DOMAIN b = 1..Len(b) /\ DOMAIN c = 1..(Len(a) + Len(b))
  BY <1>1
<1>3. ASSUME NEW i \in 1..(Len(a) + Len(b))
      PROVE  \/ \E j \in 1..Len(a) : c[i] = a[j]
             \/ \E j \in 1..Len(b) : c[i] = b[j]
  <2>1. CASE i \in 1..Len(a)
    BY <1>1, <2>1
  <2>2. CASE i \notin 1..Len(a)
    <3>1. i - Len(a) \in 1..Len(b) /\ Len(a) + (i - Len(a)) = i
      BY <1>1, <2>2
    <3>2. c[i] = b[i - Len(a)]
      BY <1>1, <3>1
    <3>3. QED
      BY <3>1, <3>2
  <2>3. QED
    BY <2>1, <2>2
<1>4. QED
  BY <1>2, <1>3 DEF EitherOf

LEMMA TransferInv ==
    ASSUME Inv, Transfer
    PROVE  Inv'
<1> DEFINE path == Field("rso", "json_file_path")
           rows == Imported(path)
           host == DbName(Target)
           First(r) == json[r.path] # <<>> /\ r.scan = json[r.path][1].nr
<1>1. UNCHANGED <<slot, json, stashes, reports, captured, scans>>
  BY DEF Transfer
<1>2. /\ slot["rfo"] # None /\ slot["rso"] # None /\ slot["rxo"] # None
  BY DEF Transfer, Ready, Needs, Kinds
<1>3. /\ path \in Paths /\ Target \in Targets
      /\ Password \in {Meant["rxo"][f].db_password : f \in Configs}
  BY <1>2, SlotsHold
<1>4. rows \in Seq(Rows) /\ \A i \in DOMAIN rows : First(rows[i])
  BY <1>3, ImportedRows
<1>5. \/ Stored = Absent /\ db' = [db EXCEPT ![host] = [key |-> Password, rows |-> rows]]
      \/ Stored # Absent /\ db' = [db EXCEPT ![host] =
                                       [key |-> Stored.key, rows |-> Stored.rows \o rows]]
      \/ db' = db
  BY DEF Transfer, Readable
<1>6. db \in [Hosts \cup {""} -> {Absent} \cup Table]
  BY DEF Inv, TypeOK
<1>7. \A h \in DOMAIN db : db[h] # Absent => \A i \in DOMAIN db[h].rows : First(db[h].rows[i])
  BY DEF Inv, FirstScans
<1>8. Stored = db[host]
  BY DEF Stored
<1> HIDE DEF path, rows, host, First
<1>9. ASSUME NEW h \in Hosts \cup {""}
      PROVE  /\ db'[h] \in {Absent} \cup Table
             /\ db'[h] # Absent => \A i \in DOMAIN db'[h].rows : First(db'[h].rows[i])
  <2>1. CASE db'[h] = db[h]
    BY <1>6, <1>7, <2>1
  <2>2. CASE db'[h] = [key |-> Password, rows |-> rows]
    <3> DEFINE entry == [key |-> Password, rows |-> rows]
    <3>1. entry \in Table /\ entry.rows = rows
      BY <1>3, <1>4 DEF Table
    <3>2. db'[h] = entry
      BY <2>2
    <3> HIDE DEF entry
    <3>3. QED
      BY <1>4, <3>1, <3>2
  <2>3. CASE db[h] # Absent /\ db'[h] = [key |-> db[h].key, rows |-> db[h].rows \o rows]
    <3> DEFINE old == db[h].rows
               new == old \o rows
    <3>1. db[h] \in Table
      BY <1>6, <2>3
    <3>2. /\ old \in Seq(Rows) /\ db[h].key \in {Meant["rxo"][f].db_password : f \in Configs}
          /\ db[h] = [key |-> db[h].key, rows |-> old]
      BY <3>1 DEF Table
    <3>3. db'[h] = [key |-> db[h].key, rows |-> new]
      BY <2>3, <3>2
    <3>4. \A i \in DOMAIN old : First(old[i])
      BY <1>6, <1>7, <2>3
    <3>5. new = Join(old, rows)
      BY DEF Join
    <3> HIDE DEF old, new
    <3>6. AreJoined(Rows, old, rows, new)
      BY <1>4, <3>2, <3>5, Joined
    <3>7. new \in Seq(Rows)
      BY <3>6 DEF AreJoined
    <3>8. \A i \in DOMAIN new : \/ \E j \in DOMAIN old : new[i] = old[j]
                              \/ \E j \in DOMAIN rows : new[i] = rows[j]
      <4>1. EitherOf(old, rows, new)
        BY <1>4, <3>2, <3>6, FromEither
      <4>2. QED
        BY <4>1 DEF EitherOf
    <3>9. ASSUME NEW i \in DOMAIN new PROVE First(new[i])
      BY <1>4, <3>4, <3>8
    <3>10. db'[h] \in Table /\ db'[h].rows = new
      <4> DEFINE entry == [key |-> db[h].key, rows |-> new]
      <4>1. entry \in Table /\ entry.rows = new
        BY <3>2, <3>7 DEF Table
      <4>2. db'[h] = entry
        BY <3>3
      <4> HIDE DEF entry
      <4>3. QED
        BY <4>1, <4>2
    <3>11. QED
      BY <3>9, <3>10
  <2>4. QED
    BY <1>5, <1>6, <1>8, <2>1, <2>2, <2>3
<1>10. DOMAIN db' = Hosts \cup {""} /\ db' = [h \in Hosts \cup {""} |-> db'[h]]
  BY <1>5, <1>6
<1>11. TypeOK'
  <2>1. slot' \in [Kinds -> {None} \cup Meanings]
    BY <1>1 DEF Inv, TypeOK
  <2>2. json' \in [Paths -> Seq(Scanned)]
    BY <1>1 DEF Inv, TypeOK
  <2>3. db' \in [Hosts \cup {""} -> {Absent} \cup Table]
    BY <1>9, <1>10
  <2>4. scans' \in Nat
    BY <1>1 DEF Inv, TypeOK
  <2>5. QED
    BY <2>1, <2>2, <2>3, <2>4 DEF TypeOK
<1>12. Slots'
  BY <1>1 DEF Inv, Slots
<1>13. Numbered'
  BY <1>1 DEF Inv, Numbered
<1>14. FirstScans'
  <2>1. ASSUME NEW h \in DOMAIN db', db'[h] # Absent, NEW i \in DOMAIN db'[h].rows
        PROVE  First(db'[h].rows[i])
    BY <1>9, <1>10, <2>1
  <2>2. QED
    BY <1>1, <2>1 DEF FirstScans, First
<1>15. Plain'
  BY <1>1 DEF Inv, Plain
<1>16. Reported'
  BY <1>1 DEF Inv, Reported
<1>17. QED
  BY <1>11, <1>12, <1>13, <1>14, <1>15, <1>16 DEF Inv

\* A compilation saves under a name without a scheme.
LEMMA CompileInv ==
    ASSUME Inv, Compile
    PROVE  Inv'
<1>1. /\ UNCHANGED <<slot, json, db, reports, captured, scans>>
      /\ stashes' \subseteq stashes \cup {StashSaved(Target)}
  BY DEF Compile, counts
<1>2. TypeOK'
  <2>1. slot' \in [Kinds -> {None} \cup Meanings]
    BY <1>1 DEF Inv, TypeOK
  <2>2. json' \in [Paths -> Seq(Scanned)]
    BY <1>1 DEF Inv, TypeOK
  <2>3. db' \in [Hosts \cup {""} -> {Absent} \cup Table]
    BY <1>1 DEF Inv, TypeOK
  <2>4. scans' \in Nat
    BY <1>1 DEF Inv, TypeOK
  <2>5. QED
    BY <2>1, <2>2, <2>3, <2>4 DEF TypeOK
<1>3. Slots'
  BY <1>1 DEF Inv, Slots
<1>4. Numbered'
  BY <1>1 DEF Inv, Numbered
<1>5. FirstScans'
  BY <1>1 DEF Inv, FirstScans
<1>6. Plain'
  <2>1. StashSaved(Target)[1] = "text"
    BY DEF StashSaved
  <2>2. \A s \in stashes : s[1] = "text"
    BY DEF Inv, Plain
  <2>3. QED
    BY <1>1, <2>1, <2>2 DEF Plain
<1>7. Reported'
  BY <1>1 DEF Inv, Reported
<1>8. QED
  BY <1>2, <1>3, <1>4, <1>5, <1>6, <1>7 DEF Inv

LEMMA StepInv == Inv /\ [Next]_vars => Inv'
<1> SUFFICES ASSUME Inv, [Next]_vars PROVE Inv'
  OBVIOUS
<1>1. CASE \E load \in Loads : Load(load[1], load[2])
  BY <1>1, LoadInv
<1>2. CASE \E command \in DOMAIN Needs :
               Unready(command) \/ Wordless(command) \/ Unreadable(command)
  <2>1. UNCHANGED <<slot, json, db, stashes, reports, captured, scans>>
    BY <1>2 DEF Unready, Wordless, Unreadable, Fails, disk, counts
  <2>2. QED
    BY <2>1, Quietly
<1>3. CASE Scan
  BY <1>3, ScanInv
<1>4. CASE Capture
  BY <1>4, CaptureInv
<1>5. CASE Transfer
  BY <1>5, TransferInv
<1>6. CASE Compile
  BY <1>6, CompileInv
<1>7. CASE GanTrain \/ TreesTrain \/ TreesPredict \/ CatchWaf \/ UNCHANGED vars
  <2>1. UNCHANGED <<slot, json, db, stashes, reports, captured, scans>>
    BY <1>7 DEF GanTrain, TreesTrain, TreesPredict, CatchWaf, vars, disk, counts
  <2>2. QED
    BY <2>1, Quietly
<1>8. CASE Restart
  BY <1>8, RestartInv
<1>9. QED
  BY <1>1, <1>2, <1>3, <1>4, <1>5, <1>6, <1>7, <1>8 DEF Next

(***************************************************************************)
(* The theorems.                                                           *)
(***************************************************************************)

\* In every reachable state the slots hold what some file means, scans are numbered
\* in the order of their files, tables hold first scans, and each report is of the
\* rows kept beside it.
THEOREM InvHolds == Spec => []Inv
<1>1. QED
  BY InitInv, StepInv, PTL DEF Spec

\* Slots, files and tables hold nothing but what the loads and the commands of
\* SessionData and the drivers can put there.
THEOREM TypeCorrect == Spec => []TypeOK
<1>1. Inv => TypeOK
  BY DEF Inv
<1>2. QED
  BY InvHolds, <1>1, PTL

\* Every load leaves what its file means in its slot: what the three line-by-line
\* parsers make of any file is what the file says, zeros if one line of it is wrong.
THEOREM LoadCorrect == Spec => LoadedIsMeaning
<1>1. ASSUME Inv, [Next]_vars
      PROVE  [\A load \in Loads : Load(load[1], load[2]) =>
                  slot'[load[1]] = Meant[load[1]][load[2]]]_vars
  <2>1. ASSUME NEW load \in Loads, Load(load[1], load[2])
        PROVE  slot'[load[1]] = Meant[load[1]][load[2]]
    <3>1. /\ load[1] \in Kinds
          /\ slot' = [slot EXCEPT ![load[1]] = Meant[load[1]][load[2]]]
      BY <2>1, LoadMeans DEF Load
    <3>2. slot \in [Kinds -> {None} \cup Meanings]
      BY <1>1 DEF Inv, TypeOK
    <3>3. QED
      BY <3>1, <3>2
  <2>2. QED
    BY <2>1
<1>2. QED
  BY InvHolds, <1>1, PTL DEF Spec, LoadedIsMeaning

\* Every row of a database is of the first scan ever written to the path it was read
\* from: the transfer reads path.json, and every later scan goes to path(n).json.
THEOREM FirstScanCorrect == Spec => []FirstScanWins
<1>1. ASSUME Inv PROVE FirstScanWins
  <2>1. ASSUME NEW h \in DOMAIN db, db[h] # Absent, NEW i \in DOMAIN db[h].rows
        PROVE  LET row == db[h].rows[i]
               IN  \A j \in DOMAIN json[row.path] : row.scan <= json[row.path][j].nr
    <3> DEFINE row == db[h].rows[i]
    <3>1. row.scan = json[row.path][1].nr
      BY <1>1, <2>1 DEF Inv, FirstScans
    <3>2. row.path \in Paths
      <4>1. db[h] \in Table
        BY <1>1, <2>1 DEF Inv, TypeOK
      <4>2. db[h].rows \in Seq(Rows)
        BY <4>1 DEF Table
      <4>3. row \in Rows
        BY <2>1, <4>2
      <4>4. QED
        BY <4>3 DEF Rows
    <3> HIDE DEF row
    <3>3. \A j \in DOMAIN json[row.path] : json[row.path][1].nr <= json[row.path][j].nr
      BY <1>1, <3>2 DEF Inv, Numbered
    <3>4. \A j \in DOMAIN json[row.path] : row.scan <= json[row.path][j].nr
      BY <3>1, <3>3
    <3>5. QED
      BY <3>4 DEF row
  <2>2. QED
    BY <2>1 DEF FirstScanWins
<1>2. QED
  BY InvHolds, <1>1, PTL

\* Every report, if no "---" stands below a first paragraph in it, is read back as
\* the rows it was written from, for any bodies and any number of rows.
THEOREM ReportCorrect == Spec => []ReportReadBack
<1>1. ASSUME Inv PROVE ReportReadBack
  <2>1. ASSUME NEW p \in Paths, captured[p] # Absent, Clean(captured[p])
        PROVE  Records(reports[p]) = ReadBack(captured[p])
    <3>1. captured[p] \in [1..WordCount -> Answers] /\ reports[p] = Report(captured[p])
      BY <1>1, <2>1 DEF Inv, Reported
    <3>2. QED
      BY <2>1, <3>1, ReadBackIs
  <2>2. QED
    BY <2>1 DEF ReportReadBack
<1>2. QED
  BY InvHolds, <1>1, PTL

\* No training for a target with a scheme ever finds a stash: compiler.cpp saves under
\* the name without it, and the training looks under the name with it.
THEOREM SchemeCorrect == Spec => SchemeLosesStash
<1>1. ASSUME Inv, [Next]_vars
      PROVE  [GanTrain /\ outcome' = "stash" => Target[1] # "url"]_vars
  <2>1. ASSUME GanTrain, outcome' = "stash" PROVE Target[1] # "url"
    <3>1. StashSought(Target) \in stashes
      BY <2>1 DEF GanTrain
    <3>2. Target \in stashes
      BY <3>1 DEF StashSought
    <3>3. Target[1] = "text"
      BY <1>1, <3>2 DEF Inv, Plain
    <3>4. QED
      BY <3>3
  <2>2. QED
    BY <2>1
<1>2. QED
  BY InvHolds, <1>1, PTL DEF Spec, SchemeLosesStash

\* A report that is not there is read as no records, and shows no error page.
LEMMA NoReport == Soft404s(<<>>) = 0
<1> DEFINE L == {Blank}
           e == <<>>
<1>1. e \in Seq(L) /\ Len(e) = 0 /\ Blank \in L
  OBVIOUS
<1> HIDE DEF L, e
<1>2. PICK t \in [0..Len(e) -> Reads(L)] :
          t[0] = Start /\ Records(e) = Ending(t[Len(e)])
  BY <1>1, ReadSteps
<1>3. Records(e) = <<>>
  BY <1>1, <1>2 DEF Ending, Start
<1>4. {i \in DOMAIN Records(e) : IsSoft404(Records(e)[i])} = {}
  <2>1. DOMAIN <<>> = {}
    OBVIOUS
  <2>2. QED
    BY <1>3, <2>1
<1>5. Soft404s(e) = 0
  BY <1>4, FS_EmptySet DEF Soft404s
<1>6. QED
  BY <1>5 DEF e

\* Whatever was trained and however slow the words were, catch_waf comes to no other
\* verdict than a soft 404, and to that only when two words captured show one.
THEOREM VerdictCorrect == Spec => VerdictIsSoft404Only
<1> DEFINE path == Field("rso", "html_file_save")
           rows == captured[path]
           read == ReadBack(rows)
           Verdict == /\ outcome' = "soft404"
                      /\ Clean(rows) =>
                             Cardinality({i \in DOMAIN read : IsSoft404(read[i])}) >= 2
<1>1. ASSUME Inv, [Next]_vars
      PROVE  [CatchWaf /\ outcome' # "nothing" => Verdict]_vars
  <2>1. ASSUME CatchWaf, outcome' # "nothing" PROVE Verdict
    <3>1. PICK text \in Texts404(path) : outcome' = Correlate(0, Soft404s(text))
      BY <2>1 DEF CatchWaf, Anomalies
    <3>2. path \in Paths
      <4>1. slot["rso"] # None
        BY <2>1 DEF CatchWaf, Ready, Needs, Kinds
      <4>2. QED
        BY <1>1, <4>1, SlotsHold
    <3> HIDE DEF path
    <3>3. outcome' = "soft404" /\ Soft404s(text) >= 2
      <4> DEFINE soft == Soft404s(text)
      <4>1. outcome' = Correlate(0, soft)
        BY <3>1
      <4> HIDE DEF soft
      <4>2. outcome' = "soft404" /\ soft >= 2
        BY <2>1, <4>1 DEF Correlate
      <4>3. QED
        BY <4>2 DEF soft
    <3>4. text # <<>>
      BY <3>3, NoReport
    <3>5. reports[path] # Absent /\ text = reports[path]
      BY <3>1, <3>4 DEF Texts404
    <3>6. rows \in [1..WordCount -> Answers] /\ text = Report(rows)
      BY <1>1, <3>2, <3>5 DEF Inv, Reported
    <3> HIDE DEF rows
    <3>7. ASSUME Clean(rows)
          PROVE  Cardinality({i \in DOMAIN read : IsSoft404(read[i])}) >= 2
      <4>1. Records(text) = read
        BY <3>6, <3>7, ReadBackIs
      <4> HIDE DEF read
      <4>2. QED
        BY <3>3, <4>1 DEF Soft404s
    <3>8. QED
      BY <3>3, <3>7
  <2>2. QED
    BY <2>1
<1>2. QED
  BY InvHolds, <1>1, PTL DEF Spec, VerdictIsSoft404Only
=============================================================================
