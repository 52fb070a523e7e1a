--------------------------- MODULE PipelineProofs ---------------------------
(***************************************************************************)
(* Theorems about Pipeline, for any wordlist, answers, chunk size, factors *)
(* and bounds.                                                             *)
(***************************************************************************)
EXTENDS Pipeline, SequenceTheorems, WellFoundedInduction, TLAPS

(***************************************************************************)
(* The inductive invariant: what each command has dealt with so far, and   *)
(* what the files have to do with each other while it runs.                *)
(***************************************************************************)

Phrases == Seq(0..127)
Answers == [code : 0..999, phrase : Phrases]
Logs == [code : 0..999, phrase : Phrases, word : STRING]
\* The numbers of a line of the stash, and a phrase as they print it.
Values == Seq(Tokens)
PrintedPhrase(p) == [c \in DOMAIN p |-> Printed(p[c])]

DiskOK ==
    /\ files \in Seq([rows : Seq(Answers), whole : BOOLEAN]) /\ table \in BOOLEAN
    /\ db \in Seq(Logs) /\ stash \in Seq(StashLine) \cup {Absent}
    /\ model \in [1..4 -> Summary \cup {Absent, Torn}]
MemoryOK ==
    /\ op \in {"idle", "scan", "transfer", "compile", "train"}
    /\ arg \in Nat /\ cur \in Nat
    /\ op = "scan" => buf \in Seq(Answers)
    /\ op \in {"transfer", "compile"} => buf \in Seq(Logs)
    /\ op = "compile" => arg \in 0..999
    /\ op = "train" => buf \in Seq(StashLine)
CountsOK ==
    /\ transfers \in Nat /\ trainings \in Nat
    /\ stashCut \in BOOLEAN /\ fault \in BOOLEAN
TypeOK == DiskOK /\ MemoryOK /\ CountsOK

\* The entries of the first file, n times.
Copies(n) == FlattenSeq([i \in 1..n |-> Entries(files[1].rows)])

\* A transfer that is under way has committed nothing yet.
Transferred ==
    /\ db # <<>> =>
           /\ files # <<>> /\ files[1].whole
           /\ \E n \in 1..transfers :
                  db = Copies(n) /\ (op = "transfer" => n < transfers)
    /\ op = "transfer" =>
           /\ transfers > 0
           /\ files # <<>> /\ files[1].whole =>
                  /\ cur <= Len(Entries(files[1].rows))
                  /\ buf = SubSeq(Entries(files[1].rows), 1, cur)

\* The rows saved to the stash, and what it holds of the first n rows m.
Saved == cur - Len(buf)
Size(n) == ((n - 1) % ChunkSize) + 1
LastChunk(m, n, code) ==
    [i \in 1..Size(n) |->
        [status |-> Token(code), tokens |-> PrintedPhrase(m[n - Size(n) + 1].phrase)]]

Compiling ==
    /\ cur <= Len(Matches(arg)) /\ Len(buf) <= ChunkSize /\ Len(buf) <= cur
    /\ buf = SubSeq(Matches(arg), Saved + 1, cur)
    /\ Saved % ChunkSize = 0 \/ (cur = Len(Matches(arg)) /\ buf = <<>>)
    /\ Saved > 0 => stash = LastChunk(Matches(arg), Saved, arg)
Compiled == op = "compile" => Compiling

\* The lines have one code, and, unless cut by a crash, the same characters
\* and as many of them.
OneCode(lines) == \A i, j \in DOMAIN lines : lines[i].status = lines[j].status
OneText(lines) ==
    \A i, j \in DOMAIN lines : \A c \in DOMAIN lines[i].tokens \cap DOMAIN lines[j].tokens :
        lines[i].tokens[c] = lines[j].tokens[c]
Regular(lines, cut) == OneCode(lines) /\ (~cut => OneText(lines) /\ ~Ragged(lines))

Stashed == Regular(Sample, stashCut)

\* File f is of training n.
Of(f, n) == Written(f) /\ model[f].run = n

\* What a file holds is of a training that was started.
Summaries ==
    \A f \in 1..4 : Written(f) =>
        model[f].run <= trainings /\ Regular(model[f].sample, model[f].cut)

\* How far the training under way has come.
Training ==
    /\ cur <= 4 /\ Regular(buf, stashCut)
    /\ \A f \in 1..4 : f <= cur => Of(f, trainings)
    /\ \A f \in 1..4 : f > cur /\ Written(f) => model[f].run < trainings
InTraining == op = "train" => Training

\* A file is never older than one that is saved after it, and newer when one
\* between the two was torn.
Ordered ==
    \A f, g \in 1..4 : f < g /\ Written(g) =>
        /\ model[f] # Absent
        /\ Written(f) => model[f].run >= model[g].run
        /\ \A h \in 1..4 : f < h /\ h < g /\ Written(f) /\ model[h] = Torn =>
               model[f].run > model[g].run

\* A report stands while no command runs.
Reporting == report # NoReport => op = "idle"

Inv ==
    /\ TypeOK /\ Transferred /\ Compiled /\ Stashed
    /\ Summaries /\ InTraining /\ Ordered
    /\ Reporting /\ BaselineIsFlat

(***************************************************************************)
(* Induction over the naturals up to n, as membership in a set, and the    *)
(* folds of the model unrolled by it.                                      *)
(***************************************************************************)

\* A set of naturals that is not empty has a least member.
LEMMA Least ==
    ASSUME NEW S, S \subseteq Nat, S # {}
    PROVE  \E m \in S : \A n \in S : m <= n
<1> DEFINE R == OpToRel(<, Nat)
<1>1. IsWellFoundedOn(R, Nat)
  BY NatLessThanWellFounded
<1>2. PICK m \in S : \A n \in S : <<n, m>> \notin R
  BY <1>1, WFMin
<1>3. \A n \in S : ~(n < m)
  BY <1>2 DEF OpToRel
<1>4. QED
  BY <1>3

\* What holds of 0 and passes from each k - 1 to k holds up to n.
LEMMA Upto ==
    ASSUME NEW n \in Nat, NEW S, 0 \in S, \A k \in 1..n : k - 1 \in S => k \in S
    PROVE  0..n \subseteq S
<1> DEFINE Bad == (0..n) \ S
<1>1. SUFFICES ASSUME Bad # {} PROVE FALSE
  OBVIOUS
<1>2. Bad \subseteq Nat
  OBVIOUS
<1>3. PICK m \in Bad : \A k \in Bad : m <= k
  <2> HIDE DEF Bad
  <2>1. QED
    BY <1>1, <1>2, Least
<1>4. m \in 1..n /\ m - 1 \in 0..n /\ ~(m <= m - 1)
  OBVIOUS
<1>5. m - 1 \in S
  BY <1>3, <1>4
<1>6. QED
  BY <1>4, <1>5

\* The greatest of 1..m is m.
LEMMA MaxIs ==
    ASSUME NEW m \in Nat, NEW u \in SUBSET (1..m), m \in u
    PROVE  Max(u) = m
<1>1. \A x \in u : (\A y \in u : x >= y) <=> x = m
  OBVIOUS
<1>2. QED
  BY <1>1 DEF Max

\* A set of naturals up to n that is not empty has its maximum.
LEMMA MaxIn ==
    ASSUME NEW n \in Nat, NEW u \in SUBSET (1..n), u # {}
    PROVE  Max(u) \in u
<1> DEFINE S == {m \in 0..n : \A v \in SUBSET (1..m) : v # {} =>
                    \E x \in v : \A y \in v : x >= y}
<1>1. 0 \in S
  <2>1. 0 \in 0..n /\ \A v \in SUBSET (1..0) : v = {}
    OBVIOUS
  <2>2. QED
    BY <2>1
<1>2. ASSUME NEW m \in 1..n, m - 1 \in S PROVE m \in S
  <2>1. ASSUME NEW v \in SUBSET (1..m), v # {}
        PROVE  \E x \in v : \A y \in v : x >= y
    <3>1. CASE m \in v
      BY <3>1
    <3>2. CASE m \notin v
      <4>1. v \in SUBSET (1..(m - 1))
        BY <3>2
      <4>2. QED
        BY <1>2, <2>1, <4>1
    <3>3. QED
      BY <3>1, <3>2
  <2>2. QED
    BY <2>1
<1>3. n \in S
  <2> HIDE DEF S
  <2>1. 0..n \subseteq S
    BY <1>1, <1>2, Upto
  <2>2. QED
    BY <2>1
<1>4. QED
  BY <1>3 DEF Max

\* A function F by which the n items of s can be folded from base, and a
\* table of the fold over every part of them.
Folds(A, B, F, base, n, s) ==
    F \in [A -> [B -> A]] /\ base \in A /\ n \in Nat /\ s \in [1..n -> B]
Tabulates(g, A, F, base, n, s) ==
    /\ g \in [SUBSET (1..n) -> A]
    /\ \A u \in SUBSET (1..n) :
           g[u] = IF u = {} THEN base ELSE F[g[u \ {Max(u)}]][s[Max(u)]]

\* There is such a table.
LEMMA FoldExists ==
    ASSUME NEW A, NEW B, NEW F, NEW base, NEW n, NEW s, Folds(A, B, F, base, n, s)
    PROVE  \E g : Tabulates(g, A, F, base, n, s)
<1> DEFINE S == {m \in 0..n : \E g : Tabulates(g, A, F, base, m, s)}
<1>1. F \in [A -> [B -> A]] /\ base \in A /\ n \in Nat /\ s \in [1..n -> B]
  BY DEF Folds
<1>2. 0 \in S
  <2> DEFINE g == [u \in SUBSET (1..0) |-> base]
  <2>1. \A u \in SUBSET (1..0) : u = {}
    OBVIOUS
  <2>2. Tabulates(g, A, F, base, 0, s)
    BY <1>1, <2>1 DEF Tabulates
  <2>3. 0 \in 0..n
    BY <1>1
  <2>4. QED
    BY <2>2, <2>3
<1>3. ASSUME NEW m \in 1..n, m - 1 \in S PROVE m \in S
  <2>1. PICK h : Tabulates(h, A, F, base, m - 1, s)
    BY <1>3
  <2>2. /\ h \in [SUBSET (1..(m - 1)) -> A]
        /\ \A u \in SUBSET (1..(m - 1)) :
               h[u] = IF u = {} THEN base ELSE F[h[u \ {Max(u)}]][s[Max(u)]]
    BY <2>1 DEF Tabulates
  <2> DEFINE g == [u \in SUBSET (1..m) |->
                      IF m \in u THEN F[h[u \ {m}]][s[m]] ELSE h[u]]
  <2>3. ASSUME NEW u \in SUBSET (1..m)
        PROVE  /\ u \ {m} \in SUBSET (1..(m - 1))
               /\ m \notin u => u \in SUBSET (1..(m - 1))
               /\ m \in u => Max(u) = m
    <3>1. m \in Nat
      BY <1>1
    <3>2. m \in u => Max(u) = m
      BY <3>1, MaxIs
    <3>3. u \ {m} \in SUBSET (1..(m - 1)) /\ (m \notin u => u \in SUBSET (1..(m - 1)))
      BY <3>1
    <3>4. QED
      BY <3>2, <3>3
  <2>4. g \in [SUBSET (1..m) -> A]
    <3>1. ASSUME NEW u \in SUBSET (1..m)
          PROVE (IF m \in u THEN F[h[u \ {m}]][s[m]] ELSE h[u]) \in A
      BY <1>1, <2>2, <2>3
    <3>2. QED
      BY <3>1
  <2>5. ASSUME NEW u \in SUBSET (1..m)
        PROVE  g[u] = IF u = {} THEN base ELSE F[g[u \ {Max(u)}]][s[Max(u)]]
    <3>1. CASE m \in u
      <4>1. g[u] = F[h[u \ {m}]][s[m]] /\ Max(u) = m
        BY <2>3, <3>1
      <4>2. g[u \ {m}] = h[u \ {m}]
        BY <2>3
      <4>3. QED
        BY <3>1, <4>1, <4>2
    <3>2. CASE m \notin u
      <4>1. u \in SUBSET (1..(m - 1)) /\ g[u] = h[u]
        BY <2>3, <3>2
      <4> DEFINE v == u \ {Max(u)}
      <4>2. v \in SUBSET (1..(m - 1)) /\ v \in SUBSET (1..m) /\ m \notin v
        BY <3>2, <4>1
      <4>3. g[v] = h[v]
        <5> HIDE DEF v
        <5>1. QED
          BY <4>2
      <4>4. h[u] = IF u = {} THEN base ELSE F[h[u \ {Max(u)}]][s[Max(u)]]
        BY <2>2, <4>1
      <4>5. QED
        BY <4>1, <4>3, <4>4
    <3>3. QED
      BY <3>1, <3>2
  <2>6. Tabulates(g, A, F, base, m, s)
    BY <2>4, <2>5 DEF Tabulates
  <2>7. m \in 0..n
    BY <1>1
  <2>8. QED
    BY <2>6, <2>7
<1>4. n \in S
  <2> HIDE DEF S
  <2>1. 0..n \subseteq S
    BY <1>1, <1>2, <1>3, Upto
  <2>2. QED
    BY <1>1, <2>1
<1>5. QED
  BY <1>4

\* The sets such a table is asked for on the way through a sequence.
LEMMA PrefixSets ==
    ASSUME NEW n \in Nat, NEW k \in 1..n
    PROVE  /\ 1..k \in SUBSET (1..n) /\ 1..k # {}
           /\ Max(1..k) = k
           /\ (1..k) \ {k} = 1..(k - 1)
<1>1. k \in Nat /\ 1..k \in SUBSET (1..k) /\ k \in 1..k
  OBVIOUS
<1>2. Max(1..k) = k
  BY <1>1, MaxIs
<1>3. 1..k \in SUBSET (1..n) /\ 1..k # {}
  OBVIOUS
<1>4. (1..k) \ {k} = 1..(k - 1)
  OBVIOUS
<1>5. QED
  BY <1>2, <1>3, <1>4

\* Where a table g follows F along a sequence, it is typed as F is.
LEMMA FoldTable ==
    ASSUME NEW A, NEW B, NEW F, NEW base, NEW n, NEW s, Folds(A, B, F, base, n, s),
           NEW g, g[1..0] = base,
           \A k \in 1..n : g[1..(k - 1)] \in A => g[1..k] = F[g[1..(k - 1)]][s[k]]
    PROVE  \E t \in [0..n -> A] :
               /\ t[0] = base /\ t[n] = g[1..n]
               /\ \A k \in 1..n : t[k] = F[t[k - 1]][s[k]]
<1> DEFINE S == {k \in 0..n : g[1..k] \in A}
           t == [k \in 0..n |-> g[1..k]]
<1>0. F \in [A -> [B -> A]] /\ base \in A /\ n \in Nat /\ s \in [1..n -> B]
  BY DEF Folds
<1>1. 0 \in S
  BY <1>0
<1>2. ASSUME NEW k \in 1..n, k - 1 \in S PROVE k \in S
  <2>1. g[1..(k - 1)] \in A /\ s[k] \in B /\ k \in 0..n
    BY <1>0, <1>2
  <2>2. g[1..k] = F[g[1..(k - 1)]][s[k]]
    BY <2>1
  <2>3. F[g[1..(k - 1)]][s[k]] \in A
    BY <1>0, <2>1
  <2>4. QED
    BY <2>1, <2>2, <2>3
<1>3. 0..n \subseteq S
  <2> HIDE DEF S
  <2>1. QED
    BY <1>0, <1>1, <1>2, Upto
<1>4. t \in [0..n -> A] /\ t[0] = base /\ t[n] = g[1..n]
  BY <1>0, <1>3
<1>5. ASSUME NEW k \in 1..n PROVE t[k] = F[t[k - 1]][s[k]]
  <2>1. k - 1 \in 0..n /\ k \in 0..n /\ g[1..(k - 1)] \in A
    BY <1>0, <1>3
  <2>2. QED
    BY <2>1
<1>6. QED
  BY <1>4, <1>5

\* A total is reached one summand at a time,
LEMMA TotalSteps ==
    ASSUME NEW s \in Seq(Int)
    PROVE  \E t \in [0..Len(s) -> Int] :
               /\ t[0] = 0 /\ t[Len(s)] = Total(s)
               /\ \A k \in 1..Len(s) : t[k] = t[k - 1] + s[k]
<1> DEFINE n == Len(s)
           A == Int
           B == Int
           base == 0
           plus(x, y) == x + y
           F == [x \in A |-> [y \in B |-> plus(x, y)]]
           Eq(g) == g = [u \in SUBSET (1..n) |->
                            IF u = {} THEN base ELSE plus(g[u \ {Max(u)}], s[Max(u)])]
<1>1. n \in Nat /\ s \in [1..n -> B] /\ DOMAIN s = 1..n
  OBVIOUS
<1>2. F \in [A -> [B -> A]] /\ base \in A /\ \A x \in A, y \in B : F[x][y] = plus(x, y)
  OBVIOUS
<1>3. Folds(A, B, F, base, n, s)
  BY <1>1, <1>2 DEF Folds
<1>4. (\E g : Eq(g)) => \E g : Eq(g) /\ Total(s) = g[1..n]
  BY <1>1 DEF Total, FoldLeft, MapThenFoldSet
<1>5. \E t \in [0..n -> A] :
          /\ t[0] = base /\ t[n] = Total(s)
          /\ \A k \in 1..n : t[k] = plus(t[k - 1], s[k])
  <2> HIDE DEF n, A, B, base, plus, F
  <2>1. PICK f : Tabulates(f, A, F, base, n, s)
    BY <1>3, FoldExists
  <2>2. /\ f \in [SUBSET (1..n) -> A]
        /\ \A u \in SUBSET (1..n) :
              f[u] = IF u = {} THEN base ELSE F[f[u \ {Max(u)}]][s[Max(u)]]
    BY <2>1 DEF Tabulates
  <2>3. ASSUME NEW u \in SUBSET (1..n)
        PROVE  f[u] = IF u = {} THEN base ELSE plus(f[u \ {Max(u)}], s[Max(u)])
    <3>1. CASE u = {}
      BY <2>2, <3>1
    <3>2. CASE u # {}
      <4>1. Max(u) \in 1..n
        BY <1>1, <3>2, MaxIn
      <4>2. u \ {Max(u)} \in SUBSET (1..n)
        OBVIOUS
      <4>3. f[u \ {Max(u)}] \in A /\ s[Max(u)] \in B
        BY <1>1, <2>2, <4>1, <4>2
      <4>4. QED
        BY <1>2, <2>2, <3>2, <4>3
    <3>3. QED
      BY <3>1, <3>2
  <2>4. Eq(f)
    BY <2>2, <2>3
  <2>5. PICK g : Eq(g) /\ Total(s) = g[1..n]
    BY <1>4, <2>4
  <2>6. g[1..0] = base
    <3>1. 1..0 = {} /\ 1..0 \in SUBSET (1..n)
      BY <1>1
    <3>2. QED
      BY <2>5, <3>1
  <2>7. ASSUME NEW k \in 1..n PROVE g[1..k] = plus(g[1..(k - 1)], s[k])
    BY <1>1, <2>5, PrefixSets, ZenonT(60)
  <2>8. \A k \in 1..n : g[1..(k - 1)] \in A => g[1..k] = F[g[1..(k - 1)]][s[k]]
    BY <1>1, <1>2, <2>7
  <2>9. PICK t \in [0..n -> A] :
            /\ t[0] = base /\ t[n] = g[1..n]
            /\ \A k \in 1..n : t[k] = F[t[k - 1]][s[k]]
    BY <1>3, <2>6, <2>8, FoldTable
  <2>10. ASSUME NEW k \in 1..n PROVE t[k] = plus(t[k - 1], s[k])
    <3>1. k - 1 \in 0..n
      BY <1>1
    <3>2. t[k - 1] \in A /\ s[k] \in B
      BY <1>1, <3>1
    <3>3. QED
      BY <1>2, <2>9, <3>2
  <2>11. QED
    BY <2>5, <2>9, <2>10
<1>6. QED
  BY <1>5

\* the rows of a code one row at a time,
Selects(t, code) ==
    /\ t \in [0..Len(db) -> Seq(Logs)]
    /\ t[0] = <<>> /\ t[Len(db)] = Matches(code)
    /\ \A k \in 1..Len(db) :
           t[k] = IF db[k].code = code THEN Append(t[k - 1], db[k]) ELSE t[k - 1]

LEMMA MatchesSteps ==
    ASSUME NEW code, db \in Seq(Logs)
    PROVE  \E t : Selects(t, code)
<1> DEFINE n == Len(db)
           A == Seq(Logs)
           B == Logs
           base == <<>>
           with(x, y) == IF y.code = code THEN Append(x, y) ELSE x
           F == [x \in A |-> [y \in B |-> with(x, y)]]
           Eq(g) == g = [u \in SUBSET (1..n) |->
                            IF u = {} THEN base ELSE with(g[u \ {Max(u)}], db[Max(u)])]
<1>1. n \in Nat /\ db \in [1..n -> B] /\ DOMAIN db = 1..n
  OBVIOUS
<1>2. F \in [A -> [B -> A]] /\ base \in A /\ \A x \in A, y \in B : F[x][y] = with(x, y)
  OBVIOUS
<1>3. Folds(A, B, F, base, n, db)
  BY <1>1, <1>2 DEF Folds
<1>4. (\E g : Eq(g)) => \E g : Eq(g) /\ Matches(code) = g[1..n]
  BY <1>1 DEF Matches, FoldLeft, MapThenFoldSet
<1>5. \E t \in [0..n -> A] :
          /\ t[0] = base /\ t[n] = Matches(code)
          /\ \A k \in 1..n : t[k] = with(t[k - 1], db[k])
  <2> HIDE DEF n, A, B, base, with, F
  <2>1. PICK f : Tabulates(f, A, F, base, n, db)
    BY <1>3, FoldExists
  <2>2. /\ f \in [SUBSET (1..n) -> A]
        /\ \A u \in SUBSET (1..n) :
              f[u] = IF u = {} THEN base ELSE F[f[u \ {Max(u)}]][db[Max(u)]]
    BY <2>1 DEF Tabulates
  <2>3. ASSUME NEW u \in SUBSET (1..n)
        PROVE  f[u] = IF u = {} THEN base ELSE with(f[u \ {Max(u)}], db[Max(u)])
    <3>1. CASE u = {}
      BY <2>2, <3>1
    <3>2. CASE u # {}
      <4>1. Max(u) \in 1..n
        BY <1>1, <3>2, MaxIn
      <4>2. u \ {Max(u)} \in SUBSET (1..n)
        OBVIOUS
      <4>3. f[u \ {Max(u)}] \in A /\ db[Max(u)] \in B
        BY <1>1, <2>2, <4>1, <4>2
      <4>4. QED
        BY <1>2, <2>2, <3>2, <4>3
    <3>3. QED
      BY <3>1, <3>2
  <2>4. Eq(f)
    BY <2>2, <2>3
  <2>5. PICK g : Eq(g) /\ Matches(code) = g[1..n]
    BY <1>4, <2>4
  <2>6. g[1..0] = base
    <3>1. 1..0 = {} /\ 1..0 \in SUBSET (1..n)
      BY <1>1
    <3>2. QED
      BY <2>5, <3>1
  <2>7. ASSUME NEW k \in 1..n PROVE g[1..k] = with(g[1..(k - 1)], db[k])
    BY <1>1, <2>5, PrefixSets, ZenonT(60)
  <2>8. \A k \in 1..n : g[1..(k - 1)] \in A => g[1..k] = F[g[1..(k - 1)]][db[k]]
    BY <1>1, <1>2, <2>7
  <2>9. PICK t \in [0..n -> A] :
            /\ t[0] = base /\ t[n] = g[1..n]
            /\ \A k \in 1..n : t[k] = F[t[k - 1]][db[k]]
    BY <1>3, <2>6, <2>8, FoldTable
  <2>10. ASSUME NEW k \in 1..n PROVE t[k] = with(t[k - 1], db[k])
    <3>1. k - 1 \in 0..n
      BY <1>1
    <3>2. t[k - 1] \in A /\ db[k] \in B
      BY <1>1, <3>1
    <3>3. QED
      BY <1>2, <2>9, <3>2
  <2>11. QED
    BY <2>5, <2>9, <2>10
<1>6. QED
  BY <1>5 DEF Selects

\* and a column one line at a time.
LEMMA ColumnSteps ==
    ASSUME NEW lines \in Seq(StashLine), NEW c \in Nat \ {0}
    PROVE  \E t \in [0..Len(lines) -> Values] :
               /\ t[0] = <<>> /\ t[Len(lines)] = Column(lines, c)
               /\ \A k \in 1..Len(lines) :
                      t[k] = IF c <= Len(lines[k].tokens)
                             THEN Append(t[k - 1], lines[k].tokens[c]) ELSE t[k - 1]
<1> DEFINE n == Len(lines)
           A == Values
           B == StashLine
           base == <<>>
           with(x, y) == IF c <= Len(y.tokens) THEN Append(x, y.tokens[c]) ELSE x
           F == [x \in A |-> [y \in B |-> with(x, y)]]
           Eq(g) == g = [u \in SUBSET (1..n) |->
                            IF u = {} THEN base ELSE with(g[u \ {Max(u)}], lines[Max(u)])]
<1>1. n \in Nat /\ lines \in [1..n -> B] /\ DOMAIN lines = 1..n
  OBVIOUS
<1>2. F \in [A -> [B -> A]] /\ base \in A /\ \A x \in A, y \in B : F[x][y] = with(x, y)
  <2>1. ASSUME NEW x \in A, NEW y \in B PROVE with(x, y) \in A
    BY DEF Values, StashLine
  <2>2. base \in A
    BY DEF Values
  <2>3. QED
    BY <2>1, <2>2
<1>3. Folds(A, B, F, base, n, lines)
  BY <1>1, <1>2 DEF Folds
<1>4. (\E g : Eq(g)) => \E g : Eq(g) /\ Column(lines, c) = g[1..n]
  BY <1>1 DEF Column, FoldLeft, MapThenFoldSet
<1>5. \E t \in [0..n -> A] :
          /\ t[0] = base /\ t[n] = Column(lines, c)
          /\ \A k \in 1..n : t[k] = with(t[k - 1], lines[k])
  <2> HIDE DEF n, A, B, base, with, F
  <2>1. PICK f : Tabulates(f, A, F, base, n, lines)
    BY <1>3, FoldExists
  <2>2. /\ f \in [SUBSET (1..n) -> A]
        /\ \A u \in SUBSET (1..n) :
              f[u] = IF u = {} THEN base ELSE F[f[u \ {Max(u)}]][lines[Max(u)]]
    BY <2>1 DEF Tabulates
  <2>3. ASSUME NEW u \in SUBSET (1..n)
        PROVE  f[u] = IF u = {} THEN base ELSE with(f[u \ {Max(u)}], lines[Max(u)])
    <3>1. CASE u = {}
      BY <2>2, <3>1
    <3>2. CASE u # {}
      <4>1. Max(u) \in 1..n
        BY <1>1, <3>2, MaxIn
      <4>2. u \ {Max(u)} \in SUBSET (1..n)
        OBVIOUS
      <4>3. f[u \ {Max(u)}] \in A /\ lines[Max(u)] \in B
        BY <1>1, <2>2, <4>1, <4>2
      <4>4. QED
        BY <1>2, <2>2, <3>2, <4>3
    <3>3. QED
      BY <3>1, <3>2
  <2>4. Eq(f)
    BY <2>2, <2>3
  <2>5. PICK g : Eq(g) /\ Column(lines, c) = g[1..n]
    BY <1>4, <2>4
  <2>6. g[1..0] = base
    <3>1. 1..0 = {} /\ 1..0 \in SUBSET (1..n)
      BY <1>1
    <3>2. QED
      BY <2>5, <3>1
  <2>7. ASSUME NEW k \in 1..n PROVE g[1..k] = with(g[1..(k - 1)], lines[k])
    BY <1>1, <2>5, PrefixSets, ZenonT(60)
  <2>8. \A k \in 1..n : g[1..(k - 1)] \in A => g[1..k] = F[g[1..(k - 1)]][lines[k]]
    BY <1>1, <1>2, <2>7
  <2>9. PICK t \in [0..n -> A] :
            /\ t[0] = base /\ t[n] = g[1..n]
            /\ \A k \in 1..n : t[k] = F[t[k - 1]][lines[k]]
    BY <1>3, <2>6, <2>8, FoldTable
  <2>10. ASSUME NEW k \in 1..n PROVE t[k] = with(t[k - 1], lines[k])
    <3>1. k - 1 \in 0..n
      BY <1>1
    <3>2. t[k - 1] \in A /\ lines[k] \in B
      BY <1>1, <3>1
    <3>3. QED
      BY <1>2, <2>9, <3>2
  <2>11. QED
    BY <2>5, <2>9, <2>10
<1>6. QED
  BY <1>5

\* Along a sequence alone, a fold is a table by position.
LEMMA FoldRuns ==
    ASSUME NEW A, NEW B, NEW F, NEW base, NEW n, NEW s, Folds(A, B, F, base, n, s)
    PROVE  \E t \in [0..n -> A] :
               t[0] = base /\ \A k \in 1..n : t[k] = F[t[k - 1]][s[k]]
<1>1. PICK g : Tabulates(g, A, F, base, n, s)
  BY FoldExists
<1>2. /\ g \in [SUBSET (1..n) -> A]
      /\ \A u \in SUBSET (1..n) :
             g[u] = IF u = {} THEN base ELSE F[g[u \ {Max(u)}]][s[Max(u)]]
  BY <1>1 DEF Tabulates
<1>3. n \in Nat
  BY DEF Folds
<1>4. g[1..0] = base
  <2>1. 1..0 = {} /\ 1..0 \in SUBSET (1..n)
    BY <1>3
  <2>2. QED
    BY <1>2, <2>1
<1>5. \A k \in 1..n : g[1..(k - 1)] \in A => g[1..k] = F[g[1..(k - 1)]][s[k]]
  BY <1>2, <1>3, PrefixSets
<1>6. QED
  BY <1>4, <1>5, FoldTable

\* A flattening grows by one sequence at a time,
LEMMA FlattenSteps ==
    ASSUME NEW A, NEW h \in Seq(Seq(A))
    PROVE  \E t \in [0..Len(h) -> Seq(A)] :
               /\ t[0] = <<>> /\ t[Len(h)] = FlattenSeq(h)
               /\ \A k \in 1..Len(h) : t[k] = t[k - 1] \o h[k]
<1> DEFINE n == Len(h)
           Q == Seq(A)
           F == [x \in Q |-> [y \in Q |-> x \o y]]
           Eq(g) == g = [i \in 1..n |-> IF i = 1 THEN h[i] ELSE g[i - 1] \o h[i]]
<1>1. n \in Nat /\ h \in [1..n -> Q] /\ <<>> \in Q /\ \A x \in Q : <<>> \o x = x
  OBVIOUS
<1>2. F \in [Q -> [Q -> Q]] /\ \A x \in Q, y \in Q : F[x][y] = x \o y
  OBVIOUS
<1>3. Folds(Q, Q, F, <<>>, n, h)
  <2> HIDE DEF Q, F, n
  <2>1. QED
    BY <1>1, <1>2 DEF Folds
<1>4. PICK t \in [0..n -> Q] :
          t[0] = <<>> /\ \A k \in 1..n : t[k] = F[t[k - 1]][h[k]]
  <2> HIDE DEF Q, F, n
  <2>1. QED
    BY <1>3, FoldRuns
<1>5. ASSUME NEW k \in 1..n PROVE t[k] = t[k - 1] \o h[k]
  <2>1. k - 1 \in 0..n
    BY <1>1
  <2>2. t[k - 1] \in Q /\ h[k] \in Q
    BY <1>1, <2>1
  <2>3. QED
    BY <1>2, <1>4, <2>2
<1>6. CASE n = 0
  <2>1. h = <<>>
    BY <1>6
  <2>2. FlattenSeq(h) = <<>>
    BY <1>6, <2>1 DEF FlattenSeq
  <2>3. QED
    BY <1>4, <1>5, <1>6, <2>2
<1>7. CASE n # 0
  <2>1. \E g : Eq(g)
    <3> DEFINE g == [i \in 1..n |-> t[i]]
    <3>1. ASSUME NEW i \in 1..n PROVE g[i] = IF i = 1 THEN h[i] ELSE g[i - 1] \o h[i]
      <4>1. CASE i = 1
        <5>1. t[1] = t[0] \o h[1] /\ h[1] \in Q
          BY <1>1, <1>5, <4>1
        <5>2. QED
          BY <1>1, <1>4, <4>1, <5>1
      <4>2. CASE i # 1
        <5>1. i - 1 \in 1..n
          BY <1>1, <4>2
        <5>2. QED
          BY <1>5, <4>2, <5>1
      <4>3. QED
        BY <4>1, <4>2
    <3>2. Eq(g)
      BY <3>1
    <3>3. QED
      BY <3>2
  <2>2. PICK g : Eq(g) /\ FlattenSeq(h) = g[n]
    BY <1>7, <2>1 DEF FlattenSeq
  <2> DEFINE S == {k \in 0..n : k = 0 \/ g[k] = t[k]}
  <2>3. 0 \in S
    BY <1>1
  <2>4. ASSUME NEW k \in 1..n, k - 1 \in S PROVE k \in S
    <3>1. CASE k = 1
      <4>1. t[1] = t[0] \o h[1] /\ h[1] \in Q
        BY <1>1, <1>5, <3>1
      <4>2. g[1] = h[1]
        BY <2>2, <3>1
      <4>3. QED
        BY <1>1, <1>4, <3>1, <4>1, <4>2
    <3>2. CASE k # 1
      <4>1. k - 1 # 0 /\ k \in 0..n
        BY <1>1, <3>2
      <4>2. g[k - 1] = t[k - 1]
        BY <2>4, <4>1
      <4>3. g[k] = g[k - 1] \o h[k]
        BY <2>2, <3>2
      <4>4. QED
        BY <1>5, <4>1, <4>2, <4>3
    <3>3. QED
      BY <3>1, <3>2
  <2>5. n \in S
    <3> HIDE DEF S, n
    <3>1. 0..n \subseteq S
      BY <1>1, <2>3, <2>4, Upto
    <3>2. QED
      BY <1>1, <3>1
  <2>6. t[n] = FlattenSeq(h)
    BY <1>7, <2>2, <2>5
  <2>7. QED
    BY <1>4, <1>5, <2>6
<1>8. QED
  BY <1>6, <1>7

\* and is no different for what comes after.
LEMMA FlattenGrows ==
    ASSUME NEW A, NEW h \in Seq(Seq(A)), NEW k \in Seq(Seq(A)),
           Len(k) = Len(h) + 1, \A i \in 1..Len(h) : k[i] = h[i]
    PROVE  /\ FlattenSeq(h) \in Seq(A)
           /\ FlattenSeq(k) = FlattenSeq(h) \o k[Len(k)]
<1> DEFINE n == Len(h)
<1>1. n \in Nat /\ Len(k) = n + 1 /\ n \in 0..n
  OBVIOUS
<1>2. PICK t \in [0..n -> Seq(A)] :
          /\ t[0] = <<>> /\ t[n] = FlattenSeq(h)
          /\ \A i \in 1..n : t[i] = t[i - 1] \o h[i]
  BY FlattenSteps
<1>3. PICK u \in [0..n + 1 -> Seq(A)] :
          /\ u[0] = <<>> /\ u[n + 1] = FlattenSeq(k)
          /\ \A i \in 1..(n + 1) : u[i] = u[i - 1] \o k[i]
  <2>1. \E u \in [0..Len(k) -> Seq(A)] :
            /\ u[0] = <<>> /\ u[Len(k)] = FlattenSeq(k)
            /\ \A i \in 1..Len(k) : u[i] = u[i - 1] \o k[i]
    BY FlattenSteps
  <2>2. QED
    BY <1>1, <2>1
<1> DEFINE S == {i \in 0..n : u[i] = t[i]}
<1>4. n \in S
  <2>1. 0 \in S
    BY <1>1, <1>2, <1>3
  <2>2. ASSUME NEW i \in 1..n, i - 1 \in S PROVE i \in S
    <3>1. i \in 1..(n + 1) /\ i \in 0..n /\ u[i - 1] = t[i - 1] /\ k[i] = h[i]
      BY <1>1, <2>2
    <3>2. QED
      BY <1>2, <1>3, <3>1
  <2>3. 0..n \subseteq S
    <3> HIDE DEF S, n
    <3>1. QED
      BY <1>1, <2>1, <2>2, Upto
  <2>4. QED
    BY <1>1, <2>3
<1>5. u[n + 1] = u[n] \o k[n + 1]
  <2>1. n + 1 \in 1..(n + 1) /\ (n + 1) - 1 = n
    BY <1>1
  <2>2. QED
    BY <1>3, <2>1
<1>6. QED
  BY <1>1, <1>2, <1>3, <1>4, <1>5

(***************************************************************************)
(* What is saved of a chunk, and what a training finds in it.              *)
(***************************************************************************)

\* The first m items of a sequence.
LEMMA FirstOf ==
    ASSUME NEW A, NEW v \in Seq(A), NEW m \in 0..Len(v)
    PROVE  /\ SubSeq(v, 1, m) \in Seq(A) /\ Len(SubSeq(v, 1, m)) = m
           /\ \A k \in 1..m : SubSeq(v, 1, m)[k] = v[k]
OBVIOUS

\* One sequence is its own flattening.
LEMMA FlattenOne ==
    ASSUME NEW A, NEW h \in Seq(Seq(A)), Len(h) = 1
    PROVE  FlattenSeq(h) = h[1]
<1>1. PICK t \in [0..1 -> Seq(A)] :
          /\ t[0] = <<>> /\ t[1] = FlattenSeq(h)
          /\ \A k \in 1..1 : t[k] = t[k - 1] \o h[k]
  <2>1. \E t \in [0..Len(h) -> Seq(A)] :
            /\ t[0] = <<>> /\ t[Len(h)] = FlattenSeq(h)
            /\ \A k \in 1..Len(h) : t[k] = t[k - 1] \o h[k]
    BY FlattenSteps
  <2>2. QED
    BY <2>1
<1>2. h[1] \in Seq(A)
  <2> DEFINE Q == Seq(A)
  <2>1. h \in [1..1 -> Q]
    OBVIOUS
  <2>2. h[1] \in Q
    <3> HIDE DEF Q
    <3>1. QED
      BY <2>1
  <2>3. QED
    BY <2>2
<1>3. t[1] = t[1 - 1] \o h[1] /\ 1 - 1 = 0
  BY <1>1
<1>4. QED
  BY <1>1, <1>2, <1>3

\* The vector of every row of a chunk begins with the phrase of the first one.
LEMMA TensorIs ==
    ASSUME NEW chunk \in Seq(Logs), chunk # <<>>, NEW i \in DOMAIN chunk
    PROVE  /\ Tensor(chunk)[i] \in Phrases
           /\ Len(chunk[1].phrase) <= Len(Tensor(chunk)[i])
           /\ SubSeq(Tensor(chunk)[i], 1, Len(chunk[1].phrase)) = chunk[1].phrase
<1> DEFINE n == Len(chunk)
           first == chunk[1].phrase
           h(j) == [k \in 1..j |-> chunk[k].phrase]
           Begins(v) == /\ v \in Phrases /\ Len(first) <= Len(v)
                        /\ SubSeq(v, 1, Len(first)) = first
           S == {j \in 0..n : j = 0 \/ Begins(FlattenSeq(h(j)))}
<1>1. n \in Nat /\ n > 0 /\ DOMAIN chunk = 1..n
  OBVIOUS
<1>2. \A k \in 1..n : chunk[k].phrase \in Phrases
  <2>1. \A k \in 1..n : chunk[k] \in Logs
    BY <1>1
  <2>2. QED
    BY <2>1 DEF Logs
<1>3. ASSUME NEW j \in 1..n PROVE h(j) \in Seq(Phrases) /\ Len(h(j)) = j
  BY <1>1, <1>2
<1>4. 0 \in S
  BY <1>1
<1>5. ASSUME NEW j \in 1..n, j - 1 \in S PROVE j \in S
  <2>1. j \in 0..n
    BY <1>1
  <2>2. CASE j = 1
    <3>1. FlattenSeq(h(1)) = first
      <4>1. h(1) \in Seq(Seq(0..127)) /\ Len(h(1)) = 1 /\ h(1)[1] = first
        BY <1>1, <1>3 DEF Phrases
      <4>2. QED
        BY <4>1, FlattenOne
    <3>2. first \in Phrases
      BY <1>1, <1>2
    <3>3. Begins(first)
      BY <3>2, SubSeqFull DEF Phrases
    <3>4. QED
      BY <2>1, <2>2, <3>1, <3>3
  <2>3. CASE j # 1
    <3>1. j - 1 \in 1..n /\ j - 1 # 0
      BY <1>1, <2>3
    <3> DEFINE a == FlattenSeq(h(j - 1))
               b == chunk[j].phrase
    <3>2. Begins(a)
      BY <1>5, <3>1
    <3>3. FlattenSeq(h(j)) = a \o b
      <4>1. h(j - 1) \in Seq(Seq(0..127)) /\ Len(h(j - 1)) = j - 1
        BY <1>3, <3>1 DEF Phrases
      <4>2. h(j) \in Seq(Seq(0..127)) /\ Len(h(j)) = j
        BY <1>3 DEF Phrases
      <4>3. Len(h(j)) = Len(h(j - 1)) + 1
        BY <1>1, <4>1, <4>2
      <4>4. \A k \in 1..Len(h(j - 1)) : h(j)[k] = h(j - 1)[k]
        BY <1>1, <4>1
      <4>5. h(j)[Len(h(j))] = b
        BY <1>1, <4>2
      <4> HIDE DEF h
      <4>6. QED
        BY <4>1, <4>2, <4>3, <4>4, <4>5, FlattenGrows
    <3>4. b \in Phrases
      BY <1>2
    <3>5. Begins(a \o b)
      <4>1. a \o b \in Phrases /\ Len(a \o b) = Len(a) + Len(b) /\ Len(first) <= Len(a)
        BY <3>2, <3>4 DEF Phrases
      <4>2. first \in Phrases
        BY <1>1, <1>2
      <4> DEFINE v == a \o b
                 m == Len(first)
      <4>3. /\ a \in Seq(0..127) /\ v \in Seq(0..127) /\ first \in Seq(0..127)
            /\ m \in 0..Len(a) /\ m \in 0..Len(v)
        BY <3>2, <4>1, <4>2 DEF Phrases
      <4>4. /\ SubSeq(v, 1, m) \in Seq(0..127) /\ Len(SubSeq(v, 1, m)) = m
            /\ \A k \in 1..m : SubSeq(v, 1, m)[k] = v[k]
        <5> HIDE DEF v, m
        <5>1. QED
          BY <4>3, FirstOf
      <4>5. ASSUME NEW k \in 1..m PROVE SubSeq(v, 1, m)[k] = first[k]
        <5>1. k \in 1..Len(a) /\ v[k] = a[k]
          BY <3>2, <3>4, <4>1, <4>2 DEF Phrases
        <5>2. SubSeq(a, 1, m)[k] = a[k]
          <6> HIDE DEF m, a
          <6>1. QED
            BY <4>3, FirstOf
        <5>3. SubSeq(a, 1, m) = first
          BY <3>2
        <5>4. QED
          BY <4>4, <5>1, <5>2, <5>3
      <4>6. SubSeq(v, 1, Len(first)) = first
        <5>1. Len(SubSeq(v, 1, m)) = Len(first)
          BY <4>4
        <5>2. SubSeq(v, 1, m) \in Seq(0..127)
          BY <4>4
        <5> HIDE DEF v, first
        <5>3. QED
          BY <4>3, <4>5, <5>1, <5>2, SeqEqual
      <4>7. v \in Phrases /\ Len(first) <= Len(v)
        BY <4>3 DEF Phrases
      <4>8. Begins(v)
        <5> HIDE DEF v, first
        <5>1. QED
          BY <4>6, <4>7
      <4>9. QED
        BY <4>8
    <3>6. QED
      BY <2>1, <3>3, <3>5
  <2>4. QED
    BY <2>2, <2>3
<1>6. 0..n \subseteq S
  <2> HIDE DEF S, n
  <2>1. QED
    BY <1>1, <1>4, <1>5, Upto
<1>7. Tensor(chunk)[i] = FlattenSeq(h(i))
  BY <1>1 DEF Tensor
<1>8. i # 0 /\ i \in 0..n
  BY <1>1
<1>9. QED
  BY <1>6, <1>7, <1>8

\* A character prints as a number of at most four digits after the point.
LEMMA PrintedType ==
    ASSUME NEW p \in Phrases
    PROVE  PrintedPhrase(p) \in Values /\ Len(PrintedPhrase(p)) = Len(p)
<1>1. p \in Seq(0..127)
  BY DEF Phrases
<1>2. Len(p) \in Nat /\ DOMAIN p = 1..Len(p) /\ \A c \in 1..Len(p) : p[c] \in 0..127
  <2> DEFINE Q == 0..127
  <2>1. p \in Seq(Q)
    BY <1>1
  <2> HIDE DEF Q
  <2>2. Len(p) \in Nat /\ DOMAIN p = 1..Len(p) /\ \A c \in 1..Len(p) : p[c] \in Q
    BY <2>1
  <2>3. QED
    BY <2>2 DEF Q
<1>3. \A c \in 0..127 : Printed(c) \in Tokens
  BY DEF Printed, Tokens
<1>4. PrintedPhrase(p) = [c \in 1..Len(p) |-> Printed(p[c])]
  BY <1>2 DEF PrintedPhrase
<1>5. \A c \in 1..Len(p) : Printed(p[c]) \in Tokens
  BY <1>2, <1>3
<1>6. QED
  BY <1>2, <1>4, <1>5 DEF Values

\* A chunk is saved as the phrase of its first row, once for each row.
LEMMA SavedIs ==
    ASSUME NEW chunk \in Seq(Logs), chunk # <<>>
    PROVE  /\ ~Overruns(chunk) /\ Width(chunk) = Len(chunk[1].phrase)
           /\ Lines(chunk) = [i \in 1..Len(chunk) |->
                  [status |-> Token(chunk[i].code), tokens |-> PrintedPhrase(chunk[1].phrase)]]
<1> DEFINE first == chunk[1].phrase
<1>1. 1 \in DOMAIN chunk /\ DOMAIN chunk = 1..Len(chunk)
  OBVIOUS
<1>2. first \in Phrases
  <2>1. chunk[1] \in Logs
    BY <1>1
  <2>2. QED
    BY <2>1 DEF Logs
<1>3. Tensor(chunk)[1] = first
  <2> DEFINE v == Tensor(chunk)[1]
             h == [j \in 1..1 |-> chunk[j].phrase]
  <2>1. v = FlattenSeq(h)
    BY <1>1 DEF Tensor
  <2>2. h \in Seq(Seq(0..127)) /\ Len(h) = 1 /\ h[1] = first
    BY <1>2 DEF Phrases
  <2>3. FlattenSeq(h) = h[1]
    <3> HIDE DEF h
    <3>1. QED
      BY <2>2, FlattenOne
  <2>4. QED
    BY <2>1, <2>2, <2>3
<1>4. Width(chunk) = Len(first)
  BY <1>3 DEF Width
<1>5. ~Overruns(chunk)
  <2>1. \A i \in DOMAIN chunk : Len(first) <= Len(Tensor(chunk)[i]) /\ Tensor(chunk)[i] \in Phrases
    BY TensorIs
  <2>2. Len(first) \in Nat /\ \A i \in DOMAIN chunk : Len(Tensor(chunk)[i]) \in Nat
    BY <1>2, <2>1 DEF Phrases
  <2>3. \A i \in DOMAIN chunk : ~(Len(Tensor(chunk)[i]) < Len(first))
    BY <2>1, <2>2
  <2>4. QED
    BY <1>4, <2>3 DEF Overruns
<1>6. ASSUME NEW i \in 1..Len(chunk)
      PROVE  Line(chunk, i) = [status |-> Token(chunk[i].code), tokens |-> PrintedPhrase(first)]
  <2> DEFINE v == Tensor(chunk)[i]
             w == Len(first)
  <2>1. v \in Phrases /\ w <= Len(v) /\ SubSeq(v, 1, w) = first
    BY <1>1, TensorIs
  <2>2. w \in 0..Len(v) /\ DOMAIN first = 1..w /\ v \in Seq(0..127)
    BY <1>2, <2>1 DEF Phrases
  <2>3. \A c \in 1..w : v[c] = first[c]
    <3> HIDE DEF v, w
    <3>1. \A c \in 1..w : SubSeq(v, 1, w)[c] = v[c]
      BY <2>2, FirstOf
    <3>2. QED
      BY <2>1, <3>1
  <2>4. [c \in 1..w |-> Printed(v[c])] = PrintedPhrase(first)
    <3> HIDE DEF v, w, first
    <3>1. QED
      BY <2>2, <2>3 DEF PrintedPhrase
  <2>5. QED
    BY <1>4, <2>4 DEF Line
<1>7. QED
  BY <1>1, <1>4, <1>5, <1>6 DEF Lines

LEMMA TokenType ==
    ASSUME NEW code \in 0..999
    PROVE  Token(code) \in Nat
<1> DEFINE P == Common \cup Fallback
<1>1. CASE \E p \in P : p[1] = code
  <2>1. (CHOOSE p \in P : p[1] = code) \in P
    BY <1>1
  <2>2. \A p \in P : p[2] \in Nat
    BY DEF Common, Fallback
  <2>3. Token(code) = (CHOOSE p \in P : p[1] = code)[2]
    BY <1>1 DEF Token
  <2> HIDE DEF P
  <2>4. QED
    BY <2>1, <2>2, <2>3
<1>2. CASE ~\E p \in P : p[1] = code
  <2>1. Token(code) = IF code \div 100 \in 1..5 THEN (code \div 100) * 256 + 255 ELSE 2559
    BY <1>2 DEF Token
  <2>2. code \div 100 \in 1..5 => (code \div 100) * 256 + 255 \in Nat
    OBVIOUS
  <2>3. QED
    BY <2>1, <2>2
<1>3. QED
  BY <1>1, <1>2

\* So what is saved is typed, of one code, and of one text.
LEMMA SavedFlat ==
    ASSUME NEW chunk \in Seq(Logs), chunk # <<>>, NEW code \in 0..999,
           \A i \in DOMAIN chunk : chunk[i].code = code
    PROVE  Lines(chunk) \in Seq(StashLine) /\ \A cut : Regular(Lines(chunk), cut)
<1>1. chunk[1].phrase \in Phrases
  <2>1. chunk[1] \in Logs
    OBVIOUS
  <2>2. QED
    BY <2>1 DEF Logs
<1>2. Token(code) \in Nat
  BY TokenType, ZenonT(30)
<1> DEFINE text == PrintedPhrase(chunk[1].phrase)
           one == [status |-> Token(code), tokens |-> text]
<1>3. Lines(chunk) = [i \in 1..Len(chunk) |-> one]
  BY SavedIs
<1>4. text \in Seq(Tokens)
  BY <1>1, PrintedType DEF Values
<1> HIDE DEF text
<1>5. one \in StashLine
  BY <1>2, <1>4 DEF StashLine
<1>6. Len(text) \in Nat /\ Len(chunk) \in Nat /\ Len(chunk) > 0
  BY <1>4
<1>7. Lines(chunk) \in Seq(StashLine)
  <2> HIDE DEF one
  <2>1. QED
    BY <1>3, <1>5
<1>8. OneCode(Lines(chunk)) /\ OneText(Lines(chunk))
  BY <1>3 DEF OneCode, OneText
<1>9. ~Ragged(Lines(chunk))
  BY <1>3, <1>6 DEF Ragged
<1>10. QED
  BY <1>7, <1>8, <1>9 DEF Regular

\* The numbers of the stash, and what is below one.
LEMMA TokensAre ==
    ASSUME NEW v \in Tokens
    PROVE  v \in Nat /\ 0..v \subseteq Tokens
<1>1. v \in Int /\ 0 <= v /\ v <= 10000
  BY DEF Tokens
<1>2. ASSUME NEW w \in 0..v PROVE w \in Tokens
  <2>1. w \in Int /\ 0 <= w /\ w <= v
    BY <1>1
  <2>2. w <= 10000
    BY <1>1, <2>1, SMTT(30)
  <2>3. QED
    BY <2>1, <2>2, SMTT(30) DEF Tokens
<1>3. QED
  BY <1>1, <1>2

LEMMA WholeMultiple ==
    ASSUME NEW x \in Nat, NEW d \in Nat \ {0}
    PROVE  d * (x \div d) \in 0..x
<1> DEFINE q == x \div d
           m == x % d
<1>1. q \in Int /\ m \in 0..(d - 1) /\ x = d * q + m
  OBVIOUS
<1> HIDE DEF q, m
<1>2. q >= 0
  <2>1. q <= -1 => d * q <= -d
    BY <1>1
  <2>2. QED
    BY <1>1, <2>1
<1>3. d * q >= 0 /\ d * q \in Int
  BY <1>1, <1>2
<1>4. d * q \in 0..x
  BY <1>1, <1>3
<1>5. QED
  BY <1>4 DEF q

\* A number cut short is a number still,
LEMMA ReadingType ==
    ASSUME NEW v \in Tokens
    PROVE  Readings(v) \subseteq Tokens
<1>1. v \in Nat /\ 0..v \subseteq Tokens
  BY TokensAre
<1>2. ASSUME NEW p \in Nat \ {0} PROVE p * (v \div p) \in Tokens
  BY <1>1, WholeMultiple
<1>3. \A p \in {1, 10, 100, 1000, 10000} : p \in Nat \ {0}
  OBVIOUS
<1>4. QED
  BY <1>2, <1>3 DEF Readings

\* a line cut short a line of the same code,
LEMMA CutLineIs ==
    ASSUME NEW line \in StashLine, NEW l \in CutLine(line)
    PROVE  l \in StashLine /\ l.status = line.status
<1>1. line.status \in Nat /\ line.tokens \in Seq(Tokens)
      /\ line = [status |-> line.status, tokens |-> line.tokens]
  BY DEF StashLine
<1>2. ASSUME NEW t \in Seq(Tokens), l = [line EXCEPT !.tokens = t]
      PROVE  l \in StashLine /\ l.status = line.status
  BY <1>1, <1>2 DEF StashLine
<1>3. CASE l = [line EXCEPT !.tokens = <<>>]
  <2>1. <<>> \in Seq(Tokens)
    OBVIOUS
  <2>2. QED
    BY <1>2, <1>3, <2>1
<1>4. CASE l # [line EXCEPT !.tokens = <<>>]
  <2>1. PICK m \in DOMAIN line.tokens :
            \E v \in Readings(line.tokens[m]) :
                l = [line EXCEPT !.tokens = Append(SubSeq(@, 1, m - 1), v)]
    BY <1>4 DEF CutLine
  <2>2. PICK v \in Readings(line.tokens[m]) :
            l = [line EXCEPT !.tokens = Append(SubSeq(@, 1, m - 1), v)]
    BY <2>1
  <2> DEFINE s == line.tokens
  <2>3. s \in Seq(Tokens) /\ m \in DOMAIN s
    BY <1>1
  <2>4. l = [line EXCEPT !.tokens = Append(SubSeq(s, 1, m - 1), v)]
    BY <2>2
  <2>5. s[m] \in Tokens /\ m - 1 \in 0..Len(s)
    <3> HIDE DEF s
    <3>1. QED
      BY <2>3
  <2>6. v \in Tokens
    BY <2>5, ReadingType
  <2>7. SubSeq(s, 1, m - 1) \in Seq(Tokens)
    <3> HIDE DEF s
    <3>1. QED
      BY <2>3, <2>5, FirstOf
  <2>8. Append(SubSeq(s, 1, m - 1), v) \in Seq(Tokens)
    BY <2>6, <2>7
  <2>9. QED
    BY <1>2, <2>4, <2>8
<1>5. QED
  BY <1>3, <1>4

\* and a stash cut short a stash of one code, whatever its numbers.
LEMMA CutIs ==
    ASSUME NEW lines \in Seq(StashLine), OneCode(lines), NEW cut \in Cut(lines)
    PROVE  cut \in Seq(StashLine) /\ OneCode(cut)
<1>1. CASE cut = <<>>
  BY <1>1 DEF OneCode
<1>2. CASE cut # <<>>
  <2>1. PICK n \in DOMAIN lines : \E l \in CutLine(lines[n]) :
            cut = Append(SubSeq(lines, 1, n - 1), l)
    BY <1>2 DEF Cut
  <2>2. PICK l \in CutLine(lines[n]) : cut = Append(SubSeq(lines, 1, n - 1), l)
    BY <2>1
  <2>3. n \in 1..Len(lines) /\ lines[n] \in StashLine /\ n - 1 \in 0..Len(lines)
    BY <2>1
  <2>4. l \in StashLine /\ l.status = lines[n].status
    BY <2>2, <2>3, CutLineIs
  <2> DEFINE part == SubSeq(lines, 1, n - 1)
  <2>5. /\ part \in Seq(StashLine) /\ Len(part) = n - 1
        /\ \A k \in 1..(n - 1) : part[k] = lines[k]
    BY <2>3, FirstOf
  <2> HIDE DEF part
  <2>6. cut = Append(part, l)
    BY <2>2 DEF part
  <2>7. /\ cut \in Seq(StashLine) /\ DOMAIN cut = 1..n /\ cut[n] = l
        /\ \A k \in 1..(n - 1) : cut[k] = part[k]
    BY <2>3, <2>4, <2>5, <2>6
  <2>8. ASSUME NEW k \in 1..n PROVE cut[k].status = lines[n].status
    <3>1. CASE k = n
      BY <2>4, <2>7, <3>1
    <3>2. CASE k # n
      <4>1. k \in 1..(n - 1) /\ k \in DOMAIN lines
        BY <2>3, <3>2
      <4>2. cut[k] = lines[k]
        BY <2>5, <2>7, <4>1
      <4>3. QED
        BY <4>1, <4>2 DEF OneCode
    <3>3. QED
      BY <3>1, <3>2
  <2>9. QED
    BY <2>7, <2>8 DEF OneCode
<1>3. QED
  BY <1>1, <1>2

(***************************************************************************)
(* What the statistics come to on a flat sample.                           *)
(***************************************************************************)

\* The total of equal numbers,
LEMMA TotalFlat ==
    ASSUME NEW s \in Seq(Int), NEW c \in Int, \A i \in DOMAIN s : s[i] = c
    PROVE  Total(s) = Len(s) * c
<1> DEFINE n == Len(s)
<1>1. n \in Nat /\ DOMAIN s = 1..n
  OBVIOUS
<1>2. PICK t \in [0..n -> Int] :
          t[0] = 0 /\ t[n] = Total(s) /\ \A k \in 1..n : t[k] = t[k - 1] + s[k]
  BY TotalSteps
<1> DEFINE S == {k \in 0..n : t[k] = k * c}
<1>3. 0 \in S
  BY <1>1, <1>2
<1>4. ASSUME NEW k \in 1..n, k - 1 \in S PROVE k \in S
  <2>1. k \in Int /\ k \in 0..n /\ t[k - 1] = (k - 1) * c /\ s[k] = c
    BY <1>1, <1>4
  <2>2. t[k] = (k - 1) * c + c
    BY <1>2, <2>1
  <2>3. (k - 1) * c + c = k * c
    BY <2>1
  <2>4. QED
    BY <2>1, <2>2, <2>3
<1>5. n \in S
  <2> HIDE DEF S, n
  <2>1. 0..n \subseteq S
    BY <1>1, <1>3, <1>4, Upto
  <2>2. QED
    BY <1>1, <2>1
<1>6. QED
  BY <1>2, <1>5

\* and their spread: none.
LEMMA SpreadFlat ==
    ASSUME NEW s \in Seq(Int), NEW c \in Int, \A i \in DOMAIN s : s[i] = c
    PROVE  Spread(s) = 0
<1> DEFINE n == Len(s)
           q == Squares(s)
<1>1. n \in Int /\ c * c \in Int
  OBVIOUS
<1>2. q \in Seq(Int) /\ Len(q) = n /\ \A i \in DOMAIN q : q[i] = c * c
  BY DEF Squares
<1>3. Total(s) = n * c
  BY TotalFlat
<1>4. Total(q) = n * (c * c)
  <2> HIDE DEF q
  <2>1. Total(q) = Len(q) * (c * c)
    BY <1>1, <1>2, TotalFlat
  <2>2. QED
    BY <1>2, <2>1
<1>5. n * (n * (c * c)) - (n * c) * (n * c) = 0
  BY <1>1
<1>6. QED
  BY <1>3, <1>4, <1>5 DEF Spread

\* So no mean lies beyond it,
LEMMA NeverBeyond ==
    ASSUME NEW s \in Seq(Int), NEW c \in Int, \A i \in DOMAIN s : s[i] = c,
           NEW live, NEW k
    PROVE  ~Beyond(live, s, k)
BY SpreadFlat DEF Beyond

\* and the number itself is not above it.
LEMMA NeverAbove ==
    ASSUME NEW s \in Seq(Int), s # <<>>, NEW c \in Int, \A i \in DOMAIN s : s[i] = c,
           NEW k
    PROVE  ~Above(c, s, k)
<1>1. Len(s) * c - Total(s) = 0
  <2>1. Total(s) = Len(s) * c /\ Len(s) * c \in Int
    BY TotalFlat
  <2>2. QED
    BY <2>1
<1>2. QED
  BY <1>1 DEF Above

\* A column of flat lines is of one character, and is there if one line has it.
LEMMA ColumnFlat ==
    ASSUME NEW lines \in Seq(StashLine), OneText(lines),
           NEW i \in DOMAIN lines, NEW c \in DOMAIN lines[i].tokens
    PROVE  /\ Column(lines, c) \in Values /\ Column(lines, c) # <<>>
           /\ \A j \in DOMAIN Column(lines, c) : Column(lines, c)[j] = lines[i].tokens[c]
<1> DEFINE n == Len(lines)
           v == lines[i].tokens[c]
<1>1. n \in Nat /\ DOMAIN lines = 1..n /\ i \in 1..n
  OBVIOUS
<1>2. ASSUME NEW k \in 1..n
      PROVE  /\ lines[k].tokens \in Seq(Tokens) /\ Len(lines[k].tokens) \in Nat
             /\ DOMAIN lines[k].tokens = 1..Len(lines[k].tokens)
  <2>1. lines[k] \in StashLine
    BY <1>1
  <2>2. lines[k].tokens \in Seq(Tokens)
    BY <2>1 DEF StashLine
  <2>3. QED
    BY <2>2
<1>3. c \in Nat \ {0} /\ v \in Tokens
  <2>1. lines[i].tokens \in Seq(Tokens)
    BY <1>1, <1>2
  <2>2. QED
    BY <2>1
<1>4. PICK t \in [0..n -> Values] :
          /\ t[0] = <<>> /\ t[n] = Column(lines, c)
          /\ \A k \in 1..n : t[k] = IF c <= Len(lines[k].tokens)
                                    THEN Append(t[k - 1], lines[k].tokens[c]) ELSE t[k - 1]
  BY <1>3, ColumnSteps
<1> DEFINE Of1(s) == \A j \in DOMAIN s : s[j] = v
           S == {k \in 0..n : Of1(t[k]) /\ (i <= k => t[k] # <<>>)}
<1>5. 0 \in S
  BY <1>1, <1>4
<1>6. ASSUME NEW k \in 1..n, k - 1 \in S PROVE k \in S
  <2>0. k \in 0..n /\ k - 1 \in 0..n
    BY <1>1
  <2>1. k \in 0..n /\ k - 1 \in 0..n /\ t[k - 1] \in Seq(Tokens)
    BY <2>0 DEF Values
  <2>2. Of1(t[k - 1]) /\ (i <= k - 1 => t[k - 1] # <<>>)
    BY <1>6
  <2>3. CASE c <= Len(lines[k].tokens)
    <3>1. c \in DOMAIN lines[k].tokens
      BY <1>2, <1>3, <2>3
    <3>2. lines[k].tokens[c] = v
      BY <1>1, <3>1 DEF OneText
    <3>3. t[k] = Append(t[k - 1], v)
      BY <1>4, <2>3, <3>2
    <3> HIDE DEF v
    <3>4. Of1(t[k]) /\ t[k] # <<>>
      BY <1>3, <2>1, <2>2, <3>3, SMTT(30)
    <3>5. QED
      BY <2>1, <3>4
  <2>4. CASE ~(c <= Len(lines[k].tokens))
    <3>1. t[k] = t[k - 1]
      BY <1>4, <2>4
    <3>2. i # k
      BY <1>1, <1>2, <2>4
    <3>3. i <= k => i <= k - 1
      BY <1>1, <3>2
    <3>4. QED
      BY <2>1, <2>2, <3>1, <3>3
  <2>5. QED
    BY <2>3, <2>4
<1>7. n \in S
  <2> HIDE DEF S, n
  <2>1. 0..n \subseteq S
    BY <1>1, <1>5, <1>6, Upto
  <2>2. QED
    BY <1>1, <2>1
<1>8. n \in 0..n /\ i <= n
  BY <1>1
<1>9. QED
  BY <1>4, <1>7, <1>8

\* The rows of a code are rows of it.
LEMMA MatchesAre ==
    ASSUME NEW code, db \in Seq(Logs)
    PROVE  /\ Matches(code) \in Seq(Logs)
           /\ \A i \in DOMAIN Matches(code) : Matches(code)[i].code = code
<1> DEFINE n == Len(db)
<1>1. n \in Nat /\ DOMAIN db = 1..n
  OBVIOUS
<1>2. PICK t \in [0..n -> Seq(Logs)] :
          /\ t[0] = <<>> /\ t[n] = Matches(code)
          /\ \A k \in 1..n : t[k] = IF db[k].code = code
                                    THEN Append(t[k - 1], db[k]) ELSE t[k - 1]
  <2>1. PICK t : Selects(t, code)
    BY MatchesSteps
  <2>2. QED
    BY <2>1 DEF Selects
<1> DEFINE Its(s) == \A j \in DOMAIN s : s[j].code = code
           S == {k \in 0..n : Its(t[k])}
<1>3. 0 \in S
  BY <1>1, <1>2
<1>4. ASSUME NEW k \in 1..n, k - 1 \in S PROVE k \in S
  <2>1. k \in 0..n /\ k - 1 \in 0..n /\ t[k - 1] \in Seq(Logs) /\ db[k] \in Logs
    BY <1>1, SMTT(30)
  <2>2. Its(t[k - 1])
    BY <1>4
  <2>3. CASE db[k].code = code
    <3>1. t[k] = Append(t[k - 1], db[k])
      BY <1>2, <2>3
    <3>2. Its(t[k])
      BY <2>1, <2>2, <2>3, <3>1
    <3>3. QED
      BY <2>1, <3>2
  <2>4. CASE db[k].code # code
    <3>1. t[k] = t[k - 1]
      BY <1>2, <2>4
    <3>2. QED
      BY <2>1, <2>2, <3>1
  <2>5. QED
    BY <2>3, <2>4
<1>5. n \in S
  <2> HIDE DEF S, n
  <2>1. 0..n \subseteq S
    BY <1>1, <1>3, <1>4, Upto
  <2>2. QED
    BY <1>1, <2>1
<1>6. n \in 0..n
  BY <1>1
<1>7. QED
  BY <1>2, <1>5, <1>6

(***************************************************************************)
(* The state a command reads.                                              *)
(***************************************************************************)

\* The items of a sequence from a + 1 to b.
LEMMA PartOf ==
    ASSUME NEW A, NEW s \in Seq(A), NEW a \in Nat, NEW b \in a..Len(s)
    PROVE  /\ SubSeq(s, a + 1, b) \in Seq(A) /\ Len(SubSeq(s, a + 1, b)) = b - a
           /\ \A k \in 1..(b - a) : SubSeq(s, a + 1, b)[k] = s[a + k]
<1>1. \A i \in a + 1 .. b : i \in 1..Len(s)
  OBVIOUS
<1>2. SubSeq(s, a + 1, b) \in Seq(A) /\ Len(SubSeq(s, a + 1, b)) = b - a
  BY <1>1
<1>3. ASSUME NEW k \in 1..(b - a) PROVE SubSeq(s, a + 1, b)[k] = s[a + k]
  <2>1. SubSeq(s, a + 1, b)[k] = s[(a + 1) + k - 1]
    BY <1>1, <1>2
  <2>2. (a + 1) + k - 1 = a + k
    OBVIOUS
  <2>3. QED
    BY <2>1, <2>2
<1>4. QED
  BY <1>2, <1>3

\* One more of them.
LEMMA PartGrows ==
    ASSUME NEW A, NEW s \in Seq(A), NEW a \in Nat, NEW b \in a..(Len(s) - 1)
    PROVE  SubSeq(s, a + 1, b + 1) = Append(SubSeq(s, a + 1, b), s[b + 1])
<1> DEFINE p == SubSeq(s, a + 1, b)
           q == SubSeq(s, a + 1, b + 1)
<1>1. b \in a..Len(s) /\ b + 1 \in a..Len(s) /\ b + 1 \in 1..Len(s)
  OBVIOUS
<1>2. /\ p \in Seq(A) /\ Len(p) = b - a
      /\ \A k \in 1..(b - a) : p[k] = s[a + k]
  BY <1>1, PartOf
<1>3. /\ q \in Seq(A) /\ Len(q) = (b + 1) - a
      /\ \A k \in 1..((b + 1) - a) : q[k] = s[a + k]
  BY <1>1, PartOf
<1>4. s[b + 1] \in A
  BY <1>1
<1> DEFINE r == Append(p, s[b + 1])
<1>5. r \in Seq(A) /\ Len(r) = (b + 1) - a
  <2> HIDE DEF p
  <2>1. QED
    BY <1>1, <1>2, <1>4
<1>6. ASSUME NEW k \in 1..((b + 1) - a) PROVE q[k] = r[k]
  <2>1. CASE k \in 1..(b - a)
    <3>1. r[k] = p[k]
      <4> HIDE DEF p
      <4>1. QED
        BY <1>2, <1>4, <2>1
    <3>2. QED
      BY <1>2, <1>3, <2>1, <3>1
  <2>2. CASE k = (b - a) + 1
    <3>1. r[k] = s[b + 1]
      <4> HIDE DEF p
      <4>1. QED
        BY <1>2, <1>4, <2>2
    <3>2. a + k = b + 1
      BY <1>1, <2>2
    <3>3. QED
      BY <1>3, <3>1, <3>2
  <2>3. QED
    BY <1>1, <2>1, <2>2
<1>7. QED
  <2> HIDE DEF r, q
  <2>1. q = r
    BY <1>3, <1>5, <1>6, SeqEqual
  <2>2. QED
    BY <2>1 DEF q, r

\* Quotients and remainders.
LEMMA DivMod ==
    ASSUME NEW x \in Int, NEW d \in Nat \ {0}
    PROVE  /\ x \div d \in Int /\ x % d \in 0..(d - 1)
           /\ x = d * (x \div d) + (x % d)
OBVIOUS

LEMMA DivBelow ==
    ASSUME NEW x \in Nat, NEW d \in Nat, NEW r \in Nat, x < r * d
    PROVE  d # 0 /\ x \div d \in 0..(r - 1) /\ x % d \in 0..(d - 1)
<1>1. d \in Nat \ {0}
  <2>1. d = 0 => r * d = 0
    OBVIOUS
  <2>2. QED
    BY <2>1
<1> DEFINE q == x \div d
           m == x % d
<1>2. q \in Int /\ m \in 0..(d - 1) /\ x = d * q + m
  BY <1>1, DivMod
<1>3. q >= 0
  <2>1. ASSUME q <= -1 PROVE FALSE
    <3>1. d * q <= d * (-1)
      <4> HIDE DEF q
      <4>1. QED
        BY <1>1, <1>2, <2>1
    <3>2. d * (-1) = -d
      BY <1>1
    <3>3. QED
      <4> HIDE DEF q, m
      <4>1. d * q \in Int
        BY <1>2
      <4>2. QED
        BY <1>1, <1>2, <3>1, <3>2, <4>1
  <2>2. QED
    BY <1>2, <2>1
<1>4. q < r
  <2>1. ASSUME q >= r PROVE FALSE
    <3> HIDE DEF q, m
    <3>1. d * q >= d * r
      BY <1>1, <1>2, <2>1
    <3>2. d * r = r * d /\ d * q \in Int /\ d * r \in Int
      BY <1>1, <1>2
    <3>3. QED
      BY <1>1, <1>2, <3>1, <3>2
  <2>2. QED
    BY <1>2, <2>1
<1>5. QED
  BY <1>1, <1>2, <1>3, <1>4

\* The remainder of what lies less than d beyond a multiple of d.
LEMMA ModAfter ==
    ASSUME NEW x \in Nat, NEW d \in Nat \ {0}, x % d = 0, NEW m \in 0..(d - 1)
    PROVE  (x + m) % d = m
<1> DEFINE q == x \div d
           p == (x + m) \div d
           w == (x + m) % d
<1>1. q \in Int /\ x = d * q
  BY DivMod
<1>2. p \in Int /\ w \in 0..(d - 1) /\ x + m = d * p + w
  <2> DEFINE y == x + m
  <2>1. y \in Int
    OBVIOUS
  <2>2. /\ y \div d \in Int /\ y % d \in 0..(d - 1)
        /\ y = d * (y \div d) + (y % d)
    <3> HIDE DEF y
    <3>1. QED
      BY <2>1, DivMod
  <2>3. QED
    BY <2>2
<1> HIDE DEF q, p, w
<1>3. d * q \in Int /\ d * p \in Int /\ d * (p - q) = w - m
  <2>1. d * (p - q) = d * p - d * q
    BY <1>1, <1>2
  <2>2. d * q \in Int /\ d * p \in Int
    BY <1>1, <1>2
  <2>3. QED
    BY <1>1, <1>2, <2>1, <2>2
<1>4. ~(p - q >= 1)
  <2>1. ASSUME p - q >= 1 PROVE FALSE
    <3>1. d * (p - q) >= d * 1
      BY <1>1, <1>2, <2>1
    <3>2. QED
      BY <1>2, <1>3, <3>1
  <2>2. QED
    BY <2>1
<1>5. ~(p - q <= -1)
  <2>1. ASSUME p - q <= -1 PROVE FALSE
    <3>1. d * (p - q) <= d * (-1)
      BY <1>1, <1>2, <2>1
    <3>2. d * (-1) = -d
      OBVIOUS
    <3>3. QED
      BY <1>2, <1>3, <3>1, <3>2
  <2>2. QED
    BY <2>1
<1>6. p = q
  BY <1>1, <1>2, <1>4, <1>5
<1>7. w = m
  BY <1>1, <1>2, <1>3, <1>6
<1>8. QED
  BY <1>7 DEF w

LEMMA ModNext ==
    ASSUME NEW x \in Nat, NEW d \in Nat \ {0}, x % d = 0
    PROVE  (x + d) % d = 0
<1> DEFINE q == x \div d
           p == (x + d) \div d
           w == (x + d) % d
<1>1. q \in Int /\ x = d * q
  BY DivMod
<1>2. p \in Int /\ w \in 0..(d - 1) /\ x + d = d * p + w
  <2> DEFINE y == x + d
  <2>1. y \in Int
    OBVIOUS
  <2>2. /\ y \div d \in Int /\ y % d \in 0..(d - 1)
        /\ y = d * (y \div d) + (y % d)
    <3> HIDE DEF y
    <3>1. QED
      BY <2>1, DivMod
  <2>3. QED
    BY <2>2
<1> HIDE DEF q, p, w
<1> DEFINE e == p - q - 1
<1>3. e \in Int /\ d * e = -w
  <2>1. d * e = d * p - d * q - d
    BY <1>1, <1>2
  <2>2. d * q \in Int /\ d * p \in Int
    BY <1>1, <1>2
  <2>3. QED
    BY <1>1, <1>2, <2>1, <2>2
<1> HIDE DEF e
<1>4. ~(e <= -1)
  <2>1. ASSUME e <= -1 PROVE FALSE
    <3>1. d * e <= d * (-1)
      BY <1>3, <2>1
    <3>2. d * (-1) = -d
      OBVIOUS
    <3>3. QED
      BY <1>2, <1>3, <3>1, <3>2
  <2>2. QED
    BY <2>1
<1>5. ~(e >= 1)
  <2>1. ASSUME e >= 1 PROVE FALSE
    <3>1. d * e >= d * 1
      BY <1>3, <2>1
    <3>2. QED
      BY <1>2, <1>3, <3>1
  <2>2. QED
    BY <2>1
<1>6. e = 0
  BY <1>3, <1>4, <1>5
<1>7. w = 0
  BY <1>2, <1>3, <1>6
<1>8. QED
  BY <1>7 DEF w

\* What a file stands for is log entries.
LEMMA EntriesType ==
    ASSUME NEW rows \in Seq(Answers)
    PROVE  Entries(rows) \in Seq(Logs) /\ Len(Entries(rows)) = Len(rows) * Len(Words)
<1> DEFINE d == Len(Words)
           r == Len(rows)
<1>1. Words \in Seq(STRING) /\ d \in Nat /\ r \in Nat
  BY PipelineAssumption
<1>2. r * d \in Nat
  BY <1>1
<1> DEFINE entry(n) == [code |-> rows[((n - 1) \div d) + 1].code,
                        phrase |-> rows[((n - 1) \div d) + 1].phrase,
                        word |-> Words[((n - 1) % d) + 1]]
<1>3. ASSUME NEW n \in 1..(r * d) PROVE entry(n) \in Logs
  <2> DEFINE x == n - 1
  <2>1. x \in Nat /\ x < r * d
    BY <1>2
  <2>2. x \div d \in 0..(r - 1) /\ x % d \in 0..(d - 1)
    <3> HIDE DEF x, d, r
    <3>1. QED
      BY <1>1, <2>1, DivBelow
  <2>3. (x \div d) + 1 \in 1..r /\ (x % d) + 1 \in 1..d
    <3> HIDE DEF x, d, r
    <3>1. QED
      BY <1>1, <2>2
  <2>4. rows[(x \div d) + 1] \in Answers /\ Words[(x % d) + 1] \in STRING
    BY <1>1, <2>3
  <2> DEFINE row == rows[(x \div d) + 1]
             named == Words[(x % d) + 1]
  <2>5. [code |-> row.code, phrase |-> row.phrase, word |-> named] \in Logs
    <3> HIDE DEF row, named
    <3>1. row \in Answers /\ named \in STRING
      BY <2>4 DEF row, named
    <3>2. QED
      BY <3>1 DEF Answers, Logs
  <2>6. QED
    BY <2>5
<1>4. Entries(rows) = [n \in 1..(r * d) |-> entry(n)]
  BY DEF Entries
<1>5. QED
  <2> HIDE DEF entry, r, d
  <2>1. Entries(rows) \in Seq(Logs) /\ Len(Entries(rows)) = r * d
    BY <1>2, <1>3, <1>4
  <2>2. QED
    BY <2>1 DEF r, d

\* A command that leaves the table alone finds the same rows in it.
LEMMA MatchesSame ==
    ASSUME UNCHANGED db, NEW code
    PROVE  Matches(code)' = Matches(code)
BY DEF Matches, FoldLeft, MapThenFoldSet

LEMMA SavesAre == Saves = <<1, 2, 3, 4>> /\ Len(Saves) = 4 /\ \A k \in 0..3 : Saves[k + 1] = k + 1
BY DEF Saves

\* A chunk that is being filled holds rows of the code asked for.
LEMMA ChunkRows ==
    ASSUME TypeOK, op = "compile", Compiling
    PROVE  /\ Saved \in Nat /\ Len(buf) = cur - Saved /\ Matches(arg) \in Seq(Logs)
           /\ \A i \in DOMAIN buf : /\ i \in 1..(cur - Saved) /\ buf[i] = Matches(arg)[Saved + i]
                                    /\ buf[i].code = arg
<1> DEFINE m == Matches(arg)
<1>1. buf \in Seq(Logs) /\ cur \in Nat /\ db \in Seq(Logs)
  BY DEF TypeOK, DiskOK, MemoryOK
<1>2. m \in Seq(Logs) /\ \A i \in DOMAIN m : m[i].code = arg
  BY <1>1, MatchesAre
<1>3. /\ Len(buf) \in Nat /\ Len(buf) <= cur /\ cur <= Len(m)
      /\ buf = SubSeq(m, Saved + 1, cur) /\ Saved = cur - Len(buf)
  BY <1>1 DEF Compiling, Saved
<1>4. Saved \in Nat /\ cur \in Saved..Len(m) /\ Len(buf) = cur - Saved
  BY <1>1, <1>2, <1>3
<1>5. \A k \in 1..(cur - Saved) : buf[k] = m[Saved + k]
  <2> HIDE DEF m
  <2>1. QED
    BY <1>2, <1>3, <1>4, PartOf
<1>6. ASSUME NEW i \in DOMAIN buf
      PROVE  i \in 1..(cur - Saved) /\ buf[i] = m[Saved + i] /\ buf[i].code = arg
  <2>1. i \in 1..(cur - Saved)
    BY <1>1, <1>4, <1>6
  <2>2. Saved + i \in DOMAIN m
    BY <1>1, <1>2, <1>4, <2>1
  <2>3. QED
    BY <1>2, <1>5, <2>1, <2>2
<1>7. QED
  BY <1>2, <1>4, <1>6

(***************************************************************************)
(* The invariant holds at first, and each command keeps it.                *)
(***************************************************************************)

LEMMA InitInv == Init => Inv
<1> SUFFICES ASSUME Init PROVE Inv
  OBVIOUS
<1> USE DEF Init
<1>1. TypeOK
  <2>1. DiskOK
    <3>1. model \in [1..4 -> Summary \cup {Absent, Torn}]
      OBVIOUS
    <3>2. files \in Seq([rows : Seq(Answers), whole : BOOLEAN])
      OBVIOUS
    <3>3. db \in Seq(Logs)
      OBVIOUS
    <3>4. QED
      BY <3>1, <3>2, <3>3 DEF DiskOK
  <2>2. MemoryOK /\ CountsOK
    BY DEF MemoryOK, CountsOK
  <2>3. QED
    BY <2>1, <2>2 DEF TypeOK
<1>2. Transferred /\ Compiled /\ InTraining
  BY DEF Transferred, Compiled, InTraining
<1>3. Stashed
  BY DEF Stashed, Regular, OneCode, OneText, Ragged, Sample
<1>4. \A f \in 1..4 : model[f] = Absent
  OBVIOUS
<1>5. Summaries /\ Ordered
  BY <1>4 DEF Summaries, Ordered, Of, Written
<1>6. Reporting /\ BaselineIsFlat
  BY DEF Reporting, BaselineIsFlat
<1>7. QED
  BY <1>1, <1>2, <1>3, <1>5, <1>6 DEF Inv

\* The commands that start, and the ways in which one ends.
LEMMA Ends ==
    ASSUME Done, TypeOK
    PROVE  MemoryOK' /\ Compiled' /\ InTraining'
<1>1. op' = "idle" /\ arg' = 0 /\ cur' = 0
  BY DEF Done
<1>2. QED
  BY <1>1 DEF MemoryOK, Compiled, InTraining

LEMMA FileType ==
    ASSUME DiskOK, files # <<>>
    PROVE  files[1].rows \in Seq(Answers) /\ files[1].whole \in BOOLEAN
<1> DEFINE R == [rows : Seq(Answers), whole : BOOLEAN]
<1>1. files \in Seq(R)
  BY DEF DiskOK
<1>2. files[1] \in R
  <2> HIDE DEF R
  <2>1. QED
    BY <1>1
<1>3. QED
  BY <1>2

LEMMA SampleType ==
    ASSUME TypeOK
    PROVE  Sample \in Seq(StashLine)
BY DEF Sample, TypeOK, DiskOK

LEMMA TrainedType ==
    ASSUME TypeOK, op = "train"
    PROVE  Trained \in Summary /\ Trained \notin {Absent, Torn}
<1>1. trainings \in Nat /\ buf \in Seq(StashLine) /\ arg \in Nat /\ stashCut \in BOOLEAN
  BY DEF TypeOK, MemoryOK, CountsOK
<1>2. Trained \in Summary
  BY <1>1 DEF Trained, Summary
<1>3. QED
  BY <1>2, PipelineAssumption

LEMMA TypeStep ==
    ASSUME Inv, [Next]_vars
    PROVE  TypeOK'
<1>0. TypeOK /\ DiskOK /\ MemoryOK /\ CountsOK
  BY DEF Inv, TypeOK
<1>1. CASE StartScan
  <2>1. op' = "scan" /\ arg' = 0 /\ cur' = 0 /\ buf' = <<>>
    BY <1>1 DEF StartScan, Start
  <2>2. MemoryOK'
    BY <2>1 DEF MemoryOK
  <2>3. DiskOK' /\ CountsOK'
    BY <1>0, <1>1 DEF StartScan, DiskOK, CountsOK, disk
  <2>4. QED
    BY <2>2, <2>3 DEF TypeOK
<1>2. CASE Probe
  <2>1. PICK r \in Rows : buf' = Append(buf, r)
    BY <1>2 DEF Probe
  <2>2. r \in Answers
    BY PipelineAssumption DEF Answers, Phrases
  <2>3. op = "scan" /\ op' = op /\ arg' = arg /\ cur' = cur + 1
    BY <1>2 DEF Probe
  <2>4. MemoryOK'
    BY <1>0, <2>1, <2>2, <2>3 DEF MemoryOK
  <2>5. DiskOK' /\ CountsOK'
    BY <1>0, <1>2 DEF Probe, DiskOK, CountsOK, disk
  <2>6. QED
    BY <2>4, <2>5 DEF TypeOK
<1>3. CASE WriteJson
  <2>1. [rows |-> buf, whole |-> TRUE] \in [rows : Seq(Answers), whole : BOOLEAN]
    BY <1>0, <1>3 DEF WriteJson, MemoryOK
  <2>2. DiskOK' /\ CountsOK'
    BY <1>0, <1>3, <2>1 DEF WriteJson, DiskOK, CountsOK
  <2>3. MemoryOK'
    BY <1>0, <1>3, Ends DEF WriteJson
  <2>4. QED
    BY <2>2, <2>3 DEF TypeOK
<1>4. CASE StartTransfer
  <2>1. op' = "transfer" /\ arg' = 0 /\ cur' = 0 /\ buf' = <<>>
    BY <1>4 DEF StartTransfer, Start
  <2>2. MemoryOK'
    BY <2>1 DEF MemoryOK
  <2>3. DiskOK' /\ CountsOK'
    BY <1>0, <1>4 DEF StartTransfer, DiskOK, CountsOK
  <2>4. QED
    BY <2>2, <2>3 DEF TypeOK
<1>5. CASE TransferNothing \/ TransferFails \/ EndCompile \/ EndTrain
  <2>1. DiskOK' /\ CountsOK' /\ Done
    BY <1>0, <1>5 DEF TransferNothing, TransferFails, EndCompile, EndTrain, DiskOK, CountsOK, disk
  <2>2. QED
    BY <1>0, <2>1, Ends DEF TypeOK
<1>6. CASE InsertRow
  <2> DEFINE e == Entries(Source.rows)
  <2>1. files # <<>> /\ cur < Len(e) /\ buf' = Append(buf, e[cur + 1])
        /\ op = "transfer" /\ op' = op /\ arg' = arg /\ cur' = cur + 1
    BY <1>6 DEF InsertRow
  <2>2. Source.rows \in Seq(Answers)
    BY <1>0, <2>1, FileType DEF Source
  <2>3. e \in Seq(Logs)
    BY <2>2, EntriesType
  <2>4. e[cur + 1] \in Logs
    <3> HIDE DEF e
    <3>1. QED
      BY <1>0, <2>1, <2>3 DEF MemoryOK
  <2>5. MemoryOK'
    <3> HIDE DEF e
    <3>1. QED
      BY <1>0, <2>1, <2>4 DEF MemoryOK
  <2>6. DiskOK' /\ CountsOK'
    BY <1>0, <1>6 DEF InsertRow, DiskOK, CountsOK, disk
  <2>7. QED
    BY <2>5, <2>6 DEF TypeOK
<1>7. CASE Commit
  <2>1. buf \in Seq(Logs)
    BY <1>0, <1>7 DEF Commit, MemoryOK
  <2>2. DiskOK' /\ CountsOK'
    BY <1>0, <1>7, <2>1 DEF Commit, DiskOK, CountsOK
  <2>3. QED
    BY <1>0, <1>7, <2>2, Ends DEF Commit, TypeOK
<1>8. ASSUME NEW c \in Codes, StartCompile(c) PROVE TypeOK'
  <2>1. op' = "compile" /\ arg' = c /\ cur' = 0 /\ buf' = <<>>
    BY <1>8 DEF StartCompile, Start
  <2>2. c \in 0..999
    <3>1. PICK r \in Rows : c = r.code
      BY DEF Codes
    <3>2. r \in [code : 0..999, phrase : Seq(0..127)]
      BY PipelineAssumption
    <3>3. QED
      BY <3>1, <3>2
  <2>3. MemoryOK'
    BY <2>1, <2>2 DEF MemoryOK
  <2>4. DiskOK' /\ CountsOK'
    BY <1>0, <1>8 DEF StartCompile, DiskOK, CountsOK, disk
  <2>5. QED
    BY <2>3, <2>4 DEF TypeOK
<1>9. CASE ReadRow
  <2> DEFINE m == Matches(arg)
  <2>1. cur < Len(m) /\ buf' = Append(buf, m[cur + 1])
        /\ op = "compile" /\ op' = op /\ arg' = arg /\ cur' = cur + 1
    BY <1>9 DEF ReadRow
  <2>2. m \in Seq(Logs)
    BY <1>0, MatchesAre DEF DiskOK
  <2>3. m[cur + 1] \in Logs
    <3> HIDE DEF m
    <3>1. QED
      BY <1>0, <2>1, <2>2 DEF MemoryOK
  <2>4. MemoryOK'
    <3> HIDE DEF m
    <3>1. QED
      BY <1>0, <2>1, <2>3 DEF MemoryOK
  <2>5. DiskOK' /\ CountsOK'
    BY <1>0, <1>9 DEF ReadRow, DiskOK, CountsOK, disk
  <2>6. QED
    BY <2>4, <2>5 DEF TypeOK
<1>10. ASSUME ChunkReady
       PROVE  /\ buf \in Seq(Logs) /\ buf # <<>> /\ arg \in 0..999
              /\ \A i \in DOMAIN buf : buf[i].code = arg
  <2>1. op = "compile" /\ buf # <<>>
    BY <1>10 DEF ChunkReady
  <2>2. Compiling
    BY <2>1 DEF Inv, Compiled
  <2>3. QED
    BY <1>0, <2>1, <2>2, ChunkRows DEF MemoryOK
<1>11. CASE SaveChunk
  <2>1. ChunkReady
    BY <1>11 DEF SaveChunk
  <2>2. Lines(buf) \in Seq(StashLine) /\ ~Overruns(buf)
    <3>1. /\ buf \in Seq(Logs) /\ buf # <<>> /\ arg \in 0..999
          /\ \A i \in DOMAIN buf : buf[i].code = arg
      BY <1>10, <2>1
    <3>2. Lines(buf) \in Seq(StashLine)
      BY <3>1, SavedFlat, ZenonT(60)
    <3>3. ~Overruns(buf)
      BY <3>1, SavedIs
    <3>4. QED
      BY <3>2, <3>3
  <2>3. stash' = Lines(buf) /\ fault' = fault
    BY <1>11, <2>2 DEF SaveChunk
  <2>4. DiskOK' /\ CountsOK'
    BY <1>0, <1>11, <2>2, <2>3 DEF SaveChunk, DiskOK, CountsOK
  <2>5. op = "compile" /\ op' = op /\ arg' = arg /\ cur' = cur /\ buf' = <<>>
    BY <1>11, <2>1 DEF SaveChunk, ChunkReady
  <2>6. MemoryOK'
    BY <1>0, <2>5 DEF MemoryOK
  <2>7. QED
    BY <2>4, <2>6 DEF TypeOK
<1>12. ASSUME NEW k \in Factors, StartTrain(k) PROVE TypeOK'
  <2>1. op' = "train" /\ arg' = k /\ cur' = 0 /\ buf' = Sample
    BY <1>12 DEF StartTrain, Start
  <2>2. k \in Nat /\ Sample \in Seq(StashLine)
    BY <1>0, PipelineAssumption, SampleType
  <2>3. MemoryOK'
    BY <2>1, <2>2 DEF MemoryOK
  <2>4. DiskOK'
    BY <1>0, <1>12 DEF StartTrain, DiskOK, disk
  <2>5. CountsOK'
    <3>1. Ragged(Sample) \in BOOLEAN
      BY DEF Ragged
    <3>2. fault' \in BOOLEAN
      BY <1>0, <1>12, <3>1 DEF StartTrain, CountsOK
    <3>3. QED
      BY <1>0, <1>12, <3>2 DEF StartTrain, CountsOK
  <2>6. QED
    BY <2>3, <2>4, <2>5 DEF TypeOK
<1>13. CASE SaveModel
  <2>1. Trained \in Summary
    BY <1>0, <1>13, TrainedType DEF SaveModel
  <2>2. model' \in [1..4 -> Summary \cup {Absent, Torn}]
    BY <1>0, <1>13, <2>1 DEF SaveModel, DiskOK
  <2>3. DiskOK' /\ CountsOK'
    BY <1>0, <1>13, <2>2 DEF SaveModel, DiskOK, CountsOK
  <2>4. MemoryOK'
    BY <1>0, <1>13 DEF SaveModel, MemoryOK
  <2>5. QED
    BY <2>3, <2>4 DEF TypeOK
<1>14. ASSUME NEW k \in Factors, Predict(k) PROVE TypeOK'
  <2>1. DiskOK' /\ CountsOK' /\ MemoryOK'
    BY <1>0, <1>14 DEF Predict, DiskOK, CountsOK, MemoryOK, disk
  <2>2. QED
    BY <2>1 DEF TypeOK
<1>15. CASE Crash
  <2>1. DiskOK' /\ CountsOK' /\ Done
    BY <1>0, <1>15 DEF Crash, Lost, DiskOK, CountsOK
  <2>2. QED
    BY <1>0, <2>1, Ends DEF TypeOK
<1>16. CASE CrashWritingJson
  <2>1. [rows |-> <<>>, whole |-> FALSE] \in [rows : Seq(Answers), whole : BOOLEAN]
    OBVIOUS
  <2>2. DiskOK' /\ CountsOK' /\ Done
    BY <1>0, <1>16, <2>1 DEF CrashWritingJson, DiskOK, CountsOK
  <2>3. QED
    BY <1>0, <2>2, Ends DEF TypeOK
<1>17. CASE CrashSavingChunk
  <2>1. stash' \in Cut(Lines(buf))
    BY <1>17 DEF CrashSavingChunk
  <2>2. stash' \in Seq(StashLine)
    <3>1. /\ buf \in Seq(Logs) /\ buf # <<>> /\ arg \in 0..999
          /\ \A i \in DOMAIN buf : buf[i].code = arg
      BY <1>10, <1>17 DEF CrashSavingChunk
    <3>2. Lines(buf) \in Seq(StashLine) /\ \A cut : Regular(Lines(buf), cut)
      BY ONLY <3>1, SavedFlat, ZenonT(60)
    <3>3. OneCode(Lines(buf))
      BY <3>2 DEF Regular
    <3>4. QED
      BY <2>1, <3>2, <3>3, CutIs
  <2>3. DiskOK' /\ CountsOK' /\ Done
    BY <1>0, <1>17, <2>2 DEF CrashSavingChunk, DiskOK, CountsOK
  <2>4. QED
    BY <1>0, <2>3, Ends DEF TypeOK
<1>18. CASE CrashSavingModel
  <2>1. model' \in [1..4 -> Summary \cup {Absent, Torn}]
    BY <1>0, <1>18 DEF CrashSavingModel, DiskOK
  <2>2. DiskOK' /\ CountsOK' /\ Done
    BY <1>0, <1>18, <2>1 DEF CrashSavingModel, DiskOK, CountsOK
  <2>3. QED
    BY <1>0, <2>2, Ends DEF TypeOK
<1>19. CASE UNCHANGED vars
  BY <1>0, <1>19 DEF vars, disk, TypeOK, DiskOK, MemoryOK, CountsOK
<1>20. QED
  BY <1>1, <1>2, <1>3, <1>4, <1>5, <1>6, <1>7, <1>8, <1>9, <1>11, <1>12, <1>13, <1>14,
     <1>15, <1>16, <1>17, <1>18, <1>19 DEF Next

\* The table grows by the entries of the file.
LEMMA CopiesGrow ==
    ASSUME TypeOK, files # <<>>, NEW n \in Nat
    PROVE  Copies(n + 1) = Copies(n) \o Entries(files[1].rows)
<1> DEFINE e == Entries(files[1].rows)
           h(k) == [i \in 1..k |-> e]
<1>1. e \in Seq(Logs)
  BY FileType, EntriesType DEF TypeOK
<1>2. \A k \in Nat : h(k) \in Seq(Seq(Logs)) /\ Len(h(k)) = k
  <2> HIDE DEF e
  <2>1. QED
    BY <1>1
<1>3. /\ h(n) \in Seq(Seq(Logs)) /\ h(n + 1) \in Seq(Seq(Logs))
      /\ Len(h(n)) = n /\ Len(h(n + 1)) = n + 1 /\ n \in Nat
  BY <1>2, SMTT(30)
<1>4. h(n + 1)[n + 1] = e /\ \A i \in 1..n : h(n + 1)[i] = h(n)[i]
  OBVIOUS
<1>5. FlattenSeq(h(n + 1)) = FlattenSeq(h(n)) \o h(n + 1)[n + 1]
  <2> HIDE DEF h
  <2>1. Len(h(n + 1)) = Len(h(n)) + 1 /\ \A i \in 1..Len(h(n)) : h(n + 1)[i] = h(n)[i]
    BY <1>3, <1>4
  <2>2. FlattenSeq(h(n + 1)) = FlattenSeq(h(n)) \o h(n + 1)[Len(h(n + 1))]
    BY <1>3, <2>1, FlattenGrows
  <2>3. QED
    BY <1>3, <2>2
<1>6. Copies(n) = FlattenSeq(h(n)) /\ Copies(n + 1) = FlattenSeq(h(n + 1))
  BY DEF Copies
<1>7. QED
  BY <1>4, <1>5, <1>6

LEMMA CopiesNone ==
    ASSUME TypeOK, files # <<>>
    PROVE  Copies(0) = <<>>
<1>1. [i \in 1..0 |-> Entries(files[1].rows)] = <<>>
  OBVIOUS
<1>2. QED
  BY <1>1 DEF Copies, FlattenSeq

LEMMA CopiesSame ==
    ASSUME files'[1] = files[1], NEW n
    PROVE  Copies(n)' = Copies(n)
BY DEF Copies, Entries

\* What is no transfer leaves the table as it is.
LEMMA NoTransfer ==
    ASSUME TypeOK, Transferred, UNCHANGED <<db, transfers>>, op' # "transfer",
           files # <<>> => files' # <<>> /\ files'[1] = files[1]
    PROVE  Transferred'
<1>1. CASE db = <<>>
  BY <1>1 DEF Transferred
<1>2. CASE db # <<>>
  <2>1. files # <<>> /\ files[1].whole
    BY <1>2 DEF Transferred
  <2>2. PICK n \in 1..transfers : db = Copies(n)
    BY <1>2 DEF Transferred
  <2>3. Copies(n)' = Copies(n)
    BY <2>1, CopiesSame
  <2>4. QED
    BY <2>1, <2>2, <2>3 DEF Transferred
<1>3. QED
  BY <1>1, <1>2

LEMMA TransferredStep ==
    ASSUME Inv, [Next]_vars
    PROVE  Transferred'
<1>0. TypeOK /\ DiskOK /\ MemoryOK /\ CountsOK /\ Transferred
  BY DEF Inv, TypeOK
<1> DEFINE e == Entries(files[1].rows)
<1>1. ASSUME files # <<>> PROVE e \in Seq(Logs)
  BY <1>0, <1>1, FileType, EntriesType
<1>2. ASSUME NEW x, files' = Append(files, x), UNCHANGED <<db, transfers>>, op' = "idle"
      PROVE  Transferred'
  <2>1. files # <<>> => files' # <<>> /\ files'[1] = files[1]
    <3> DEFINE R == [rows : Seq(Answers), whole : BOOLEAN]
    <3>1. files \in Seq(R)
      BY <1>0 DEF DiskOK
    <3>2. QED
      <4> HIDE DEF R
      <4>1. QED
        BY <1>2, <3>1
  <2>2. QED
    BY <1>0, <1>2, <2>1, NoTransfer
<1>3. CASE WriteJson \/ CrashWritingJson
  BY <1>2, <1>3 DEF WriteJson, CrashWritingJson, Done
<1>4. CASE StartTransfer
  <2>1. /\ op = "idle" /\ op' = "transfer" /\ cur' = 0 /\ buf' = <<>>
        /\ transfers' = transfers + 1 /\ UNCHANGED <<files, db>>
    BY <1>4 DEF StartTransfer, Start
  <2>2. ASSUME db # <<>>
        PROVE  /\ files # <<>> /\ files[1].whole
               /\ \E n \in 1..transfers' : db = Copies(n)' /\ n < transfers'
    <3>1. files # <<>> /\ files[1].whole
      BY <1>0, <2>2 DEF Transferred
    <3>2. PICK n \in 1..transfers : db = Copies(n)
      BY <1>0, <2>2 DEF Transferred
    <3>3. Copies(n)' = Copies(n)
      BY <2>1, CopiesSame
    <3>4. n \in 1..transfers' /\ n < transfers'
      BY <1>0, <2>1 DEF CountsOK
    <3>5. QED
      BY <3>1, <3>2, <3>3, <3>4
  <2>3. files # <<>> => cur' <= Len(e) /\ buf' = SubSeq(e, 1, cur')
    <3> HIDE DEF e
    <3>1. QED
      BY <1>1, <2>1
  <2>4. transfers' > 0
    BY <1>0, <2>1 DEF CountsOK
  <2>5. e' = e
    BY <2>1 DEF Entries
  <2>6. files # <<>> => (cur <= Len(e) /\ buf = SubSeq(e, 1, cur))'
    BY <2>1, <2>3, <2>5
  <2> HIDE DEF e
  <2>7. QED
    BY <2>1, <2>2, <2>4, <2>6 DEF Transferred, e
<1>5. CASE InsertRow
  <2>1. /\ files # <<>> /\ files[1].whole /\ cur < Len(e) /\ buf' = Append(buf, e[cur + 1])
        /\ op = "transfer" /\ op' = op /\ cur' = cur + 1
        /\ UNCHANGED <<files, db, transfers>>
    BY <1>5 DEF InsertRow, Source, disk
  <2>2. buf = SubSeq(e, 1, cur) /\ cur \in Nat /\ transfers > 0
    BY <1>0, <2>1 DEF Transferred, MemoryOK
  <2>3. cur' <= Len(e) /\ buf' = SubSeq(e, 1, cur')
    <3> HIDE DEF e
    <3>1. cur \in 0..(Len(e) - 1) /\ e \in Seq(Logs) /\ 0 \in Nat
      BY <1>1, <2>1, <2>2
    <3>2. SubSeq(e, 0 + 1, cur + 1) = Append(SubSeq(e, 0 + 1, cur), e[cur + 1])
      BY <3>1, PartGrows
    <3>3. QED
      BY <2>1, <2>2, <3>1, <3>2
  <2>4. e' = e /\ \A n : Copies(n)' = Copies(n)
    BY <2>1, CopiesSame DEF Entries
  <2>5. (cur <= Len(e) /\ buf = SubSeq(e, 1, cur))'
    BY <2>3, <2>4
  <2>6. db # <<>> => \E n \in 1..transfers : db = Copies(n) /\ n < transfers
    BY <1>0, <2>1 DEF Transferred
  <2> HIDE DEF e
  <2>7. db' # <<>> => \E n \in 1..transfers' : db' = Copies(n)' /\ n < transfers'
    BY <2>1, <2>4, <2>6
  <2>8. QED
    BY <2>1, <2>2, <2>5, <2>7 DEF Transferred, e
<1>6. CASE Commit
  <2>1. /\ files # <<>> /\ files[1].whole /\ cur = Len(e) /\ db' = db \o buf
        /\ op = "transfer" /\ op' = "idle" /\ UNCHANGED <<files, transfers>>
    BY <1>6 DEF Commit, Source, Done
  <2>2. buf = SubSeq(e, 1, cur) /\ transfers > 0
    BY <1>0, <2>1 DEF Transferred
  <2>3. e \in Seq(Logs)
    BY <1>1, <2>1
  <2>4. buf = e
    <3> HIDE DEF e
    <3>1. QED
      BY <2>1, <2>2, <2>3
  <2>5. \E n \in 0..(transfers - 1) : db = Copies(n)
    <3>1. CASE db = <<>>
      <4>1. Copies(0) = <<>>
        BY <1>0, <2>1, CopiesNone
      <4>2. 0 \in 0..(transfers - 1)
        BY <1>0, <2>2 DEF CountsOK
      <4>3. QED
        BY <3>1, <4>1, <4>2
    <3>2. CASE db # <<>>
      <4>1. PICK n \in 1..transfers : db = Copies(n) /\ n < transfers
        BY <1>0, <2>1, <3>2 DEF Transferred
      <4>2. n \in 0..(transfers - 1)
        BY <1>0, <4>1 DEF CountsOK
      <4>3. QED
        BY <4>1, <4>2
    <3>3. QED
      BY <3>1, <3>2
  <2>6. PICK n \in 0..(transfers - 1) : db = Copies(n)
    BY <2>5
  <2>7. n \in Nat /\ n + 1 \in 1..transfers
    BY <1>0 DEF CountsOK
  <2>8. Copies(n + 1) = Copies(n) \o e
    BY <1>0, <2>1, <2>7, CopiesGrow
  <2>9. Copies(n + 1)' = Copies(n + 1)
    BY <2>1, CopiesSame
  <2> HIDE DEF e
  <2>10. db' = Copies(n + 1)'
    BY <2>1, <2>4, <2>6, <2>8, <2>9
  <2>11. \E k \in 1..transfers' : db' = Copies(k)' /\ (op' = "transfer" => k < transfers')
    BY <2>1, <2>7, <2>10
  <2>12. QED
    BY <2>1, <2>11 DEF Transferred
<1>7. CASE UNCHANGED vars
  <2>1. UNCHANGED <<files, db, transfers, op, cur, buf>>
    BY <1>7 DEF vars, disk
  <2>2. \A n : Copies(n)' = Copies(n)
    BY <2>1, CopiesSame
  <2>3. Entries(files[1].rows)' = Entries(files[1].rows)
    BY <2>1 DEF Entries
  <2>4. QED
    BY <1>0, <2>1, <2>2, <2>3 DEF Transferred
<1>8. ASSUME UNCHANGED <<files, db, transfers>>, op' # "transfer" PROVE Transferred'
  BY <1>0, <1>8, NoTransfer
<1>9. CASE StartScan \/ Probe \/ TransferNothing \/ TransferFails
  BY <1>8, <1>9 DEF StartScan, Probe, TransferNothing, TransferFails, Start, Done, disk
<1>10. ASSUME NEW c \in Codes, StartCompile(c) PROVE Transferred'
  BY <1>8, <1>10 DEF StartCompile, Start, disk
<1>11. CASE ReadRow \/ SaveChunk \/ EndCompile
  BY <1>8, <1>11 DEF ReadRow, SaveChunk, ChunkReady, EndCompile, Done, disk
<1>12. ASSUME NEW k \in Factors, StartTrain(k) PROVE Transferred'
  BY <1>8, <1>12 DEF StartTrain, Start, disk
<1>13. CASE SaveModel \/ EndTrain
  BY <1>8, <1>13 DEF SaveModel, EndTrain, Done, disk
<1>14. ASSUME NEW k \in Factors, Predict(k) PROVE Transferred'
  BY <1>8, <1>14 DEF Predict, disk
<1>15. CASE Crash \/ CrashSavingChunk \/ CrashSavingModel
  BY <1>8, <1>15 DEF Crash, Lost, CrashSavingChunk, CrashSavingModel, Done, disk
<1>16. QED
  BY <1>3, <1>4, <1>5, <1>6, <1>7, <1>9, <1>10, <1>11, <1>12, <1>13, <1>14, <1>15 DEF Next

LEMMA CompiledStep ==
    ASSUME Inv, [Next]_vars
    PROVE  Compiled'
<1>0. TypeOK /\ DiskOK /\ MemoryOK /\ CountsOK /\ Compiled
  BY DEF Inv, TypeOK
<1>a. ChunkSize \in Nat \ {0}
  BY PipelineAssumption
<1> DEFINE m == Matches(arg)
<1>b. m \in Seq(Logs)
  BY <1>0, MatchesAre DEF DiskOK
<1>1. ASSUME op' # "compile" PROVE Compiled'
  BY <1>1 DEF Compiled
<1>2. CASE StartScan \/ Probe \/ WriteJson \/ StartTransfer \/ TransferNothing \/ TransferFails
  BY <1>1, <1>2 DEF StartScan, Probe, WriteJson, StartTransfer, TransferNothing, TransferFails,
                    Start, Done
<1>3. CASE InsertRow \/ Commit \/ EndCompile \/ SaveModel \/ EndTrain
  BY <1>1, <1>3 DEF InsertRow, Commit, EndCompile, SaveModel, EndTrain, Done
<1>4. CASE Crash \/ CrashWritingJson \/ CrashSavingChunk \/ CrashSavingModel
  BY <1>1, <1>4 DEF Crash, CrashWritingJson, CrashSavingChunk, CrashSavingModel, Done
<1>5. ASSUME NEW k \in Factors, StartTrain(k) \/ Predict(k) PROVE Compiled'
  BY <1>1, <1>5 DEF StartTrain, Predict, Start
<1>6. ASSUME NEW c \in Codes, StartCompile(c) PROVE Compiled'
  <2>1. cur' = 0 /\ buf' = <<>> /\ op' = "compile" /\ arg' = c /\ UNCHANGED <<db, stash>>
    BY <1>6 DEF StartCompile, Start, disk
  <2> DEFINE q == Matches(c)
  <2>2. q \in Seq(Logs)
    BY <1>0, MatchesAre DEF DiskOK
  <2>3. Matches(arg)' = q
    BY <2>1 DEF Matches, FoldLeft, MapThenFoldSet
  <2>4. Saved' = 0
    <3>1. Len(buf') = 0
      BY <2>1
    <3>2. cur' = 0
      BY <2>1
    <3>3. cur' - Len(buf') = 0
      BY <3>1, <3>2
    <3>4. QED
      BY <3>3 DEF Saved
  <2>5. SubSeq(q, 0 + 1, 0) = <<>> /\ 0 <= Len(q) /\ 0 % ChunkSize = 0
    <3> HIDE DEF q
    <3>1. QED
      BY <1>a, <2>2
  <2>6. Len(<<>>) = 0 /\ 0 <= ChunkSize
    BY <1>a
  <2> HIDE DEF q
  <2>7. Compiling'
    BY <2>1, <2>3, <2>4, <2>5, <2>6 DEF Compiling
  <2>8. QED
    BY <2>7 DEF Compiled
<1>7. CASE ReadRow
  <2>1. /\ op = "compile" /\ Len(buf) < ChunkSize /\ cur < Len(m)
        /\ buf' = Append(buf, m[cur + 1]) /\ cur' = cur + 1
        /\ op' = op /\ arg' = arg /\ UNCHANGED <<db, stash>>
    BY <1>7 DEF ReadRow, disk
  <2>2. Compiling /\ buf \in Seq(Logs) /\ cur \in Nat
    BY <1>0, <2>1 DEF Compiled, MemoryOK
  <2>3. Saved \in Nat /\ Len(buf) = cur - Saved
    BY <1>0, <2>1, <2>2, ChunkRows
  <2>4. /\ buf = SubSeq(m, Saved + 1, cur) /\ Saved % ChunkSize = 0
        /\ Saved > 0 => stash = LastChunk(m, Saved, arg)
    <3>1. cur # Len(m)
      BY <2>1, <2>2, <1>b
    <3>2. QED
      BY <2>2, <3>1 DEF Compiling
  <2>5. m' = m
    BY <2>1, MatchesSame DEF Matches, FoldLeft, MapThenFoldSet
  <2> HIDE DEF m
  <2>6. m[cur + 1] \in Logs
    BY <1>b, <2>1, <2>2
  <2>7. Len(buf') = Len(buf) + 1
    BY <2>1, <2>2, <2>6
  <2>8. Saved' = Saved
    BY <2>1, <2>2, <2>3, <2>7 DEF Saved
  <2>9. SubSeq(m, Saved + 1, cur + 1) = Append(SubSeq(m, Saved + 1, cur), m[cur + 1])
    <3>1. cur \in Saved..(Len(m) - 1)
      BY <1>b, <2>1, <2>2, <2>3
    <3>2. QED
      BY <1>b, <2>3, <3>1, PartGrows
  <2>10. /\ cur' <= Len(m) /\ Len(buf') <= ChunkSize /\ Len(buf') <= cur'
         /\ buf' = SubSeq(m, Saved + 1, cur')
    <3>1. Len(buf) \in Nat /\ Len(m) \in Nat /\ Len(buf) <= cur
      BY <1>b, <2>2, <2>3
    <3>2. cur + 1 <= Len(m) /\ Len(buf) + 1 <= ChunkSize /\ Len(buf) + 1 <= cur + 1
      BY <1>a, <2>1, <2>2, <3>1
    <3>3. buf' = SubSeq(m, Saved + 1, cur')
      BY <2>1, <2>4, <2>9
    <3>4. QED
      BY <2>1, <2>7, <3>2, <3>3
  <2>11. LastChunk(m, Saved, arg)' = LastChunk(m, Saved, arg)
    BY <2>1, <2>5, <2>8 DEF LastChunk, Size
  <2>12. Compiling'
    BY <2>1, <2>4, <2>5, <2>8, <2>10, <2>11 DEF Compiling, m
  <2>13. QED
    BY <2>12 DEF Compiled
<1>8. CASE SaveChunk
  <2>1. /\ op = "compile" /\ buf # <<>> /\ (Len(buf) = ChunkSize \/ cur = Len(m))
        /\ buf' = <<>> /\ op' = op /\ arg' = arg /\ cur' = cur /\ UNCHANGED db
    BY <1>8 DEF SaveChunk, ChunkReady
  <2>2. Compiling /\ buf \in Seq(Logs) /\ cur \in Nat
    BY <1>0, <2>1 DEF Compiled, MemoryOK
  <2> DEFINE l == Len(buf)
  <2>3. /\ Saved \in Nat /\ l = cur - Saved
        /\ \A i \in DOMAIN buf : buf[i] = m[Saved + i] /\ buf[i].code = arg
    BY <1>0, <2>1, <2>2, ChunkRows
  <2>4. l \in 1..ChunkSize /\ cur = Saved + l /\ Saved % ChunkSize = 0 /\ cur <= Len(m)
    <3>1. l \in Nat /\ l # 0 /\ l <= ChunkSize
      BY <2>1, <2>2 DEF Compiling
    <3>2. Saved % ChunkSize = 0 /\ cur <= Len(m)
      BY <2>1, <2>2 DEF Compiling
    <3>3. QED
      BY <1>a, <2>2, <2>3, <3>1, <3>2
  <2>5. m' = m
    BY <2>1, MatchesSame DEF Matches, FoldLeft, MapThenFoldSet
  <2> DEFINE text == PrintedPhrase(buf[1].phrase)
  <2>6. stash' = [i \in 1..l |-> [status |-> Token(buf[i].code), tokens |-> text]]
    <3>1. /\ ~Overruns(buf)
          /\ Lines(buf) = [i \in 1..l |-> [status |-> Token(buf[i].code), tokens |-> text]]
      BY <2>1, <2>2, SavedIs
    <3>2. QED
      BY <1>8, <3>1 DEF SaveChunk
  <2>7. Size(cur) = l
    <3>1. (Saved + (l - 1)) % ChunkSize = l - 1
      <4> HIDE DEF l
      <4>1. l - 1 \in 0..(ChunkSize - 1)
        BY <1>a, <2>4
      <4>2. QED
        BY <1>a, <2>3, <2>4, <4>1, ModAfter
    <3>2. cur - 1 = Saved + (l - 1)
      BY <2>2, <2>3, <2>4
    <3>3. QED
      BY <2>4, <3>1, <3>2 DEF Size
  <2>8. stash' = LastChunk(m, cur, arg)
    <3>1. (cur - l) + 1 = Saved + 1 /\ 1 \in DOMAIN buf /\ DOMAIN buf = 1..l
      BY <2>2, <2>3, <2>4
    <3>2. text = PrintedPhrase(m[(cur - l) + 1].phrase)
      BY <2>3, <3>1
    <3>3. \A i \in 1..l : buf[i].code = arg
      BY <2>3, <3>1
    <3>4. LastChunk(m, cur, arg) =
              [i \in 1..l |->
                  [status |-> Token(arg), tokens |-> PrintedPhrase(m[cur - l + 1].phrase)]]
      BY <2>7 DEF LastChunk
    <3> HIDE DEF m, l, text
    <3>5. cur - l + 1 = (cur - l) + 1
      OBVIOUS
    <3>6. QED
      BY <2>6, <3>2, <3>3, <3>4, <3>5
  <2>9. Saved' = cur
    BY <2>1, <2>2 DEF Saved
  <2>10. cur % ChunkSize = 0 \/ cur = Len(m)
    <3>1. CASE l = ChunkSize
      <4>1. (Saved + ChunkSize) % ChunkSize = 0
        BY <1>a, <2>3, <2>4, ModNext
      <4>2. QED
        BY <2>4, <3>1, <4>1
    <3>2. CASE cur = Len(m)
      BY <3>2
    <3>3. QED
      BY <2>1, <3>1, <3>2
  <2>11. SubSeq(m, cur + 1, cur) = <<>>
    <3> HIDE DEF m
    <3>1. QED
      BY <1>b, <2>2, <2>4
  <2>12. LastChunk(m, Saved, arg)' = LastChunk(m, cur, arg)
    <3> HIDE DEF m
    <3>1. QED
      BY <2>1, <2>5, <2>9 DEF LastChunk, Size
  <2>13. Len(<<>>) = 0 /\ 0 <= ChunkSize /\ 0 <= cur
    BY <1>a, <2>2
  <2> HIDE DEF m, l, text
  <2>14. Compiling'
    BY <2>1, <2>4, <2>5, <2>8, <2>9, <2>10, <2>11, <2>12, <2>13 DEF Compiling, m
  <2>15. QED
    BY <2>14 DEF Compiled
<1>9. CASE UNCHANGED vars
  <2>1. UNCHANGED <<op, arg, cur, buf, db, stash>>
    BY <1>9 DEF vars, disk
  <2>2. m' = m
    BY <2>1 DEF Matches, FoldLeft, MapThenFoldSet
  <2> HIDE DEF m
  <2>3. LastChunk(m, Saved, arg)' = LastChunk(m, Saved, arg)
    BY <2>1, <2>2 DEF LastChunk, Size, Saved
  <2>4. QED
    BY <1>0, <2>1, <2>2, <2>3 DEF Compiled, Compiling, Saved, m
<1>10. QED
  BY <1>2, <1>3, <1>4, <1>5, <1>6, <1>7, <1>8, <1>9 DEF Next

\* A chunk that is saved, and the code of its rows.
LEMMA ChunkIs ==
    ASSUME Inv, ChunkReady
    PROVE  /\ buf \in Seq(Logs) /\ buf # <<>> /\ arg \in 0..999
           /\ \A i \in DOMAIN buf : buf[i].code = arg
           /\ ~Overruns(buf)
<1>1. TypeOK /\ op = "compile" /\ buf # <<>> /\ Compiling
  BY DEF Inv, Compiled, ChunkReady
<1>2. buf \in Seq(Logs) /\ arg \in 0..999
  BY <1>1 DEF TypeOK, MemoryOK
<1>3. \A i \in DOMAIN buf : buf[i].code = arg
  BY <1>1, ChunkRows
<1>4. ~Overruns(buf)
  BY <1>1, <1>2, SavedIs
<1>5. QED
  BY <1>1, <1>2, <1>3, <1>4

LEMMA StashedStep ==
    ASSUME Inv, [Next]_vars
    PROVE  Stashed'
<1>0. Stashed
  BY DEF Inv
<1>1. ASSUME UNCHANGED <<stash, stashCut>> PROVE Stashed'
  <2>1. Sample' = Sample
    BY <1>1 DEF Sample
  <2>2. QED
    BY <1>0, <1>1, <2>1 DEF Stashed, Regular, OneCode, OneText, Ragged
<1>2. ASSUME NEW s, stash' = s, Regular(s, stashCut') PROVE Stashed'
  <2>1. Sample' = s \/ Sample' = <<>>
    BY <1>2 DEF Sample
  <2>2. OneCode(<<>>) /\ OneText(<<>>) /\ ~Ragged(<<>>)
    BY DEF OneCode, OneText, Ragged
  <2>3. QED
    BY <1>2, <2>1, <2>2 DEF Stashed, Regular, OneCode, OneText, Ragged
<1>3. CASE StartScan \/ Probe \/ WriteJson \/ StartTransfer \/ TransferNothing \/ TransferFails
  BY <1>1, <1>3 DEF StartScan, Probe, WriteJson, StartTransfer, TransferNothing, TransferFails, disk
<1>4. CASE InsertRow \/ Commit \/ ReadRow \/ EndCompile \/ SaveModel \/ EndTrain
  BY <1>1, <1>4 DEF InsertRow, Commit, ReadRow, EndCompile, SaveModel, EndTrain, disk
<1>5. ASSUME NEW c \in Codes, StartCompile(c) PROVE Stashed'
  BY <1>1, <1>5 DEF StartCompile, disk
<1>6. ASSUME NEW k \in Factors, StartTrain(k) \/ Predict(k) PROVE Stashed'
  BY <1>1, <1>6 DEF StartTrain, Predict, disk
<1>7. CASE Crash \/ CrashWritingJson \/ CrashSavingModel
  BY <1>1, <1>7 DEF Crash, CrashWritingJson, CrashSavingModel
<1>8. CASE SaveChunk
  <2>1. /\ buf \in Seq(Logs) /\ buf # <<>> /\ arg \in 0..999
        /\ \A i \in DOMAIN buf : buf[i].code = arg
        /\ ~Overruns(buf)
    BY <1>8, ChunkIs DEF SaveChunk
  <2>2. \A cut : Regular(Lines(buf), cut)
    BY ONLY <2>1, SavedFlat, ZenonT(60)
  <2>3. stash' = Lines(buf)
    BY <1>8, <2>1 DEF SaveChunk
  <2>4. QED
    BY <1>2, <2>2, <2>3
<1>9. CASE CrashSavingChunk
  <2>1. /\ buf \in Seq(Logs) /\ buf # <<>> /\ arg \in 0..999
        /\ \A i \in DOMAIN buf : buf[i].code = arg
    BY <1>9, ChunkIs DEF CrashSavingChunk
  <2>2. stash' \in Cut(Lines(buf)) /\ stashCut'
    BY <1>9 DEF CrashSavingChunk
  <2>3. Lines(buf) \in Seq(StashLine) /\ \A cut : Regular(Lines(buf), cut)
    BY ONLY <2>1, SavedFlat, ZenonT(60)
  <2>4. OneCode(Lines(buf))
    BY <2>3 DEF Regular
  <2>5. OneCode(stash')
    BY <2>2, <2>3, <2>4, CutIs
  <2>6. QED
    BY <1>2, <2>2, <2>5 DEF Regular
<1>10. CASE UNCHANGED vars
  BY <1>1, <1>10 DEF vars, disk
<1>11. QED
  BY <1>3, <1>4, <1>5, <1>6, <1>7, <1>8, <1>9, <1>10 DEF Next

\* A row is read beyond its end by a training, and only of a stash cut short.
LEMMA InBoundsStep ==
    ASSUME Inv, [Next]_vars
    PROVE  fault' # fault => op' = "train" /\ stashCut
<1>0. stashCut \in BOOLEAN /\ fault \in BOOLEAN
  BY DEF Inv, TypeOK, CountsOK
<1> SUFFICES ASSUME fault' # fault PROVE op' = "train" /\ stashCut
  OBVIOUS
<1>1. CASE StartScan \/ Probe \/ WriteJson \/ StartTransfer \/ TransferNothing \/ TransferFails
  BY <1>1 DEF StartScan, Probe, WriteJson, StartTransfer, TransferNothing, TransferFails
<1>2. CASE InsertRow \/ Commit \/ ReadRow \/ EndCompile \/ SaveModel \/ EndTrain
  BY <1>2 DEF InsertRow, Commit, ReadRow, EndCompile, SaveModel, EndTrain
<1>3. ASSUME NEW c \in Codes PROVE ~StartCompile(c)
  BY DEF StartCompile
<1>4. ASSUME NEW k \in Factors PROVE ~Predict(k)
  BY DEF Predict
<1>5. CASE Crash \/ CrashWritingJson \/ CrashSavingChunk \/ CrashSavingModel
  BY <1>5 DEF Crash, CrashWritingJson, CrashSavingChunk, CrashSavingModel
<1>6. ~SaveChunk
  <2>1. ChunkReady => ~Overruns(buf)
    BY ChunkIs
  <2>2. QED
    BY <2>1 DEF SaveChunk
<1>7. ASSUME NEW k \in Factors, StartTrain(k) PROVE op' = "train" /\ stashCut
  <2>1. fault' = (fault \/ Ragged(Sample)) /\ op' = "train"
    BY <1>7 DEF StartTrain, Start
  <2>2. Ragged(Sample)
    <3>1. ~Ragged(Sample) => fault' = fault
      BY <1>0, <2>1
    <3>2. QED
      BY <3>1
  <2>3. ~stashCut => ~Ragged(Sample)
    BY DEF Inv, Stashed, Regular
  <2>4. QED
    BY <2>1, <2>2, <2>3
<1>8. ~UNCHANGED vars
  BY DEF vars
<1>9. QED
  BY <1>1, <1>2, <1>3, <1>4, <1>5, <1>6, <1>7, <1>8 DEF Next

\* The file a training has come to, saved or torn.
LEMMA WrittenType ==
    ASSUME TypeOK, NEW f \in 1..4, Written(f)
    PROVE  model[f] \in Summary /\ model[f].run \in Nat
<1>1. model[f] \in Summary
  BY DEF TypeOK, DiskOK, Written
<1>2. QED
  BY <1>1 DEF Summary

LEMMA SavedAs ==
    ASSUME TypeOK, SaveModel
    PROVE  /\ cur + 1 \in 1..4 /\ cur \in 0..3
           /\ model'[cur + 1] = Trained
           /\ \A f \in 1..4 : IF f = cur + 1 THEN Written(f)'
                              ELSE model'[f] = model[f] /\ (Written(f)' <=> Written(f))
<1>1. op = "train" /\ cur < 4 /\ cur \in Nat /\ model' = [model EXCEPT ![Saves[cur + 1]] = Trained]
  BY SavesAre DEF SaveModel, TypeOK, MemoryOK
<1>2. cur \in 0..3 /\ cur + 1 \in 1..4
  BY <1>1
<1>3. Saves[cur + 1] = cur + 1
  BY <1>2, SavesAre
<1>4. DOMAIN model = 1..4
  BY DEF TypeOK, DiskOK
<1>5. model'[cur + 1] = Trained /\ \A f \in 1..4 : f # cur + 1 => model'[f] = model[f]
  BY <1>1, <1>2, <1>3, <1>4
<1>6. Trained \notin {Absent, Torn}
  BY <1>1, TrainedType
<1>7. ASSUME NEW f \in 1..4, f = cur + 1 PROVE Written(f)'
  BY <1>5, <1>6, <1>7 DEF Written
<1>8. ASSUME NEW f \in 1..4, f # cur + 1 PROVE Written(f)' <=> Written(f)
  BY <1>5, <1>8 DEF Written
<1>9. QED
  BY <1>2, <1>5, <1>7, <1>8

LEMMA TornAs ==
    ASSUME TypeOK, CrashSavingModel
    PROVE  /\ cur + 1 \in 1..4 /\ cur \in 0..3 /\ op = "train"
           /\ model'[cur + 1] = Torn
           /\ \A f \in 1..4 : IF f = cur + 1 THEN ~Written(f)'
                              ELSE model'[f] = model[f] /\ (Written(f)' <=> Written(f))
<1>1. op = "train" /\ cur < 4 /\ cur \in Nat /\ model' = [model EXCEPT ![Saves[cur + 1]] = Torn]
  BY SavesAre DEF CrashSavingModel, TypeOK, MemoryOK
<1>2. cur \in 0..3 /\ cur + 1 \in 1..4
  BY <1>1
<1>3. Saves[cur + 1] = cur + 1
  BY <1>2, SavesAre
<1>4. DOMAIN model = 1..4
  BY DEF TypeOK, DiskOK
<1>5. model'[cur + 1] = Torn /\ \A f \in 1..4 : f # cur + 1 => model'[f] = model[f]
  BY <1>1, <1>2, <1>3, <1>4
<1>6. ASSUME NEW f \in 1..4, f = cur + 1 PROVE ~Written(f)'
  BY <1>5, <1>6 DEF Written
<1>7. ASSUME NEW f \in 1..4, f # cur + 1 PROVE Written(f)' <=> Written(f)
  BY <1>5, <1>7 DEF Written
<1>8. QED
  BY <1>1, <1>2, <1>5, <1>6, <1>7

\* What writes no file of a model leaves the summaries as they are.
LEMMA SameModel ==
    ASSUME TypeOK, Summaries, model' = model, trainings' >= trainings, trainings' \in Nat
    PROVE  Summaries'
<1>1. trainings \in Nat
  BY DEF TypeOK, CountsOK
<1>2. ASSUME NEW f \in 1..4, Written(f) PROVE model[f].run <= trainings'
  <2>1. model[f].run <= trainings /\ model[f].run \in Nat
    BY <1>2, WrittenType DEF Summaries
  <2>2. QED
    BY <1>1, <2>1
<1>3. QED
  BY <1>2 DEF Summaries, Written, Regular, OneCode, OneText, Ragged

LEMMA SummariesStep ==
    ASSUME Inv, [Next]_vars
    PROVE  Summaries'
<1>0. TypeOK /\ Summaries /\ trainings \in Nat /\ InTraining
  BY DEF Inv, TypeOK, CountsOK
<1>1. ASSUME UNCHANGED <<model, trainings>> PROVE Summaries'
  BY <1>0, <1>1, SameModel
<1>2. CASE StartScan \/ Probe \/ WriteJson \/ StartTransfer \/ TransferNothing \/ TransferFails
  BY <1>1, <1>2 DEF StartScan, Probe, WriteJson, StartTransfer, TransferNothing, TransferFails, disk
<1>3. CASE InsertRow \/ Commit \/ ReadRow \/ SaveChunk \/ EndCompile \/ EndTrain
  BY <1>1, <1>3 DEF InsertRow, Commit, ReadRow, SaveChunk, EndCompile, EndTrain, disk
<1>4. ASSUME NEW c \in Codes, StartCompile(c) PROVE Summaries'
  BY <1>1, <1>4 DEF StartCompile, disk
<1>5. ASSUME NEW k \in Factors, Predict(k) PROVE Summaries'
  BY <1>1, <1>5 DEF Predict, disk
<1>6. CASE Crash \/ CrashWritingJson \/ CrashSavingChunk
  BY <1>1, <1>6 DEF Crash, CrashWritingJson, CrashSavingChunk
<1>7. ASSUME NEW k \in Factors, StartTrain(k) PROVE Summaries'
  <2>1. trainings' = trainings + 1 /\ model' = model
    BY <1>7 DEF StartTrain, disk
  <2>2. trainings' >= trainings /\ trainings' \in Nat
    BY <1>0, <2>1
  <2>3. QED
    BY <1>0, <2>1, <2>2, SameModel
<1>8. CASE SaveModel
  <2>1. Training /\ trainings' = trainings
    BY <1>0, <1>8 DEF InTraining, SaveModel
  <2>2. /\ cur + 1 \in 1..4 /\ cur \in 0..3
        /\ model'[cur + 1] = Trained
        /\ \A f \in 1..4 : IF f = cur + 1 THEN Written(f)'
                           ELSE model'[f] = model[f] /\ (Written(f)' <=> Written(f))
    BY <1>0, <1>8, SavedAs
  <2>3. Trained.run = trainings /\ Trained.sample = buf /\ Trained.cut = stashCut
    BY DEF Trained
  <2>4. ASSUME NEW f \in 1..4, Written(f)'
        PROVE  model'[f].run <= trainings' /\ Regular(model'[f].sample, model'[f].cut)
    <3>1. CASE f = cur + 1
      <4>1. trainings <= trainings
        BY <1>0
      <4>2. Regular(buf, stashCut)
        BY <2>1 DEF Training
      <4>3. QED
        BY <2>1, <2>2, <2>3, <3>1, <4>1, <4>2
    <3>2. CASE f # cur + 1
      BY <1>0, <2>1, <2>2, <2>4, <3>2 DEF Summaries
    <3>3. QED
      BY <3>1, <3>2
  <2>5. QED
    BY <2>4 DEF Summaries, Regular, OneCode, OneText, Ragged
<1>9. CASE CrashSavingModel
  <2>1. trainings' = trainings
    BY <1>9 DEF CrashSavingModel
  <2>2. ASSUME NEW f \in 1..4, Written(f)' PROVE model'[f] = model[f] /\ Written(f)
    <3>1. model'[cur + 1] = Torn
      BY <1>0, <1>9, TornAs
    <3>2. f # cur + 1
      BY <2>2, <3>1 DEF Written
    <3>3. QED
      BY <1>0, <1>9, <2>2, <3>2, TornAs
  <2>3. \A f \in 1..4 : Written(f)' =>
           model'[f].run <= trainings /\ Regular(model'[f].sample, model'[f].cut)
    BY <1>0, <2>2 DEF Summaries
  <2>4. QED
    BY <2>1, <2>3 DEF Summaries, Regular, OneCode, OneText, Ragged
<1>10. CASE UNCHANGED vars
  BY <1>1, <1>10 DEF vars, disk
<1>11. QED
  BY <1>2, <1>3, <1>4, <1>5, <1>6, <1>7, <1>8, <1>9, <1>10 DEF Next

LEMMA TrainingStep ==
    ASSUME Inv, [Next]_vars
    PROVE  InTraining'
<1>0. TypeOK /\ Summaries /\ trainings \in Nat /\ InTraining
  BY DEF Inv, TypeOK, CountsOK
<1>1. ASSUME op' # "train" PROVE InTraining'
  BY <1>1 DEF InTraining
<1>2. CASE StartScan \/ Probe \/ WriteJson \/ StartTransfer \/ TransferNothing \/ TransferFails
  BY <1>1, <1>2 DEF StartScan, Probe, WriteJson, StartTransfer, TransferNothing, TransferFails,
                    Start, Done
<1>3. CASE InsertRow \/ Commit \/ ReadRow \/ SaveChunk \/ EndCompile \/ EndTrain
  BY <1>1, <1>3 DEF InsertRow, Commit, ReadRow, SaveChunk, ChunkReady, EndCompile, EndTrain, Done
<1>4. ASSUME NEW c \in Codes, StartCompile(c) PROVE InTraining'
  BY <1>1, <1>4 DEF StartCompile, Start
<1>5. ASSUME NEW k \in Factors, Predict(k) PROVE InTraining'
  BY <1>1, <1>5 DEF Predict
<1>6. CASE Crash \/ CrashWritingJson \/ CrashSavingChunk \/ CrashSavingModel
  BY <1>1, <1>6 DEF Crash, CrashWritingJson, CrashSavingChunk, CrashSavingModel, Done
<1>7. ASSUME NEW k \in Factors, StartTrain(k) PROVE InTraining'
  <2>1. trainings' = trainings + 1 /\ model' = model /\ cur' = 0 /\ buf' = Sample
        /\ stashCut' = stashCut
    BY <1>7 DEF StartTrain, Start, disk
  <2>2. Regular(Sample, stashCut)
    BY DEF Inv, Stashed
  <2>3. ASSUME NEW f \in 1..4, Written(f) PROVE model[f].run < trainings'
    <3>1. model[f].run \in Nat /\ model[f].run <= trainings
      BY <1>0, <2>3, WrittenType DEF Summaries
    <3>2. QED
      BY <1>0, <2>1, <3>1
  <2>4. Regular(buf, stashCut)'
    BY <2>1, <2>2 DEF Regular, OneCode, OneText, Ragged
  <2>5. \A f \in 1..4 : ~(f <= cur') /\ cur' <= 4
    BY <2>1
  <2>6. \A f \in 1..4 : Written(f)' => model'[f].run < trainings'
    BY <2>1, <2>3 DEF Written
  <2>7. QED
    BY <2>4, <2>5, <2>6 DEF InTraining, Training
<1>8. CASE SaveModel
  <2>1. Training /\ UNCHANGED <<trainings, buf, stashCut>> /\ cur' = cur + 1
    BY <1>0, <1>8 DEF InTraining, SaveModel
  <2>2. /\ cur + 1 \in 1..4 /\ cur \in 0..3
        /\ model'[cur + 1] = Trained
        /\ \A f \in 1..4 : IF f = cur + 1 THEN Written(f)'
                           ELSE model'[f] = model[f] /\ (Written(f)' <=> Written(f))
    BY <1>0, <1>8, SavedAs
  <2>3. Trained.run = trainings
    BY DEF Trained
  <2>4. ASSUME NEW f \in 1..4, f <= cur'
        PROVE  Of(f, trainings)'
    <3>1. CASE f = cur + 1
      <4>1. Written(f)' /\ model'[f] = Trained
        BY <2>2, <3>1
      <4>2. QED
        BY <2>1, <2>3, <4>1 DEF Of
    <3>2. CASE f # cur + 1
      <4>1. f <= cur
        BY <2>1, <2>2, <2>4, <3>2
      <4>2. Of(f, trainings)
        BY <2>1, <4>1 DEF Training
      <4>3. QED
        BY <2>1, <2>2, <3>2, <4>2 DEF Of
    <3>3. QED
      BY <3>1, <3>2
  <2>5. ASSUME NEW f \in 1..4, f > cur', Written(f)' PROVE (model[f].run < trainings)'
    <3>1. f > cur /\ f # cur + 1
      BY <2>1, <2>2, <2>5
    <3>2. Written(f) /\ model'[f] = model[f]
      BY <2>2, <2>5, <3>1
    <3>3. QED
      BY <2>1, <3>1, <3>2 DEF Training
  <2>6. cur' <= 4
    BY <2>1, <2>2
  <2>7. Regular(buf, stashCut)'
    BY <2>1 DEF Training, Regular, OneCode, OneText, Ragged
  <2>8. QED
    BY <2>4, <2>5, <2>6, <2>7 DEF InTraining, Training
<1>9. CASE UNCHANGED vars
  BY <1>0, <1>9 DEF vars, disk, InTraining, Training, Regular, OneCode, OneText, Ragged, Of, Written
<1>10. QED
  BY <1>2, <1>3, <1>4, <1>5, <1>6, <1>7, <1>8, <1>9 DEF Next

\* What a training's next file, saved or torn, does to the order.
LEMMA OrderedStep ==
    ASSUME Inv, [Next]_vars
    PROVE  Ordered'
<1>0. TypeOK /\ Ordered /\ trainings \in Nat /\ InTraining
  BY DEF Inv, TypeOK, CountsOK
<1>1. ASSUME model' = model PROVE Ordered'
  BY <1>0, <1>1 DEF Ordered, Written
<1>2. CASE StartScan \/ Probe \/ WriteJson \/ StartTransfer \/ TransferNothing \/ TransferFails
  BY <1>1, <1>2 DEF StartScan, Probe, WriteJson, StartTransfer, TransferNothing, TransferFails, disk
<1>3. CASE InsertRow \/ Commit \/ ReadRow \/ SaveChunk \/ EndCompile \/ EndTrain
  BY <1>1, <1>3 DEF InsertRow, Commit, ReadRow, SaveChunk, EndCompile, EndTrain, disk
<1>4. ASSUME NEW c \in Codes, StartCompile(c) PROVE Ordered'
  BY <1>1, <1>4 DEF StartCompile, disk
<1>5. ASSUME NEW k \in Factors, StartTrain(k) \/ Predict(k) PROVE Ordered'
  BY <1>1, <1>5 DEF StartTrain, Predict, disk
<1>6. CASE Crash \/ CrashWritingJson \/ CrashSavingChunk
  BY <1>1, <1>6 DEF Crash, CrashWritingJson, CrashSavingChunk
\* The files of this training are saved, and those after them are older.
<1>7. ASSUME op = "train", NEW f \in 1..4
      PROVE  /\ f <= cur => Written(f) /\ model[f].run = trainings
             /\ f > cur /\ Written(f) => model[f].run < trainings /\ model[f].run \in Nat
  <2>1. Training
    BY <1>0, <1>7 DEF InTraining
  <2>2. QED
    BY <1>0, <2>1, WrittenType DEF Training, Of
<1>8. ASSUME NEW f \in 1..4, NEW g \in 1..4, f < g, Written(g)
      PROVE  /\ model[f] # Absent
             /\ Written(f) => model[f].run >= model[g].run
             /\ \A h \in 1..4 : f < h /\ h < g /\ Written(f) /\ model[h] = Torn =>
                    model[f].run > model[g].run
  BY <1>0, <1>8 DEF Ordered
<1>9. CASE SaveModel
  <2>1. op = "train" /\ Trained.run = trainings /\ Trained \notin {Absent, Torn}
    BY <1>0, <1>9, TrainedType DEF SaveModel, Trained
  <2>2. /\ cur + 1 \in 1..4 /\ cur \in 0..3
        /\ model'[cur + 1] = Trained
        /\ \A f \in 1..4 : IF f = cur + 1 THEN Written(f)'
                           ELSE model'[f] = model[f] /\ (Written(f)' <=> Written(f))
    BY <1>0, <1>9, SavedAs
  <2>3. ASSUME NEW f \in 1..4, NEW g \in 1..4, f < g, Written(g)'
        PROVE  /\ model'[f] # Absent
               /\ Written(f)' => model'[f].run >= model'[g].run
               /\ \A h \in 1..4 : f < h /\ h < g /\ Written(f)' /\ model'[h] = Torn =>
                      model'[f].run > model'[g].run
    <3>1. CASE g = cur + 1
      <4>1. f <= cur /\ f # cur + 1
        BY <2>2, <2>3, <3>1
      <4>2. Written(f) /\ model[f].run = trainings /\ model'[f] = model[f]
        BY <1>7, <2>1, <2>2, <4>1
      <4>3. model'[g].run = trainings /\ trainings >= trainings
        BY <1>0, <2>1, <2>2, <3>1
      <4>4. ASSUME NEW h \in 1..4, h < g PROVE model'[h] # Torn
        <5>1. h <= cur /\ h # cur + 1
          BY <2>2, <3>1, <4>4
        <5>2. Written(h) /\ model'[h] = model[h]
          BY <1>7, <2>1, <2>2, <5>1
        <5>3. QED
          BY <5>2 DEF Written
      <4>5. model'[f] # Absent
        BY <4>2 DEF Written
      <4>6. QED
        BY <4>2, <4>3, <4>4, <4>5
    <3>2. CASE f = cur + 1
      <4>1. g > cur /\ g # cur + 1
        BY <2>2, <2>3, <3>2
      <4>2. Written(g) /\ model'[g] = model[g]
        BY <2>2, <2>3, <4>1
      <4>3. model[g].run < trainings /\ model[g].run \in Nat
        BY <1>7, <2>1, <4>1, <4>2
      <4>4. model'[f].run = trainings /\ model'[f] # Absent
        BY <2>1, <2>2, <3>2
      <4>5. model'[f].run >= model'[g].run /\ model'[f].run > model'[g].run
        BY <1>0, <4>2, <4>3, <4>4
      <4>6. QED
        BY <4>4, <4>5
    <3>3. CASE f # cur + 1 /\ g # cur + 1
      <4>1. Written(g) /\ model'[g] = model[g] /\ model'[f] = model[f] /\ (Written(f)' <=> Written(f))
        BY <2>2, <2>3, <3>3
      <4>2. \A h \in 1..4 : model'[h] = Torn => model[h] = Torn
        BY <2>1, <2>2
      <4>3. QED
        BY <1>8, <2>3, <4>1, <4>2
    <3>4. QED
      BY <3>1, <3>2, <3>3
  <2>4. QED
    BY <2>3 DEF Ordered
<1>10. CASE CrashSavingModel
  <2>1. /\ cur + 1 \in 1..4 /\ cur \in 0..3 /\ op = "train"
        /\ model'[cur + 1] = Torn
        /\ \A f \in 1..4 : IF f = cur + 1 THEN ~Written(f)'
                           ELSE model'[f] = model[f] /\ (Written(f)' <=> Written(f))
    BY <1>0, <1>10, TornAs
  <2>2. ASSUME NEW f \in 1..4, NEW g \in 1..4, f < g, Written(g)'
        PROVE  /\ model'[f] # Absent
               /\ Written(f)' => model'[f].run >= model'[g].run
               /\ \A h \in 1..4 : f < h /\ h < g /\ Written(f)' /\ model'[h] = Torn =>
                      model'[f].run > model'[g].run
    <3>1. g # cur + 1 /\ Written(g) /\ model'[g] = model[g]
      BY <2>1, <2>2
    <3>2. CASE f = cur + 1
      <4>1. model'[f] = Torn /\ ~Written(f)'
        BY <2>1, <3>2
      <4>2. QED
        BY <4>1, PipelineAssumption
    <3>3. CASE f # cur + 1
      <4>1. model'[f] = model[f] /\ (Written(f)' <=> Written(f))
        BY <2>1, <3>3
      <4>2. ASSUME NEW h \in 1..4, f < h, h < g, Written(f), model'[h] = Torn
            PROVE  model[f].run > model[g].run
        <5>1. CASE h = cur + 1
          <6>1. f <= cur /\ g > cur
            BY <2>1, <4>2, <5>1
          <6>2. model[f].run = trainings /\ model[g].run < trainings /\ model[g].run \in Nat
            BY <1>7, <2>1, <3>1, <6>1
          <6>3. QED
            BY <1>0, <6>2
        <5>2. CASE h # cur + 1
          <6>1. model[h] = Torn
            BY <2>1, <4>2, <5>2
          <6>2. QED
            BY <1>8, <2>2, <3>1, <4>2, <6>1
        <5>3. QED
          BY <5>1, <5>2
      <4>3. QED
        BY <1>8, <2>2, <3>1, <4>1, <4>2
    <3>4. QED
      BY <3>2, <3>3
  <2>3. QED
    BY <2>2 DEF Ordered
<1>11. CASE UNCHANGED vars
  BY <1>1, <1>11 DEF vars, disk
<1>12. QED
  BY <1>2, <1>3, <1>4, <1>5, <1>6, <1>9, <1>10, <1>11 DEF Next

(***************************************************************************)
(* What a prediction finds in flat files.                                  *)
(***************************************************************************)

LEMMA LineType ==
    ASSUME NEW lines \in Seq(StashLine), NEW i \in DOMAIN lines
    PROVE  lines[i].status \in Int /\ lines[i].tokens \in Seq(Tokens)
<1>1. lines[i] \in StashLine
  OBVIOUS
<1>2. QED
  BY <1>1 DEF StashLine

LEMMA StatusesFlat ==
    ASSUME NEW lines \in Seq(StashLine), OneCode(lines)
    PROVE  /\ Statuses(lines) \in Seq(Int) /\ DOMAIN Statuses(lines) = DOMAIN lines
           /\ \A i, j \in DOMAIN lines : Statuses(lines)[j] = lines[i].status
<1>1. \A i \in DOMAIN lines : lines[i].status \in Int
  BY LineType
<1>2. Len(lines) \in Nat /\ DOMAIN lines = 1..Len(lines)
  OBVIOUS
<1>3. Statuses(lines) = [i \in 1..Len(lines) |-> lines[i].status]
  BY <1>2 DEF Statuses
<1>4. Statuses(lines) \in Seq(Int)
  BY <1>1, <1>2, <1>3
<1>5. \A i, j \in DOMAIN lines : Statuses(lines)[j] = lines[i].status
  BY <1>2, <1>3 DEF OneCode
<1>6. QED
  BY <1>2, <1>3, <1>4, <1>5

\* No code lies beyond the codes of a sample of one code, nor is its own above them.
LEMMA CodesUnflagged ==
    ASSUME NEW lines \in Seq(StashLine), OneCode(lines), NEW k
    PROVE  /\ \A live : ~Beyond(live, Statuses(lines), k)
           /\ \A i \in DOMAIN lines : ~Above(lines[i].status, Statuses(lines), k)
<1> DEFINE s == Statuses(lines)
<1>1. /\ s \in Seq(Int) /\ DOMAIN s = DOMAIN lines
      /\ \A i, j \in DOMAIN lines : s[j] = lines[i].status
  BY StatusesFlat
<1> HIDE DEF s
<1>2. ASSUME NEW i \in DOMAIN lines
      PROVE  /\ ~Above(lines[i].status, s, k)
             /\ \A live : ~Beyond(live, s, k)
  <2>1. /\ lines[i].status \in Int /\ s # <<>>
        /\ \A j \in DOMAIN s : s[j] = lines[i].status
    BY <1>1, LineType
  <2>2. ~Above(lines[i].status, s, k)
    BY <1>1, <2>1, NeverAbove
  <2>3. \A live : ~Beyond(live, s, k)
    BY <1>1, <2>1, NeverBeyond
  <2>4. QED
    BY <2>2, <2>3
<1>3. CASE lines = <<>>
  <2>1. s = <<>>
    BY <1>1, <1>3
  <2>2. QED
    BY <1>3, <2>1 DEF Beyond, s
<1>4. CASE lines # <<>>
  <2>1. 1 \in DOMAIN lines
    BY <1>4
  <2>2. \A live : ~Beyond(live, s, k)
    BY <1>2, <2>1
  <2>3. QED
    BY <1>2, <2>2 DEF s
<1>5. QED
  BY <1>3, <1>4

\* Nor the characters of a column beyond those of a sample of one text.
LEMMA ColumnsUnflagged ==
    ASSUME NEW lines \in Seq(StashLine), OneText(lines),
           NEW i \in DOMAIN lines, NEW c \in DOMAIN lines[i].tokens, NEW k
    PROVE  /\ \A live : ~Beyond(live, Column(lines, c), k)
           /\ ~Above(lines[i].tokens[c], Column(lines, c), k)
<1> DEFINE s == Column(lines, c)
<1>1. s \in Seq(Tokens) /\ s # <<>> /\ \A j \in DOMAIN s : s[j] = lines[i].tokens[c]
  BY ColumnFlat DEF Values
<1>2. lines[i].tokens[c] \in Tokens
  <2> DEFINE t == lines[i].tokens
           Q == Tokens
  <2>1. t \in Seq(Q) /\ c \in DOMAIN t
    BY LineType
  <2> HIDE DEF t, Q
  <2>2. DOMAIN t = 1..Len(t) /\ \A j \in 1..Len(t) : t[j] \in Q
    BY <2>1
  <2>3. t[c] \in Q
    BY <2>1, <2>2
  <2>4. QED
    BY <2>3 DEF t, Q
<1> HIDE DEF s
<1>3. s \in Seq(Int) /\ lines[i].tokens[c] \in Int
  <2>1. lines[i].tokens[c] \in Int
    <3> DEFINE v == lines[i].tokens[c]
    <3>1. v \in Tokens
      BY <1>2
    <3> HIDE DEF v
    <3>2. v \in Int
      BY <3>1, TokensAre
    <3>3. QED
      BY <3>2 DEF v
  <2>2. Len(s) \in Nat /\ s = [j \in 1..Len(s) |-> s[j]]
    BY <1>1
  <2>3. \A j \in 1..Len(s) : s[j] \in Int
    BY <1>1, <2>1
  <2>4. QED
    BY <2>1, <2>2, <2>3
<1>4. \A live : ~Beyond(live, s, k)
  BY <1>1, <1>3, NeverBeyond
<1>5. ~Above(lines[i].tokens[c], s, k)
  BY <1>1, <1>3, NeverAbove
<1>6. QED
  BY <1>4, <1>5 DEF s

LEMMA ReportingStep ==
    ASSUME Inv, [Next]_vars
    PROVE  Reporting'
<1>0. Reporting
  BY DEF Inv
<1>1. ASSUME report' = NoReport \/ (report' = report /\ op # "idle") PROVE Reporting'
  BY <1>0, <1>1 DEF Reporting
<1>2. CASE StartScan \/ Probe \/ WriteJson \/ StartTransfer \/ TransferNothing \/ TransferFails
  BY <1>1, <1>2 DEF StartScan, Probe, WriteJson, StartTransfer, TransferNothing, TransferFails, Start
<1>3. CASE InsertRow \/ Commit \/ ReadRow \/ EndCompile \/ SaveModel \/ EndTrain
  BY <1>1, <1>3 DEF InsertRow, Commit, ReadRow, EndCompile, SaveModel, EndTrain
<1>4. CASE SaveChunk \/ CrashSavingChunk
  BY <1>1, <1>4 DEF SaveChunk, CrashSavingChunk, ChunkReady
<1>5. ASSUME NEW c \in Codes, StartCompile(c) PROVE Reporting'
  BY <1>1, <1>5 DEF StartCompile, Start
<1>6. ASSUME NEW k \in Factors, StartTrain(k) PROVE Reporting'
  BY <1>1, <1>6 DEF StartTrain, Start
<1>7. ASSUME NEW k \in Factors, Predict(k) PROVE Reporting'
  BY <1>7 DEF Predict, Reporting
<1>8. CASE Crash \/ CrashWritingJson \/ CrashSavingModel
  BY <1>1, <1>8 DEF Crash, CrashWritingJson, CrashSavingModel
<1>9. CASE UNCHANGED vars
  BY <1>0, <1>9 DEF vars, Reporting
<1>10. QED
  BY <1>2, <1>3, <1>4, <1>5, <1>6, <1>7, <1>8, <1>9 DEF Next

\* A written file holds lines of one code, and of one text if it was not cut.
LEMMA FileIs ==
    ASSUME Inv, NEW f \in 1..4, Written(f)
    PROVE  /\ model[f].sample \in Seq(StashLine) /\ OneCode(model[f].sample)
           /\ ~model[f].cut => Known(f) /\ OneText(model[f].sample)
<1>1. TypeOK /\ Regular(model[f].sample, model[f].cut)
  BY DEF Inv, Summaries
<1>2. model[f].sample \in Seq(StashLine)
  <2>1. model[f] \in Summary
    BY <1>1, WrittenType
  <2>2. QED
    BY <2>1 DEF Summary
<1>3. QED
  BY <1>1, <1>2 DEF Regular, Known

\* The flags of a prediction, each with its cause.
LEMMA CodeZIs ==
    ASSUME Inv, NEW k, TRUE \in CodeZ(Sample, k)
    PROVE  ~Written(1)
<1> SUFFICES ASSUME Written(1) PROVE FALSE
  OBVIOUS
<1> DEFINE s == model[1].sample
<1>1. s \in Seq(StashLine) /\ OneCode(s)
  BY FileIs
<1>2. \E i \in DOMAIN Sample : Beyond(<<Sample[i].status>>, Statuses(s), k)
  BY DEF CodeZ
<1> HIDE DEF s
<1>3. QED
  BY <1>1, <1>2, CodesUnflagged

LEMMA CodeHighIs ==
    ASSUME Inv, TRUE \in CodeHigh(Sample)
    PROVE  ~Written(2) \/ CodesOf(Sample) # CodesOf(model[2].sample)
<1> SUFFICES ASSUME Written(2), CodesOf(Sample) = CodesOf(model[2].sample) PROVE FALSE
  OBVIOUS
<1> DEFINE s == model[2].sample
           k == model[2].k
<1>1. s \in Seq(StashLine) /\ OneCode(s)
  BY FileIs
<1>2. PICK i \in DOMAIN Sample : Above(Sample[i].status, Statuses(s), k)
  BY DEF CodeHigh
<1>3. PICK j \in DOMAIN s : s[j].status = Sample[i].status
  BY DEF CodesOf
<1> HIDE DEF s, k
<1>4. ~Above(s[j].status, Statuses(s), k)
  BY <1>1, CodesUnflagged
<1>5. QED
  BY <1>2, <1>3, <1>4

LEMMA TokenZIs ==
    ASSUME Inv, NEW k, TRUE \in TokenZ(Sample, k)
    PROVE  Written(3) /\ model[3].cut
<1>1. Written(3)
  BY DEF TokenZ
<1>2. ASSUME ~model[3].cut PROVE FALSE
  <2> DEFINE s == model[3].sample
  <2>1. Known(3) /\ s \in Seq(StashLine) /\ OneText(s)
    BY <1>1, <1>2, FileIs
  <2>2. PICK c \in Columns(Sample[1], s) : Beyond(Column(Sample, c), Column(s, c), k)
    BY <1>1, <2>1 DEF TokenZ
  <2> HIDE DEF s
  <2>3. s # <<>> /\ c \in DOMAIN s[1].tokens
    BY <2>2 DEF Columns
  <2>4. 1 \in DOMAIN s
    BY <2>1, <2>3
  <2>5. \A live : ~Beyond(live, Column(s, c), k)
    BY <2>1, <2>3, <2>4, ColumnsUnflagged
  <2>6. QED
    BY <2>2, <2>5
<1>3. QED
  BY <1>1, <1>2

LEMMA TokenHighIs ==
    ASSUME Inv, TRUE \in TokenHigh(Sample)
    PROVE  Written(4) /\ (model[4].cut \/ model[4].sample # Sample)
<1>1. Written(4)
  BY DEF TokenHigh
<1>2. ASSUME ~model[4].cut, model[4].sample = Sample PROVE FALSE
  <2> DEFINE s == Sample
             k == model[4].k
  <2>1. Known(4) /\ s \in Seq(StashLine) /\ OneText(s)
    BY <1>1, <1>2, FileIs
  <2>2. PICK i \in DOMAIN s : \E c \in Columns(s[i], s) : Above(s[i].tokens[c], Column(s, c), k)
    BY <1>1, <1>2, <2>1 DEF TokenHigh
  <2>3. PICK c \in Columns(s[i], s) : Above(s[i].tokens[c], Column(s, c), k)
    BY <2>2
  <2> HIDE DEF s, k
  <2>4. c \in DOMAIN s[i].tokens
    BY <2>3 DEF Columns
  <2>5. ~Above(s[i].tokens[c], Column(s, c), k)
    BY <2>1, <2>4, ColumnsUnflagged
  <2>6. QED
    BY <2>3, <2>5
<1>3. QED
  BY <1>1, <1>2

LEMMA BaselineStep ==
    ASSUME Inv, [Next]_vars
    PROVE  BaselineIsFlat'
<1>0. BaselineIsFlat /\ Reporting
  BY DEF Inv
<1>1. ASSUME report' = NoReport \/ (report' = report /\ op # "idle") PROVE BaselineIsFlat'
  BY <1>0, <1>1 DEF Reporting, BaselineIsFlat
<1>2. CASE StartScan \/ Probe \/ WriteJson \/ StartTransfer \/ TransferNothing \/ TransferFails
  BY <1>1, <1>2 DEF StartScan, Probe, WriteJson, StartTransfer, TransferNothing, TransferFails, Start
<1>3. CASE InsertRow \/ Commit \/ ReadRow \/ EndCompile \/ SaveModel \/ EndTrain
  BY <1>1, <1>3 DEF InsertRow, Commit, ReadRow, EndCompile, SaveModel, EndTrain
<1>4. CASE SaveChunk \/ CrashSavingChunk
  BY <1>1, <1>4 DEF SaveChunk, CrashSavingChunk, ChunkReady
<1>5. ASSUME NEW c \in Codes, StartCompile(c) PROVE BaselineIsFlat'
  BY <1>1, <1>5 DEF StartCompile, Start
<1>6. ASSUME NEW k \in Factors, StartTrain(k) PROVE BaselineIsFlat'
  BY <1>1, <1>6 DEF StartTrain, Start
<1>7. CASE Crash \/ CrashWritingJson \/ CrashSavingModel
  BY <1>1, <1>7 DEF Crash, CrashWritingJson, CrashSavingModel
<1>8. ASSUME NEW k \in Factors, Predict(k) PROVE BaselineIsFlat'
  <2>1. PICK cz \in CodeZ(Sample, k), ch \in CodeHigh(Sample),
             tz \in TokenZ(Sample, k), th \in TokenHigh(Sample) :
            report' = [codeZ |-> cz, codeHigh |-> ch, tokenZ |-> tz, tokenHigh |-> th]
    BY <1>8 DEF Predict
  <2>2. /\ report'.codeZ = cz /\ report'.codeHigh = ch
        /\ report'.tokenZ = tz /\ report'.tokenHigh = th
    BY <2>1
  <2>3. cz \in BOOLEAN /\ ch \in BOOLEAN /\ tz \in BOOLEAN /\ th \in BOOLEAN
    BY DEF CodeZ, CodeHigh, TokenZ, TokenHigh, Unset
  <2>4. model' = model /\ Sample' = Sample
    BY <1>8 DEF Predict, disk, Sample
  <2>5. cz => ~Written(1)'
    <3>1. cz => ~Written(1)
      BY <2>3, CodeZIs
    <3>2. QED
      BY <2>4, <3>1 DEF Written
  <2>6. ch => (~Written(2) \/ CodesOf(Sample) # CodesOf(model[2].sample))'
    <3>1. ch => ~Written(2) \/ CodesOf(Sample) # CodesOf(model[2].sample)
      BY <2>3, CodeHighIs
    <3>2. Written(2)' <=> Written(2)
      BY <2>4 DEF Written
    <3>3. CodesOf(Sample)' = CodesOf(Sample)
      BY <2>4 DEF CodesOf
    <3>4. CodesOf(model[2].sample)' = CodesOf(model[2].sample)
      BY <2>4 DEF CodesOf
    <3>5. QED
      BY <3>1, <3>2, <3>3, <3>4
  <2>7. tz => (Written(3) /\ model[3].cut)'
    <3>1. tz => Written(3) /\ model[3].cut
      BY <2>3, TokenZIs
    <3>2. QED
      BY <2>4, <3>1 DEF Written
  <2>8. th => (Written(4) /\ (model[4].cut \/ model[4].sample # Sample))'
    <3>1. th => Written(4) /\ (model[4].cut \/ model[4].sample # Sample)
      BY <2>3, TokenHighIs
    <3>2. QED
      BY <2>4, <3>1 DEF Written
  <2>9. QED
    BY <2>2, <2>5, <2>6, <2>7, <2>8 DEF BaselineIsFlat
<1>9. CASE UNCHANGED vars
  <2>1. UNCHANGED <<report, model, stash>>
    BY <1>9 DEF vars, disk
  <2>2. Sample' = Sample
    BY <2>1 DEF Sample
  <2>3. QED
    <3>1. (BaselineIsFlat /\ UNCHANGED <<report, model>> /\ Sample' = Sample) => BaselineIsFlat'
      BY DEF BaselineIsFlat, Written, CodesOf
    <3>2. QED
      BY <1>0, <2>1, <2>2, <3>1
<1>10. QED
  BY <1>2, <1>3, <1>4, <1>5, <1>6, <1>7, <1>8, <1>9 DEF Next

(***************************************************************************)
(* The properties, from the invariant.                                     *)
(***************************************************************************)

LEMMA StepInv ==
    ASSUME Inv, [Next]_vars
    PROVE  Inv'
BY TypeStep, TransferredStep, CompiledStep, StashedStep, SummariesStep, TrainingStep,
   OrderedStep, ReportingStep, BaselineStep DEF Inv

\* The transferred rows: copies of the first file.
LEMMA TransfersWhole == Inv => WholeTransfers
BY DEF Inv, Transferred, WholeTransfers, Copies

\* Nothing is left to save, so the last chunk saved ends with the last row.
LEMMA StashLast == Inv => StashIsLastChunk
<1> SUFFICES ASSUME Inv, op = "compile", cur = Len(Matches(arg)), ~ChunkReady, cur > 0
             PROVE  stash = LastChunk(Matches(arg), cur, arg)
  BY DEF StashIsLastChunk, LastChunk, Size, PrintedPhrase
<1>1. TypeOK /\ Compiling
  BY DEF Inv, Compiled
<1>2. buf = <<>>
  BY DEF ChunkReady
<1>3. cur \in Nat /\ Len(buf) = 0
  BY <1>1, <1>2 DEF TypeOK, MemoryOK
<1>4. Saved = cur
  BY <1>3 DEF Saved
<1>5. QED
  BY <1>1, <1>4 DEF Compiling

\* Between two files of one training nothing is torn, nothing older.
LEMMA EndsAre == Inv => EndsAgree
<1> SUFFICES ASSUME Inv, Written(1), Written(4), model[1].run = model[4].run,
                    NEW f \in {2, 3}
             PROVE  Written(f) /\ model[f].run = model[1].run
  BY DEF EndsAgree
<1>1. TypeOK /\ Ordered
  BY DEF Inv
<1>2. f \in 1..4 /\ 1 \in 1..4 /\ 4 \in 1..4 /\ 1 < f /\ f < 4 /\ 1 < 4
  OBVIOUS
<1>3. model[1].run \in Nat /\ model[4].run \in Nat
  BY <1>1, <1>2, WrittenType
<1>4. model[f] # Absent
  BY <1>1, <1>2 DEF Ordered
<1>5. model[f] # Torn
  <2>1. model[f] = Torn => model[1].run > model[4].run
    BY <1>1, <1>2 DEF Ordered
  <2>2. QED
    BY <1>3, <2>1
<1>6. Written(f)
  BY <1>4, <1>5 DEF Written
<1>7. model[f].run \in Nat
  BY <1>1, <1>2, <1>6, WrittenType
<1>8. model[1].run >= model[f].run /\ model[f].run >= model[4].run
  BY <1>1, <1>2, <1>6 DEF Ordered
<1>9. QED
  BY <1>3, <1>6, <1>7, <1>8

\* The invariant holds in every state of every behaviour.
THEOREM InvHolds == Spec => []Inv
<1>1. Init => Inv
  BY InitInv
<1>2. Inv /\ [Next]_vars => Inv'
  BY StepInv
<1>3. QED
  BY <1>1, <1>2, PTL DEF Spec

\* Every variable keeps its type: what a JSON file, the table, the stash and
\* the four files hold is what the next command expects to read.
THEOREM TypeCorrect == Spec => []TypeOK
<1>1. Inv => TypeOK
  BY DEF Inv
<1>2. QED
  BY <1>1, InvHolds, PTL

\* Whatever was scanned, transferred, or lost in a crash, RequestLogs holds
\* the entries of the first JSON file, some number of times over.
THEOREM TransfersCorrect == Spec => []WholeTransfers
<1>1. QED
  BY TransfersWhole, InvHolds, PTL

\* For any number of rows and any chunk size, a compilation leaves the last
\* chunk in the stash, and in it the first row's characters only.
THEOREM StashCorrect == Spec => []StashIsLastChunk
<1>1. QED
  BY StashLast, InvHolds, PTL

\* Wherever a training crashed, the four files are of one training if the
\* first and the last are.
THEOREM EndsCorrect == Spec => []EndsAgree
<1>1. QED
  BY EndsAre, InvHolds, PTL

\* However long the stash, whatever its codes and phrases and wherever a crash
\* has cut it or a training's files, no flag of a prediction comes from a
\* deviation of what was compiled.
THEOREM BaselineCorrect == Spec => []BaselineIsFlat
<1>1. Inv => BaselineIsFlat
  BY DEF Inv
<1>2. QED
  BY <1>1, InvHolds, PTL

\* save_file reads no row beyond its end, and a training does only of a stash
\* a crash has cut.
THEOREM BoundsCorrect == Spec => InBounds
<1>1. Inv /\ [Next]_vars => [fault' # fault => op' = "train" /\ stashCut]_vars
  BY InBoundsStep
<1>2. QED
  BY <1>1, InvHolds, PTL DEF Spec, InBounds
=============================================================================
