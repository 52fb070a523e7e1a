------------------------- MODULE LatencyForestProofs -------------------------
(***************************************************************************)
(* Theorems about LatencyForest, for any latencies, numbers of trees and   *)
(* cuts: a tree keeps its rows while it grows, walks of a file that was    *)
(* written whole come to their end within the levels the training allowed, *)
(* a row of the training is walked to its leaf or right of it, and, for    *)
(* sub-samples of at most 8 rows, a small one finds no anomalies.          *)
(***************************************************************************)
EXTENDS LatencyForest, FiniteSetTheorems, SequenceTheorems, TLAPS

(***************************************************************************)
(* The inductive invariant.  That a walk ends depends on how the file was  *)
(* written, and that on what stands in a tree half built: a child not yet  *)
(* linked has its call among those to come.                                *)
(***************************************************************************)

Sides == {"left", "right"}
Nodes == [left : Int, right : Int, leaf : BOOLEAN, members : SUBSET Nat,
          split : Int, level : Nat]
Calls == [members : SUBSET Nat, level : Nat, parent : Int, side : Sides \cup {"root"}]

Child(n, side) == IF side = "left" THEN n.left ELSE n.right

\* Child c of node i (counted from 1) of t is numbered above it, one level down.
Below(t, i, c) == c \in i..(Len(t) - 1) /\ t[c + 1].level = t[i].level + 1

\* A finished tree of a training with L levels.
Sound(t, L) ==
    /\ t \in Seq(Nodes) /\ t # <<>> /\ t[1].level = 0
    /\ \A i \in 1..Len(t) :
         /\ t[i].level <= L
         /\ ~t[i].leaf => \A s \in Sides : Below(t, i, Child(t[i], s))

\* A call to come hangs below a node that is there.
CallOK(t, c, L) ==
    /\ c.level <= L
    /\ c.parent \in 0..(Len(t) - 1) /\ c.side \in Sides
    /\ c.level = t[c.parent + 1].level + 1

\* A tree half built: each child is linked, or has a call to come.
Growing(t, calls, L) ==
    /\ t \in Seq(Nodes) /\ calls \in Seq(Calls)
    /\ t = <<>> => Len(calls) = 1 /\ calls[1].parent = -1 /\ calls[1].level = 0
    /\ t # <<>> => t[1].level = 0 /\ \A k \in 1..Len(calls) : CallOK(t, calls[k], L)
    /\ \A i \in 1..Len(t) :
         /\ t[i].level <= L
         /\ ~t[i].leaf => \A s \in Sides :
              \/ Below(t, i, Child(t[i], s))
              \/ \E k \in 1..Len(calls) : calls[k].parent = i - 1 /\ calls[k].side = s

Training ==
    pc \in {"sample", "build"} =>
        /\ data \in Seq(Nat) /\ size \in Nat
        /\ forest \in Seq(Seq(Nodes))
        /\ \A n \in 1..Len(forest) : Sound(forest[n], Levels(size))
        /\ pc = "build" => Growing(tree, todo, Levels(size))

FileOK ==
    file # Absent =>
        /\ file.whole \in BOOLEAN
        /\ file.whole =>
             /\ file.size \in Nat /\ file.trees \in Seq(Seq(Nodes))
             /\ \A n \in 1..Len(file.trees) : Sound(file.trees[n], Levels(file.size))

Walking ==
    /\ pc \in {"walk", "dead"} => file # Absent
    /\ pc = "dead" => ~file.whole
    /\ pc = "walk" /\ file.whole =>
         /\ forest = file.trees /\ nth \in 1..Len(forest)
         /\ at \in 0..(Len(forest[nth]) - 1) /\ depth = Here.level

Inv ==
    /\ pc \in {"prompt", "sample", "build", "walk", "dead"}
    /\ Training /\ FileOK /\ Walking

(***************************************************************************)
(* The levels are counted, and a node that is not a leaf is above the last.*)
(***************************************************************************)

\* max_depth is a natural number.
LEMMA LevelsNat == ASSUME NEW s \in Nat PROVE Levels(s) \in Nat
<1>1. IsFiniteSet(0..s)
    BY FS_Interval
<1>2. IsFiniteSet({d \in 0..s : 2^d < s})
    BY <1>1, FS_Subset
<1> QED
    BY <1>2, FS_CardinalityType DEF Levels

\* The calls to come without their last one.
LEMMA FrontFacts ==
    ASSUME NEW S, NEW q \in Seq(S), q # <<>>
    PROVE  /\ Front(q) \in Seq(S) /\ Len(Front(q)) = Len(q) - 1
           /\ \A k \in 1..(Len(q) - 1) : Front(q)[k] = q[k]
<1>1. Len(q) \in Nat \ {0}
    BY EmptySeq
<1>2. \A k \in 1..(Len(q) - 1) : q[k] \in S
    BY <1>1, ElementOfSeq
<1>3. 1 \in Int /\ Len(q) - 1 \in Int
    BY <1>1
<1>4. /\ SubSeq(q, 1, Len(q) - 1) \in Seq(S)
      /\ Len(SubSeq(q, 1, Len(q) - 1)) = IF 1 <= Len(q) - 1 THEN Len(q) - 1 - 1 + 1 ELSE 0
      /\ \A k \in 1..(Len(q) - 1 - 1 + 1) : SubSeq(q, 1, Len(q) - 1)[k] = q[1 + k - 1]
    BY <1>2, <1>3, SubSeqProperties
<1> DEFINE G == SubSeq(q, 1, Len(q) - 1)
<1>5. Front(q) = G
    BY DEF Front
<1> HIDE DEF G
<1>6. Len(G) = Len(q) - 1
    <2> DEFINE p == Len(q)
    <2>1. p \in Nat /\ p # 0 /\ Len(G) = IF 1 <= p - 1 THEN p - 1 - 1 + 1 ELSE 0
        BY <1>1, <1>4 DEF G
    <2> HIDE DEF p, G
    <2>2. Len(G) = p - 1
        BY <2>1
    <2> QED
        BY <2>2 DEF p
<1>7. \A k \in 1..(Len(q) - 1) : G[k] = q[k]
    <2> TAKE k \in 1..(Len(q) - 1)
    <2>1. k \in 1..(Len(q) - 1 - 1 + 1) /\ 1 + k - 1 = k
        BY <1>1
    <2> QED
        BY <2>1, <1>4 DEF G
<1> QED
    BY <1>4, <1>5, <1>6, <1>7 DEF G

\* The last element of q gives way to the elements of r.
LEMMA ReplaceLast ==
    ASSUME NEW S, NEW q \in Seq(S), q # <<>>, NEW r \in Seq(S)
    PROVE  /\ Front(q) \o r \in Seq(S)
           /\ Len(Front(q) \o r) = Len(q) - 1 + Len(r)
           /\ \A k \in 1..(Len(q) - 1) : (Front(q) \o r)[k] = q[k]
           /\ \A k \in 1..Len(r) : (Front(q) \o r)[Len(q) - 1 + k] = r[k]
<1> DEFINE F == Front(q)
<1>1. Len(q) \in Nat \ {0} /\ Len(r) \in Nat
    BY EmptySeq
<1>2. F \in Seq(S) /\ Len(F) = Len(q) - 1 /\ \A k \in 1..(Len(q) - 1) : F[k] = q[k]
    BY FrontFacts
<1> HIDE DEF F
<1>3. /\ F \o r \in Seq(S) /\ Len(F \o r) = Len(F) + Len(r)
      /\ \A k \in 1..(Len(F) + Len(r)) :
            (F \o r)[k] = IF k <= Len(F) THEN F[k] ELSE r[k - Len(F)]
    BY <1>2, ConcatProperties
<1> QED
    BY <1>1, <1>2, <1>3, SMTT(30) DEF F

\* Adding a node keeps the others, but for the child link of the parent.
LEMMA GrownShape ==
    ASSUME tree \in Seq(Nodes), NEW c \in Calls, NEW n \in Nodes
    PROVE  /\ Grown(c, n) \in Seq(Nodes)
           /\ Len(Grown(c, n)) = Len(tree) + 1
           /\ Grown(c, n)[Len(tree) + 1] = n
           /\ \A j \in 1..Len(tree) :
                /\ Grown(c, n)[j].level = tree[j].level
                /\ Grown(c, n)[j].leaf = tree[j].leaf
                /\ Grown(c, n)[j].members = tree[j].members
                /\ Grown(c, n)[j].split = tree[j].split
                /\ \A s \in Sides :
                     Child(Grown(c, n)[j], s) =
                        IF c.parent = j - 1 /\ (s = "left" <=> c.side = "left")
                        THEN Len(tree) ELSE Child(tree[j], s)
<1> DEFINE i == Len(tree)
           linked(p) == IF c.side = "left" THEN [p EXCEPT !.left = i]
                                           ELSE [p EXCEPT !.right = i]
           e(j) == IF j = i + 1 THEN n
                   ELSE IF j = c.parent + 1 THEN linked(tree[j]) ELSE tree[j]
<1>1. i \in Nat /\ \A j \in 1..i : tree[j] \in Nodes
    OBVIOUS
<1>2. \A j \in 1..i : linked(tree[j]) \in Nodes
    <2> TAKE j \in 1..i
    <2> DEFINE p == tree[j]
    <2>1. p \in Nodes /\ i \in Int
        BY <1>1
    <2> HIDE DEF p
    <2>2. [p EXCEPT !.left = i] \in Nodes
        BY <2>1 DEF Nodes
    <2>3. [p EXCEPT !.right = i] \in Nodes
        BY <2>1 DEF Nodes
    <2>4. linked(p) \in Nodes
        BY <2>2, <2>3
    <2> QED
        BY <2>4 DEF p
<1>3. \A j \in 1..(i + 1) : e(j) \in Nodes
    BY <1>1, <1>2
<1>4. Grown(c, n) = [j \in 1..(i + 1) |-> e(j)]
    BY DEF Grown
<1> HIDE DEF e
<1>5. Grown(c, n) \in Seq(Nodes) /\ Len(Grown(c, n)) = i + 1
      /\ \A j \in 1..(i + 1) : Grown(c, n)[j] = e(j)
    BY <1>1, <1>3, <1>4
<1> USE DEF e
<1>6. Grown(c, n)[i + 1] = n
    BY <1>1, <1>5
<1>7. ASSUME NEW j \in 1..i
      PROVE  /\ e(j).level = tree[j].level /\ e(j).leaf = tree[j].leaf
             /\ e(j).members = tree[j].members /\ e(j).split = tree[j].split
             /\ \A s \in Sides : Child(e(j), s) =
                    IF c.parent = j - 1 /\ (s = "left" <=> c.side = "left")
                    THEN i ELSE Child(tree[j], s)
    <2>1. c.parent \in Int /\ tree[j] \in Nodes
        BY <1>1 DEF Calls
    <2>2. CASE c.parent = j - 1
        <3>1. e(j) = linked(tree[j])
            BY <2>1, <2>2, <1>1
        <3> QED
            BY <3>1, <2>1, <2>2 DEF Nodes, Child, Sides
    <2>3. CASE c.parent # j - 1
        <3>1. e(j) = tree[j]
            BY <2>1, <2>3, <1>1
        <3> QED
            BY <3>1, <2>3
    <2> QED
        BY <2>2, <2>3
<1> HIDE DEF e
<1>8. \A j \in 1..i : Grown(c, n)[j] = e(j)
    BY <1>1, <1>5
<1> QED
    BY <1>1, <1>5, <1>6, <1>7, <1>8

\* The calls that take the place of c, for the children of the node c made.
LEMMA GrowStep ==
    ASSUME NEW L \in Nat, Growing(tree, todo, L), todo # <<>>,
           NEW n \in Nodes, n.level = Last(todo).level,
           NEW rest \in Seq(Calls),
           \A k \in 1..Len(rest) :
              /\ rest[k].parent = Len(tree) /\ rest[k].side \in Sides
              /\ rest[k].level = n.level + 1 /\ rest[k].level <= L,
           ~n.leaf => \A s \in Sides : \E k \in 1..Len(rest) : rest[k].side = s
    PROVE  Growing(Grown(Last(todo), n), Front(todo) \o rest, L)
<1> DEFINE c == Last(todo)  t == Grown(c, n)  m == Len(todo)  calls == Front(todo) \o rest
           N == Len(tree)
<1>1. tree \in Seq(Nodes) /\ todo \in Seq(Calls) /\ N \in Nat /\ m \in Nat \ {0}
    BY DEF Growing
<1>2. c \in Calls /\ c = todo[m]
    BY <1>1 DEF Last
<1>3. /\ calls \in Seq(Calls) /\ Len(calls) = m - 1 + Len(rest)
      /\ \A k \in 1..(m - 1) : calls[k] = todo[k]
      /\ \A k \in 1..Len(rest) : calls[m - 1 + k] = rest[k]
    BY <1>1, ReplaceLast, SMTT(30)
<1> HIDE DEF c
<1>4. /\ t \in Seq(Nodes) /\ Len(t) = N + 1 /\ t[N + 1] = n
      /\ \A j \in 1..N :
           /\ t[j].level = tree[j].level /\ t[j].leaf = tree[j].leaf
           /\ \A s \in Sides :
                Child(t[j], s) = IF c.parent = j - 1 /\ (s = "left" <=> c.side = "left")
                                 THEN N ELSE Child(tree[j], s)
    <2>1. c \in Calls /\ tree \in Seq(Nodes)
        BY <1>1, <1>2
    <2> QED
        BY <2>1, GrownShape
<1>5. /\ tree = <<>> => N = 0 /\ m = 1 /\ c.level = 0
      /\ tree # <<>> => N > 0 /\ tree[1].level = 0
                        /\ \A k \in 1..m : CallOK(tree, todo[k], L)
      /\ c.level <= L /\ c.level \in Nat /\ n.level = c.level
    BY <1>1, <1>2 DEF Growing, CallOK, Calls, c
<1> HIDE DEF t, m, calls, N
<1>6. t # <<>> /\ t[1].level = 0
    <2>1. CASE tree = <<>>
        <3>1. N = 0 /\ Len(t) = 1 /\ t[1] = n /\ c.level = 0
            BY <2>1, <1>4, <1>5
        <3>2. t # <<>>
            <4> SUFFICES ASSUME t = <<>> PROVE FALSE
                OBVIOUS
            <4>1. Len(<<>>) = 0
                BY EmptySeq
            <4> QED
                BY <4>1, <3>1
        <3> QED
            BY <3>1, <3>2, <1>5
    <2>2. CASE tree # <<>>
        BY <2>2, <1>1, <1>4, <1>5
    <2> QED
        BY <2>1, <2>2
<1>7. ASSUME NEW k \in 1..Len(calls)
      PROVE  CallOK(t, calls[k], L)
    <2>1. CASE k \in 1..(m - 1)
        <3>1. tree # <<>> /\ CallOK(tree, todo[k], L) /\ calls[k] = todo[k]
            BY <2>1, <1>1, <1>3, <1>5
        <3>2. todo[k].parent + 1 \in 1..N
            BY <3>1, <1>1 DEF CallOK, N
        <3>3. t[todo[k].parent + 1].level = tree[todo[k].parent + 1].level
            BY <3>2, <1>4
        <3>4. todo[k].parent \in 0..(N - 1)
            BY <3>1 DEF CallOK, N
        <3>5. todo[k].parent \in 0..(Len(t) - 1)
            BY <3>4, <1>1, <1>4
        <3> QED
            BY <3>1, <3>3, <3>5 DEF CallOK
    <2>2. CASE k \notin 1..(m - 1)
        <3>1. PICK r \in 1..Len(rest) : k = m - 1 + r
            <4>1. k - (m - 1) \in 1..Len(rest)
                BY <2>2, <1>1, <1>3
            <4> QED
                BY <4>1, <1>1, <1>3
        <3>2. /\ calls[k] = rest[r] /\ rest[r].parent = N /\ rest[r].side \in Sides
              /\ rest[r].level = n.level + 1 /\ rest[r].level <= L
            BY <3>1, <1>3 DEF N
        <3> QED
            BY <3>2, <1>1, <1>4 DEF CallOK
    <2> QED
        BY <2>1, <2>2
<1>8. ASSUME NEW i \in 1..Len(t)
      PROVE  /\ t[i].level <= L
             /\ ~t[i].leaf => \A s \in Sides :
                  \/ Below(t, i, Child(t[i], s))
                  \/ \E k \in 1..Len(calls) : calls[k].parent = i - 1 /\ calls[k].side = s
    <2>1. CASE i = N + 1
        <3>1. t[i] = n /\ n.level <= L
            BY <2>1, <1>4, <1>5 DEF c
        <3>2. ASSUME ~n.leaf, NEW s \in Sides
              PROVE  \E k \in 1..Len(calls) : calls[k].parent = i - 1 /\ calls[k].side = s
            <4>1. PICK r \in 1..Len(rest) : rest[r].side = s
                BY <3>2
            <4>2. m - 1 + r \in 1..Len(calls) /\ calls[m - 1 + r] = rest[r]
                BY <1>1, <1>3
            <4>3. rest[r].parent = i - 1
                BY <2>1, <1>1 DEF N
            <4>4. calls[m - 1 + r].parent = i - 1 /\ calls[m - 1 + r].side = s
                BY <4>1, <4>2, <4>3
            <4> QED
                BY <4>2, <4>4
        <3> QED
            BY <3>1, <3>2
    <2>2. CASE i \in 1..N
        <3>1. t[i].level = tree[i].level /\ t[i].leaf = tree[i].leaf /\ tree[i].level <= L
            BY <2>2, <1>4 DEF Growing, N
        <3>2. ASSUME ~t[i].leaf, NEW s \in Sides
              PROVE  \/ Below(t, i, Child(t[i], s))
                     \/ \E k \in 1..Len(calls) : calls[k].parent = i - 1 /\ calls[k].side = s
            <4>1. CASE c.parent = i - 1 /\ c.side = s
                <5>1. Child(t[i], s) = N
                    BY <4>1, <2>2, <1>4
                <5>2. c.level = tree[i].level + 1
                    BY <4>1, <2>2, <1>1, <1>2, <1>5 DEF CallOK, N
                <5> QED
                    BY <5>1, <5>2, <2>2, <3>1, <1>1, <1>4 DEF Below, c
            <4>2. CASE ~(c.parent = i - 1 /\ c.side = s)
                <5>1. c.side \in Sides
                    <6>1. tree # <<>> /\ m \in 1..m
                        BY <2>2, <1>1, <1>5
                    <6>2. CallOK(tree, todo[m], L)
                        BY <6>1, <1>5
                    <6> QED
                        BY <6>2, <1>2 DEF CallOK
                <5>2. Child(t[i], s) = Child(tree[i], s)
                    BY <4>2, <5>1, <2>2, <1>4 DEF Sides
                <5>3. \/ Below(tree, i, Child(tree[i], s))
                      \/ \E k \in 1..m : todo[k].parent = i - 1 /\ todo[k].side = s
                    BY <2>2, <3>1, <3>2 DEF Growing, N, m
                <5>4. CASE Below(tree, i, Child(tree[i], s))
                    <6>1. Child(tree[i], s) + 1 \in 1..N
                        BY <5>4, <2>2, <1>1 DEF Below, N
                    <6> QED
                        BY <6>1, <5>2, <5>4, <3>1, <1>1, <1>4 DEF Below, N
                <5>5. CASE \E k \in 1..m : todo[k].parent = i - 1 /\ todo[k].side = s
                    <6>1. PICK k \in 1..m : todo[k].parent = i - 1 /\ todo[k].side = s
                        BY <5>5
                    <6>2. k \in 1..(m - 1)
                        BY <6>1, <4>2, <1>1, <1>2
                    <6>3. k \in 1..Len(calls) /\ calls[k] = todo[k]
                        BY <6>2, <1>1, <1>3
                    <6> QED
                        BY <6>1, <6>3
                <5> QED
                    BY <5>3, <5>4, <5>5
            <4> QED
                BY <4>1, <4>2
        <3> QED
            BY <3>1, <3>2
    <2> QED
        BY <2>1, <2>2, <1>1, <1>4
<1> QED
    BY <1>3, <1>4, <1>6, <1>7, <1>8 DEF Growing, c, t, calls

(***************************************************************************)
(* Training, one lemma for each step of a tree.                            *)
(***************************************************************************)

\* The invariant holds before any command.
LEMMA InitInv == Init => Inv
    BY DEF Init, Inv, Training, FileOK, Walking

\* A leaf takes over the members of its call: what Growing says is kept.
LEMMA LeafGrows ==
    ASSUME size \in Nat, Growing(tree, todo, Levels(size)), Leaf
    PROVE  Growing(tree', todo', Levels(size))
<1> DEFINE c == Last(todo)  n == Node(TRUE, c, 0)  rest == <<>>
<1>1. Levels(size) \in Nat
    BY LevelsNat
<1>2. todo # <<>> /\ tree' = Grown(c, n) /\ todo' = Front(todo)
    BY DEF Leaf
<1>3. todo \in Seq(Calls) /\ Front(todo) \in Seq(Calls)
    BY <1>2, FrontFacts DEF Growing
<1>4. c \in Calls
    BY <1>2, <1>3, EmptySeq, ElementOfSeq DEF Last
<1>5. n \in Nodes /\ n.level = c.level /\ n.leaf
    <2> HIDE DEF c
    <2> QED
        BY <1>4 DEF Node, Nodes, Calls
<1>6. rest \in Seq(Calls) /\ Len(rest) = 0 /\ Front(todo) \o rest = Front(todo)
    BY <1>3, EmptySeq, ConcatEmptySeq
<1> HIDE DEF n, rest
<1>7. \A k \in 1..Len(rest) : /\ rest[k].parent = Len(tree) /\ rest[k].side \in Sides
                              /\ rest[k].level = n.level + 1 /\ rest[k].level <= Levels(size)
    BY <1>6
<1>8. Growing(Grown(c, n), Front(todo) \o rest, Levels(size))
    BY <1>1, <1>2, <1>5, <1>6, <1>7, GrowStep
<1> QED
    BY <1>2, <1>6, <1>8 DEF n

\* A branch hands the members of its call to its two children: what Growing
\* says is kept.
LEMMA SplitGrows ==
    ASSUME size \in Nat, Growing(tree, todo, Levels(size)), Split
    PROVE  Growing(tree', todo', Levels(size))
<1> DEFINE c == Last(todo)  L == Levels(size)
<1>1. PICK cut \in Cuts(c.members) :
         LET below == {i \in c.members : data[i] < cut}
         IN  /\ tree' = Grown(c, Node(FALSE, c, CutKept(cut)))
             /\ todo' = Front(todo) \o
                    <<Call(AtLeast(cut, c.members), c.level + 1, Len(tree), "right"),
                      Call(below, c.level + 1, Len(tree), "left")>>
    BY DEF Split
<1> DEFINE below == {i \in c.members : data[i] < cut}
           above == AtLeast(cut, c.members)
           n == Node(FALSE, c, CutKept(cut))
           right == Call(above, c.level + 1, Len(tree), "right")
           left == Call(below, c.level + 1, Len(tree), "left")
           rest == <<right, left>>
<1>2. todo # <<>> /\ ~Stops(c) /\ L \in Nat
    BY LevelsNat DEF Split
<1>3. todo \in Seq(Calls) /\ tree \in Seq(Nodes) /\ Len(tree) \in Nat
    BY DEF Growing
<1>4. c \in Calls
    BY <1>2, <1>3, EmptySeq, ElementOfSeq DEF Last
<1>5. CutKept(cut) \in Int
    <2>1. cut \in Int
        <3> HIDE DEF c
        <3>1. PICK i \in c.members : cut \in UNION {data[i]..(data[j] - 1) : j \in c.members}
            BY <1>1 DEF Cuts
        <3>2. PICK j \in c.members : cut \in data[i]..(data[j] - 1)
            BY <3>1
        <3> QED
            BY <3>2
    <2>2. Unit \in Nat /\ Unit > 0
        BY LatencyForestAssumption
    <2> QED
        BY <2>1, <2>2 DEF CutKept
<1>6. n \in Nodes /\ n.level = c.level /\ ~n.leaf
    <2> HIDE DEF c
    <2> QED
        BY <1>4, <1>5 DEF Node, Nodes, Calls
<1>7. c.level + 1 <= L /\ c.level + 1 \in Nat /\ c.members \in SUBSET Nat
    <2> HIDE DEF c, L
    <2>1. c.level \in Nat /\ c.members \in SUBSET Nat /\ L \in Nat /\ ~(c.level >= L)
        BY <1>2, <1>4 DEF Calls, Stops, L
    <2> QED
        BY <2>1
<1>8. right \in Calls /\ left \in Calls
    <2>1. below \in SUBSET Nat /\ above \in SUBSET Nat
        BY <1>7 DEF AtLeast
    <2> HIDE DEF c, below, above
    <2> QED
        BY <1>3, <1>7, <2>1 DEF Calls, Call, Sides
<1>9. \A k \in 1..2 : /\ rest[k].parent = Len(tree) /\ rest[k].side \in Sides
                      /\ rest[k].level = n.level + 1 /\ rest[k].level <= L
    <2>1. \A r \in {right, left} : /\ r.parent = Len(tree) /\ r.side \in Sides
                                   /\ r.level = n.level + 1 /\ r.level <= L
        <3> HIDE DEF c, L, n, below, above
        <3> QED
            BY <1>6, <1>7 DEF Call, Sides
    <2> HIDE DEF right, left, n, L
    <2> QED
        BY <2>1
<1>10. \A s \in Sides : \E k \in 1..2 : rest[k].side = s
    <2>1. right.side = "right" /\ left.side = "left"
        BY DEF Call
    <2> HIDE DEF right, left
    <2> QED
        BY <2>1 DEF Sides
<1>11. rest \in Seq(Calls) /\ Len(rest) = 2
    <2> HIDE DEF right, left
    <2> QED
        BY <1>8
<1>12. tree' = Grown(c, n) /\ todo' = Front(todo) \o rest
    BY <1>1
<1> HIDE DEF n, rest, L
<1>13. /\ Growing(tree, todo, L)
       /\ \A k \in 1..Len(rest) : /\ rest[k].parent = Len(tree) /\ rest[k].side \in Sides
                                  /\ rest[k].level = n.level + 1 /\ rest[k].level <= L
       /\ ~n.leaf => \A s \in Sides : \E k \in 1..Len(rest) : rest[k].side = s
    BY <1>9, <1>10, <1>11 DEF L
<1>14. Growing(Grown(c, n), Front(todo) \o rest, L)
    BY <1>2, <1>6, <1>11, <1>13, GrowStep
<1> QED
    BY <1>12, <1>14 DEF L

\* A tree with no call to come is finished.
LEMMA GrownIsSound ==
    ASSUME NEW t, NEW L \in Nat, Growing(t, <<>>, L)
    PROVE  Sound(t, L)
<1>1. Len(<<>>) = 0
    BY EmptySeq
<1>2. t \in Seq(Nodes) /\ t # <<>> /\ t[1].level = 0
    BY <1>1 DEF Growing
<1>3. ASSUME NEW i \in 1..Len(t)
      PROVE  /\ t[i].level <= L
             /\ ~t[i].leaf => \A s \in Sides : Below(t, i, Child(t[i], s))
    BY <1>1, <1>3 DEF Growing
<1> QED
    BY <1>2, <1>3 DEF Sound

\* A new tree begins as one call, for its root.
LEMMA SampleGrows ==
    ASSUME data \in Seq(Nat), NEW L \in Nat, Sample
    PROVE  Growing(tree', todo', L)
<1>1. PICK rows \in SUBSET (DOMAIN data) : todo' = <<Call(rows, 0, -1, "root")>>
    BY DEF Sample
<1> DEFINE c == Call(rows, 0, -1, "root")
<1>2. c \in Calls /\ c.parent = -1 /\ c.level = 0
    <2>1. rows \in SUBSET Nat
        BY <1>1
    <2> QED
        BY <2>1 DEF Call, Calls
<1> HIDE DEF c
<1>3. todo' \in Seq(Calls) /\ Len(todo') = 1 /\ todo'[1] = c
    BY <1>1, <1>2 DEF c
<1>4. tree' = <<>> /\ tree' \in Seq(Nodes) /\ Len(tree') = 0
    BY EmptySeq DEF Sample
<1> QED
    BY <1>2, <1>3, <1>4 DEF Growing

\* Every step of a training keeps what is known of its trees.
LEMMA TrainingStep ==
    ASSUME Inv, Train
    PROVE  Training'
<1>1. ASSUME NEW d \in Datasets, NEW s \in SubSamples, NEW n \in TreeCounts, StartTrain(d, s, n)
      PROVE  Training'
    <2>1. data' \in Seq(Nat) /\ size' \in Nat
        <3>1. d \in Seq(Nat) /\ s \in Int
            BY LatencyForestAssumption
        <3> QED
            BY <1>1, <3>1 DEF StartTrain
    <2>2. pc' = "sample" /\ forest' = <<>> /\ forest' \in Seq(Seq(Nodes)) /\ Len(forest') = 0
        BY <1>1, EmptySeq DEF StartTrain
    <2> QED
        BY <2>1, <2>2 DEF Training
<1>2. ASSUME pc \in {"sample", "build"}
      PROVE  /\ data \in Seq(Nat) /\ size \in Nat /\ Levels(size) \in Nat
             /\ forest \in Seq(Seq(Nodes))
             /\ \A n \in 1..Len(forest) : Sound(forest[n], Levels(size))
             /\ pc = "build" => Growing(tree, todo, Levels(size))
    BY <1>2, LevelsNat DEF Inv, Training
<1>3. CASE Sample
    <2>1. pc = "sample" /\ pc' = "build" /\ UNCHANGED <<data, size, forest>>
        BY <1>3 DEF Sample
    <2>2. Growing(tree', todo', Levels(size))
        BY <1>2, <1>3, <2>1, SampleGrows
    <2> QED
        BY <1>2, <2>1, <2>2 DEF Training
<1>4. CASE Leaf
    <2>1. pc = "build" /\ pc' = "build" /\ UNCHANGED <<data, size, forest>>
        BY <1>4 DEF Leaf
    <2>2. Growing(tree', todo', Levels(size))
        BY <1>2, <1>4, <2>1, LeafGrows
    <2> QED
        BY <1>2, <2>1, <2>2 DEF Training
<1>5. CASE Split
    <2>1. pc = "build" /\ pc' = "build" /\ UNCHANGED <<data, size, forest>>
        BY <1>5 DEF Split
    <2>2. Growing(tree', todo', Levels(size))
        BY <1>2, <1>5, <2>1, SplitGrows
    <2> QED
        BY <1>2, <2>1, <2>2 DEF Training
<1>6. CASE TreeDone
    <2>1. /\ pc = "build" /\ pc' = "sample" /\ UNCHANGED <<data, size>>
          /\ forest' = Append(forest, tree) /\ todo = <<>>
        BY <1>6 DEF TreeDone
    <2>2. Sound(tree, Levels(size))
        BY <1>2, <2>1, GrownIsSound
    <2>3. tree \in Seq(Nodes)
        BY <2>2 DEF Sound
    <2>4. /\ forest' \in Seq(Seq(Nodes)) /\ Len(forest') = Len(forest) + 1
          /\ \A n \in 1..Len(forest') :
                forest'[n] = IF n <= Len(forest) THEN forest[n] ELSE tree
        <3> DEFINE S == Seq(Nodes)
        <3> HIDE DEF S
        <3>1. forest \in Seq(S) /\ tree \in S
            BY <1>2, <2>1, <2>3 DEF S
        <3> QED
            BY <3>1, <2>1, AppendProperties DEF S
    <2>5. \A n \in 1..Len(forest') : Sound(forest'[n], Levels(size))
        <3> TAKE n \in 1..Len(forest')
        <3>1. CASE n <= Len(forest)
            BY <3>1, <1>2, <2>1, <2>4
        <3>2. CASE ~(n <= Len(forest))
            BY <3>2, <2>2, <2>4
        <3> QED
            BY <3>1, <3>2
    <2> QED
        BY <1>2, <2>1, <2>4, <2>5 DEF Training
<1>7. CASE WriteNothing \/ WriteTrees \/ CrashWriting
    BY <1>7 DEF WriteNothing, WriteTrees, CrashWriting, Return, Training
<1> QED
    BY <1>1, <1>3, <1>4, <1>5, <1>6, <1>7 DEF Train

\* The file is written from finished trees, or marked as cut.
LEMMA FileStep ==
    ASSUME Inv, Train
    PROVE  FileOK' /\ Walking' /\ pc' \in {"prompt", "sample", "build"}
<1>1. pc \in {"prompt", "sample", "build"} /\ pc' \in {"prompt", "sample", "build"}
    BY DEF Train, StartTrain, Sample, Leaf, Split, TreeDone, WriteNothing, WriteTrees,
           CrashWriting, Trained, Return
<1>2. Walking'
    BY <1>1 DEF Walking
<1>3. ASSUME UNCHANGED file PROVE FileOK'
    BY <1>3 DEF Inv, FileOK
<1>4. ASSUME WriteTrees PROVE FileOK'
    <2>1. /\ file'.whole = TRUE /\ file'.size = size /\ file'.trees = forest
          /\ pc = "sample"
        BY <1>4 DEF WriteTrees, Trained
    <2> QED
        BY <2>1 DEF Inv, Training, FileOK
<1>5. ASSUME CrashWriting PROVE FileOK'
    <2>1. file'.whole = FALSE
        BY <1>5 DEF CrashWriting
    <2> QED
        BY <2>1 DEF FileOK
<1>6. UNCHANGED file \/ WriteTrees \/ CrashWriting
    BY DEF Train, StartTrain, Sample, Leaf, Split, TreeDone, WriteNothing
<1> QED
    BY <1>1, <1>2, <1>3, <1>4, <1>5, <1>6

(***************************************************************************)
(* Prediction.                                                             *)
(***************************************************************************)

\* Every tree of a whole file has a root, at level 0, where a walk begins.
LEMMA RootThere ==
    ASSUME FileOK, file # Absent, file.whole, NEW n \in 1..Len(file.trees)
    PROVE  0 \in 0..(Len(file.trees[n]) - 1) /\ file.trees[n][1].level = 0
<1>1. Sound(file.trees[n], Levels(file.size))
    BY DEF FileOK
<1> DEFINE t == file.trees[n]
<1>2. t \in Seq(Nodes) /\ t # <<>> /\ t[1].level = 0
    BY <1>1 DEF Sound
<1> HIDE DEF t
<1>3. Len(t) \in Nat \ {0}
    BY <1>2, EmptySeq
<1> QED
    BY <1>2, <1>3 DEF t

\* In a whole file, what the walk stands on.
LEMMA WalkStands ==
    ASSUME Inv, pc = "walk", file.whole
    PROVE  /\ file # Absent /\ forest = file.trees /\ nth \in 1..Len(forest)
           /\ file.size \in Nat
           /\ Inside /\ depth = Here.level /\ Here \in Nodes /\ Here = forest[nth][at + 1]
           /\ Sound(forest[nth], Levels(file.size))
<1>1. /\ file # Absent /\ forest = file.trees /\ nth \in 1..Len(forest)
      /\ at \in 0..(Len(forest[nth]) - 1) /\ depth = Here.level
    BY DEF Inv, Walking
<1>2. Sound(forest[nth], Levels(file.size)) /\ file.size \in Nat
    BY <1>1 DEF Inv, FileOK
<1> DEFINE t == forest[nth]
<1>3. t \in Seq(Nodes) /\ Here = t[at + 1]
    BY <1>2 DEF Sound, Here
<1> HIDE DEF t
<1>4. t[at + 1] \in Nodes
    <2>1. at \in 0..(Len(t) - 1) /\ Len(t) \in Nat
        BY <1>1, <1>3 DEF t
    <2>2. at + 1 \in 1..Len(t)
        BY <2>1
    <2> QED
        BY <2>2, <1>3
<1> QED
    BY <1>1, <1>2, <1>3, <1>4 DEF Inside, t

\* The end of a path leads to the root of the next tree, or to the prompt.
LEMMA PathDoneStep ==
    ASSUME Inv, pc = "walk", NEW l, PathDone(l), UNCHANGED file
    PROVE  Walking' /\ pc' \in {"prompt", "walk"}
<1>1. CASE nth < Len(forest)
    <2>1. nth' = nth + 1 /\ at' = 0 /\ depth' = 0 /\ UNCHANGED <<pc, forest>>
        BY <1>1 DEF PathDone
    <2>2. file # Absent
        BY DEF Inv, Walking
    <2>3. CASE file.whole
        <3>1. /\ forest = file.trees /\ nth \in 1..Len(forest) /\ Len(forest) \in Nat
              /\ FileOK
            BY <2>3, WalkStands DEF Inv, FileOK
        <3>2. nth + 1 \in 1..Len(forest)
            BY <1>1, <3>1
        <3>3. 0 \in 0..(Len(forest[nth + 1]) - 1) /\ forest[nth + 1][1].level = 0
            BY <2>2, <2>3, <3>1, <3>2, RootThere
        <3>4. Here' = forest[nth + 1][1]
            BY <2>1 DEF Here
        <3> QED
            BY <2>1, <2>2, <3>1, <3>2, <3>3, <3>4 DEF Walking
    <2>4. CASE ~file.whole
        BY <2>1, <2>2, <2>4 DEF Walking
    <2> QED
        BY <2>1, <2>3, <2>4
<1>2. CASE ~(nth < Len(forest))
    BY <1>2 DEF PathDone, Walking
<1> QED
    BY <1>1, <1>2

\* In a whole file a step down goes to a node one level deeper.
LEMMA WalkDownStep ==
    ASSUME Inv, WalkDown
    PROVE  Walking' /\ pc' \in {"walk", "dead"}
<1>1. pc = "walk" /\ file # Absent /\ UNCHANGED file /\ Here.leaf # TRUE
    BY DEF WalkDown, Inv, Walking
<1>2. PICK child \in Turns(Here) :
         IF child = 0
         THEN /\ pc' = "dead" /\ forest' = <<>> /\ NotWalking
         ELSE /\ at' = child /\ depth' = depth + 1
              /\ UNCHANGED <<pc, forest, ask, x, nth, total>>
    BY DEF WalkDown
<1>3. pc' \in {"walk", "dead"}
    BY <1>1, <1>2
<1>4. CASE ~file.whole
    BY <1>1, <1>3, <1>4 DEF Walking
<1>5. CASE file.whole
    <2> DEFINE t == forest[nth]
    <2>1. /\ forest = file.trees /\ nth \in 1..Len(forest) /\ at \in 0..(Len(t) - 1)
          /\ depth = Here.level /\ Here \in Nodes /\ Here = t[at + 1]
          /\ Sound(t, Levels(file.size))
        BY <1>1, <1>5, WalkStands DEF Inside
    <2>2. ~Here.leaf
        BY <1>1, <2>1 DEF Nodes
    <2>3. \E s \in Sides : child = Child(Here, s)
        BY <1>2 DEF Turns, Child, Sides
    <2>4. Len(t) \in Nat
        BY <2>1 DEF Sound
    <2> HIDE DEF t
    <2>5. at + 1 \in 1..Len(t)
        BY <2>1, <2>4
    <2>6. \A s \in Sides : Below(t, at + 1, Child(t[at + 1], s))
        BY <2>1, <2>2, <2>5 DEF Sound
    <2>7. child \in (at + 1)..(Len(t) - 1) /\ t[child + 1].level = Here.level + 1
        BY <2>1, <2>3, <2>6 DEF Below
    <2>8. child # 0 /\ child \in 0..(Len(t) - 1)
        BY <2>1, <2>4, <2>7
    <2>9. at' = child /\ depth' = depth + 1 /\ UNCHANGED <<pc, forest, nth>>
        BY <1>2, <2>8
    <2>10. Here' = t[child + 1]
        BY <2>9 DEF Here, t
    <2> QED
        BY <1>1, <2>1, <2>7, <2>8, <2>9, <2>10 DEF Walking, t
<1> QED
    BY <1>3, <1>4, <1>5

\* A prediction leaves the file as it is.
LEMMA PredictKeepsFile == Predict => UNCHANGED file
<1> SUFFICES ASSUME Predict PROVE UNCHANGED file
    OBVIOUS
<1>1. ASSUME NEW s \in SubSamples, NEW l \in Live, StartPredict(s, l) PROVE UNCHANGED file
    BY <1>1 DEF StartPredict
<1>2. CASE LoadFails \/ Restart
    BY <1>2 DEF LoadFails, Restart
<1>3. CASE WalkOut
    <2>1. UNCHANGED <<making, file, trainings>>
        BY <1>3 DEF WalkOut
    <2> QED
        BY <2>1
<1>4. CASE WalkLeaf
    <2>1. UNCHANGED <<making, file, trainings>>
        BY <1>4 DEF WalkLeaf
    <2> QED
        BY <2>1
<1>5. CASE WalkDown
    BY <1>5 DEF WalkDown
<1> QED
    BY <1>1, <1>2, <1>3, <1>4, <1>5 DEF Predict

\* Every step of a prediction keeps what is known of its walk.
LEMMA PredictStep ==
    ASSUME Inv, Predict
    PROVE  Training' /\ FileOK' /\ Walking' /\ pc' \in {"prompt", "walk", "dead"}
<1>1. UNCHANGED file
    BY PredictKeepsFile
<1>2. FileOK'
    BY <1>1 DEF Inv, FileOK
<1>3. ASSUME LoadFails \/ Restart
      PROVE  Walking' /\ pc' = "prompt"
    BY <1>3 DEF LoadFails, Restart, Walking
<1>4. ASSUME NEW s \in SubSamples, NEW l \in Live, StartPredict(s, l)
      PROVE  Walking' /\ pc' = "walk"
    <2>1. /\ forest' = file.trees /\ nth' = 1 /\ at' = 0 /\ depth' = 0 /\ pc' = "walk"
          /\ file # Absent /\ file.trees # <<>>
        BY <1>4 DEF StartPredict, Loadable
    <2>2. CASE ~file.whole
        BY <2>1, <2>2, <1>1 DEF Walking
    <2>3. CASE file.whole
        <3>1. FileOK /\ file.trees \in Seq(Seq(Nodes))
            BY <2>1, <2>3 DEF Inv, FileOK
        <3>2. 1 \in 1..Len(file.trees)
            <4>1. Len(file.trees) \in Nat \ {0}
                BY <2>1, <3>1, EmptySeq
            <4> QED
                BY <4>1
        <3>3. 0 \in 0..(Len(file.trees[1]) - 1) /\ file.trees[1][1].level = 0
            BY <2>1, <2>3, <3>1, <3>2, RootThere
        <3>4. Here' = file.trees[1][1]
            BY <2>1 DEF Here
        <3> QED
            BY <2>1, <3>2, <3>3, <3>4, <1>1 DEF Walking
    <2> QED
        BY <2>1, <2>2, <2>3
<1>5. ASSUME WalkOut
      PROVE  Walking' /\ pc' \in {"prompt", "walk", "dead"}
    BY <1>5, <1>1, PathDoneStep DEF WalkOut
<1>6. ASSUME WalkLeaf
      PROVE  Walking' /\ pc' \in {"prompt", "walk", "dead"}
    BY <1>6, <1>1, PathDoneStep DEF WalkLeaf
<1>7. ASSUME WalkDown
      PROVE  Walking' /\ pc' \in {"prompt", "walk", "dead"}
    BY <1>7, WalkDownStep
<1>8. Walking' /\ pc' \in {"prompt", "walk", "dead"}
    BY <1>3, <1>4, <1>5, <1>6, <1>7 DEF Predict
<1>9. Training'
    BY <1>8 DEF Training
<1> QED
    BY <1>2, <1>8, <1>9

\* Every step keeps the invariant.
LEMMA NextInv ==
    ASSUME Inv, [Next]_vars
    PROVE  Inv'
<1>1. CASE Train
    BY <1>1, TrainingStep, FileStep DEF Inv
<1>2. CASE Predict
    BY <1>2, PredictStep DEF Inv
<1>3. CASE UNCHANGED vars
    <2>1. /\ UNCHANGED <<pc, data, size, tree, todo, forest, file, nth, at, depth>>
          /\ Here' = Here
        BY <1>3 DEF vars, making, walking, Here
    <2> QED
        BY <2>1 DEF Inv, Training, FileOK, Walking
<1> QED
    BY <1>1, <1>2, <1>3 DEF Next

\* What is known of the trees being grown, of the file and of the walk holds
\* in every reachable state of a training and a prediction.
THEOREM InductiveInvariant == Spec => []Inv
<1>1. Init => Inv
    BY InitInv
<1>2. Inv /\ [Next]_vars => Inv'
    BY NextInv
<1> QED
    BY <1>1, <1>2, PTL DEF Spec

(***************************************************************************)
(* Where the rows of a tree are.  While it grows each is in one leaf or in *)
(* one call to come, each branch has handed its rows to its two sides, and *)
(* what was handed left is dealt with before what was handed right: so the *)
(* leaves of a left subtree are numbered below the right child.            *)
(***************************************************************************)

\* The rows a tree is made of: those of its root, or of the call for it.
RootRows(t, calls) == IF t = <<>> THEN calls[1].members ELSE t[1].members

\* The leaves that took row i, and the calls to come that have it.
Took(t, i) == {j \in DOMAIN t : t[j].leaf /\ i \in t[j].members}
Waits(calls, i) == {k \in DOMAIN calls : i \in calls[k].members}

OnePlace(t, calls, i) ==
    \/ Waits(calls, i) = {} /\ \E j \in DOMAIN t : Took(t, i) = {j}
    \/ Took(t, i) = {} /\ \E k \in DOMAIN calls : Waits(calls, i) = {k}

\* Call k is for side s of node p, counted from 1.
IsFor(calls, k, p, s) == calls[k].parent = p - 1 /\ calls[k].side = s

\* Row i was handed to side s of node p.
HandedTo(t, calls, p, s, i) ==
    \/ Child(t[p], s) # 0 /\ i \in t[Child(t[p], s) + 1].members
    \/ \E k \in DOMAIN calls : IsFor(calls, k, p, s) /\ i \in calls[k].members

\* Every node has rows of the root, and the root rows of the data.
Within(t, calls, d) ==
    /\ RootRows(t, calls) \subseteq DOMAIN d
    /\ \A j \in DOMAIN t : t[j].members \subseteq RootRows(t, calls)
    /\ \A k \in DOMAIN calls : calls[k].members \subseteq RootRows(t, calls)

Kept(t, calls) == \A i \in RootRows(t, calls) : OnePlace(t, calls, i)

\* Node c, counted from 0, is the child of one node, at one side.
OneParent(t, c) ==
    \E p \in DOMAIN t : \E s \in Sides :
        /\ Child(t[p], s) = c
        /\ \A q \in DOMAIN t : \A r \in Sides : Child(t[q], r) = c => q = p /\ r = s

\* A link that is still to be made is 0, and one call is to make it.
Linking(t, calls) ==
    /\ \A p \in DOMAIN t : \A s \in Sides :
           /\ Child(t[p], s) \in -1..(Len(t) - 1)
           /\ t[p].leaf <=> Child(t[p], s) = -1
    /\ t # <<>> => \A k \in DOMAIN calls :
           /\ Child(t[calls[k].parent + 1], calls[k].side) = 0
           /\ \A h \in DOMAIN calls : IsFor(calls, h, calls[k].parent + 1, calls[k].side) => h = k
    /\ \A c \in 1..(Len(t) - 1) : OneParent(t, c)

\* Each row of a branch went to a side, and left if it is below the cut kept.
HandedOn(t, calls, d) ==
    \A p \in DOMAIN t : ~t[p].leaf => \A i \in t[p].members :
        /\ HandedTo(t, calls, p, "left", i) \/ HandedTo(t, calls, p, "right", i)
        /\ d[i] < t[p].split * Unit => HandedTo(t, calls, p, "left", i)

\* Row i, which went left at p, is in a leaf numbered (from 0) below the right
\* child, or in one or in a call that comes before the one for that child.
Earlier(t, calls, p, i) ==
    /\ t[p].right # 0 => \E j \in Took(t, i) : j <= t[p].right
    /\ \A k \in DOMAIN calls : IsFor(calls, k, p, "right") =>
           Took(t, i) # {} \/ \E h \in Waits(calls, i) : h > k

LeftFirst(t, calls) ==
    \A p \in DOMAIN t : ~t[p].leaf =>
        /\ t[p].left = 0 => t[p].right = 0
        /\ \A k, h \in DOMAIN calls :
               IsFor(calls, k, p, "left") /\ IsFor(calls, h, p, "right") => h < k
        /\ t[p].left # 0 => \A i \in t[t[p].left + 1].members : Earlier(t, calls, p, i)

Placing(t, calls, d) ==
    /\ Within(t, calls, d) /\ Kept(t, calls) /\ Linking(t, calls)
    /\ HandedOn(t, calls, d) /\ LeftFirst(t, calls)
Placed(t, d) == Placing(t, <<>>, d)

\* A walk for the latency of a row stands where the row was handed, or above
\* the row's leaf.
OnTheWay(i) ==
    \/ i \in Here.members
    \/ \E j \in Took(forest[nth], i) : j <= at

PlacesMade ==
    pc \in {"sample", "build"} =>
        /\ \A n \in 1..Len(forest) : Placed(forest[n], data)
        /\ pc = "build" => Placing(tree, todo, data)

PlacesFiled ==
    file # Absent => (file.whole =>
        /\ file.data \in Seq(Nat)
        /\ \A n \in 1..Len(file.trees) : Placed(file.trees[n], file.data))

Following ==
    pc = "walk" => (file.whole =>
        \A i \in DOMAIN file.data :
            x = file.data[i] /\ i \in forest[nth][1].members => OnTheWay(i))

Places == PlacesMade /\ PlacesFiled /\ Following

\* The call for a child of node q, counted from 0.
LEMMA IsForNext ==
    ASSUME NEW calls, NEW k, NEW q \in Int, NEW s
    PROVE  IsFor(calls, k, q + 1, s) <=> calls[k].parent = q /\ calls[k].side = s
<1> DEFINE p == q + 1
<1>1. p - 1 = q
    OBVIOUS
<1> HIDE DEF p
<1>2. IsFor(calls, k, p, s) <=> calls[k].parent = q /\ calls[k].side = s
    BY <1>1 DEF IsFor
<1> QED
    BY <1>2 DEF p

\* The two calls a branch n, numbered N from 0, leaves in place of its own.
Halves(n, rest, N) ==
    /\ n.left = 0 /\ n.right = 0 /\ Len(rest) = 2
    /\ rest[1].side = "right" /\ rest[2].side = "left"
    /\ rest[1].parent = N /\ rest[2].parent = N
    /\ rest[1].members \cup rest[2].members = n.members
    /\ rest[1].members \cap rest[2].members = {}

\* u and v are t and calls when the last call has made node n and left rest.
Replaces(t, calls, n, rest, u, v) ==
    /\ t \in Seq(Nodes) /\ u \in Seq(Nodes) /\ calls \in Seq(Calls) /\ v \in Seq(Calls)
    /\ n \in Nodes /\ rest \in Seq(Calls)
    /\ Len(calls) > 0 /\ n.members = calls[Len(calls)].members
    /\ t = <<>> => Len(calls) = 1
    /\ t # <<>> => \A k \in DOMAIN calls :
           calls[k].parent \in 0..(Len(t) - 1) /\ calls[k].side \in Sides
    /\ Len(u) = Len(t) + 1 /\ u[Len(t) + 1] = n
    /\ \A j \in 1..Len(t) :
         /\ u[j].leaf = t[j].leaf /\ u[j].members = t[j].members /\ u[j].split = t[j].split
         /\ \A s \in Sides : Child(u[j], s) =
                IF IsFor(calls, Len(calls), j, s) THEN Len(t) ELSE Child(t[j], s)
    /\ Len(v) = Len(calls) - 1 + Len(rest)
    /\ \A k \in 1..(Len(calls) - 1) : v[k] = calls[k]
    /\ \A k \in 1..Len(rest) : v[Len(calls) - 1 + k] = rest[k]
    /\ n.leaf => n.left = -1 /\ n.right = -1 /\ Len(rest) = 0
    /\ ~n.leaf => Halves(n, rest, Len(t))

\* The indices of the new tree and calls, in terms of the old ones.
LEMMA Indices ==
    ASSUME NEW t, NEW calls, NEW n, NEW rest, NEW u, NEW v, Replaces(t, calls, n, rest, u, v)
    PROVE  /\ Len(t) \in Nat /\ Len(calls) \in Nat \ {0}
           /\ DOMAIN t = 1..Len(t) /\ DOMAIN u = 1..(Len(t) + 1)
           /\ DOMAIN calls = 1..Len(calls) /\ DOMAIN v = 1..Len(v)
           /\ n.leaf => Len(v) = Len(calls) - 1
           /\ ~n.leaf => /\ Len(v) = Len(calls) + 1 /\ Halves(n, rest, Len(t))
                         /\ v[Len(calls)] = rest[1] /\ v[Len(calls) + 1] = rest[2]
<1>1. /\ Len(t) \in Nat /\ Len(calls) \in Nat \ {0} /\ Len(v) \in Nat /\ Len(rest) \in Nat
      /\ DOMAIN t = 1..Len(t) /\ DOMAIN u = 1..Len(u)
      /\ DOMAIN calls = 1..Len(calls) /\ DOMAIN v = 1..Len(v)
    BY LenProperties DEF Replaces
<1>2. Len(u) = Len(t) + 1 /\ Len(v) = Len(calls) - 1 + Len(rest)
    BY DEF Replaces
<1>3. ASSUME n.leaf
      PROVE  Len(v) = Len(calls) - 1
    BY <1>1, <1>2, <1>3 DEF Replaces
<1>4. ASSUME ~n.leaf
      PROVE  /\ Len(v) = Len(calls) + 1 /\ Halves(n, rest, Len(t))
             /\ v[Len(calls)] = rest[1] /\ v[Len(calls) + 1] = rest[2]
    <2>1. Halves(n, rest, Len(t)) /\ Len(rest) = 2
        BY <1>4 DEF Replaces, Halves
    <2>2. \A k \in 1..Len(rest) : v[Len(calls) - 1 + k] = rest[k]
        BY DEF Replaces
    <2>3. v[Len(calls) - 1 + 1] = rest[1] /\ v[Len(calls) - 1 + 2] = rest[2]
        BY <2>1, <2>2
    <2>4. Len(calls) - 1 + 1 = Len(calls) /\ Len(calls) - 1 + 2 = Len(calls) + 1
        BY <1>1
    <2> QED
        BY <1>1, <1>2, <2>1, <2>3, <2>4
<1> QED
    BY <1>1, <1>2, <1>3, <1>4

\* A row stays where it is, or moves from the call to the new leaf, or on to
\* one of the new calls.
LEMMA RowsMove ==
    ASSUME NEW t, NEW calls, NEW n, NEW rest, NEW u, NEW v, Replaces(t, calls, n, rest, u, v),
           NEW i
    PROVE  /\ Took(u, i) = Took(t, i) \cup
                  (IF n.leaf /\ i \in n.members THEN {Len(t) + 1} ELSE {})
           /\ \A k \in 1..(Len(calls) - 1) : k \in Waits(v, i) <=> k \in Waits(calls, i)
           /\ Len(calls) \in Waits(calls, i) <=> i \in n.members
           /\ n.leaf => Waits(v, i) \subseteq 1..(Len(calls) - 1)
           /\ ~n.leaf => /\ Waits(v, i) \subseteq 1..(Len(calls) + 1)
                         /\ Len(calls) \in Waits(v, i) <=> i \in rest[1].members
                         /\ Len(calls) + 1 \in Waits(v, i) <=> i \in rest[2].members
<1> DEFINE N == Len(t)  m == Len(calls)
<1>1. N \in Nat /\ m \in Nat \ {0}
    BY Indices
<1>2. /\ DOMAIN t = 1..N /\ DOMAIN u = 1..(N + 1)
      /\ DOMAIN calls = 1..m /\ DOMAIN v = 1..Len(v)
    BY Indices
<1>3. /\ n.leaf => Len(v) = m - 1
      /\ ~n.leaf => Len(v) = m + 1
      /\ ~n.leaf => v[m] = rest[1] /\ v[m + 1] = rest[2]
    BY Indices
<1>4. /\ \A j \in 1..N : u[j].leaf = t[j].leaf /\ u[j].members = t[j].members
      /\ u[N + 1] = n /\ n.members = calls[m].members
      /\ \A k \in 1..(m - 1) : v[k] = calls[k]
    BY DEF Replaces
<1> HIDE DEF N, m
<1>5. N + 1 \in 1..(N + 1) /\ N + 1 \notin 1..N /\ \A j \in 1..N : j \in 1..(N + 1)
    BY <1>1
<1>6. \A j \in 1..(N + 1) : j \in 1..N \/ j = N + 1
    BY <1>1
<1>7. \A j \in 1..N : j \in Took(u, i) <=> j \in Took(t, i)
    BY <1>2, <1>5, <1>4 DEF Took
<1>8. N + 1 \in Took(u, i) <=> n.leaf /\ i \in n.members
    BY <1>2, <1>5, <1>4 DEF Took
<1>9. Took(u, i) = Took(t, i) \cup (IF n.leaf /\ i \in n.members THEN {N + 1} ELSE {})
    <2>1. Took(u, i) \subseteq 1..(N + 1) /\ Took(t, i) \subseteq 1..N
        BY <1>2 DEF Took
    <2> QED
        BY <1>7, <1>8, <1>5, <1>6, <2>1
<1>10. \A k \in 1..(m - 1) : k \in DOMAIN v /\ k \in DOMAIN calls
    <2>1. \A k \in 1..(m - 1) : k \in 1..m /\ k \in 1..(m + 1)
        BY <1>1
    <2>2. CASE n.leaf
        BY <1>2, <1>3, <2>1, <2>2
    <2>3. CASE ~n.leaf
        BY <1>2, <1>3, <2>1, <2>3
    <2> QED
        BY <2>2, <2>3
<1>11. \A k \in 1..(m - 1) : k \in Waits(v, i) <=> k \in Waits(calls, i)
    BY <1>4, <1>10 DEF Waits
<1>12. m \in Waits(calls, i) <=> i \in n.members
    <2>1. m \in 1..m
        BY <1>1
    <2> QED
        BY <1>2, <1>4, <2>1 DEF Waits
<1>13. Waits(v, i) \subseteq 1..Len(v)
    BY <1>2 DEF Waits
<1>14. ~n.leaf => /\ m \in Waits(v, i) <=> i \in rest[1].members
                  /\ m + 1 \in Waits(v, i) <=> i \in rest[2].members
    <2>1. m \in 1..(m + 1) /\ m + 1 \in 1..(m + 1)
        BY <1>1
    <2>2. ~n.leaf => m \in DOMAIN v /\ m + 1 \in DOMAIN v
        BY <1>2, <1>3, <2>1
    <2> QED
        BY <1>3, <2>2 DEF Waits
<1> QED
    BY <1>3, <1>9, <1>11, <1>12, <1>13, <1>14 DEF N, m

\* Its rows go to one leaf, or to one of the two calls each.
LEMMA KeptMoves ==
    ASSUME NEW t, NEW calls, NEW n, NEW rest, NEW u, NEW v, Replaces(t, calls, n, rest, u, v),
           NEW i, OnePlace(t, calls, i)
    PROVE  OnePlace(u, v, i)
<1> DEFINE N == Len(t)  m == Len(calls)
<1>1. N \in Nat /\ m \in Nat \ {0}
    BY Indices
<1>2. /\ DOMAIN t = 1..N /\ DOMAIN u = 1..(N + 1)
      /\ DOMAIN calls = 1..m /\ DOMAIN v = 1..Len(v)
    BY Indices
<1>3. /\ n.leaf => Len(v) = m - 1
      /\ ~n.leaf => Len(v) = m + 1
      /\ ~n.leaf => Halves(n, rest, N)
    BY Indices
<1>4. /\ Took(u, i) = Took(t, i) \cup (IF n.leaf /\ i \in n.members THEN {N + 1} ELSE {})
      /\ \A k \in 1..(m - 1) : k \in Waits(v, i) <=> k \in Waits(calls, i)
      /\ m \in Waits(calls, i) <=> i \in n.members
      /\ n.leaf => Waits(v, i) \subseteq 1..(m - 1)
      /\ ~n.leaf => /\ Waits(v, i) \subseteq 1..(m + 1)
                    /\ m \in Waits(v, i) <=> i \in rest[1].members
                    /\ m + 1 \in Waits(v, i) <=> i \in rest[2].members
    BY RowsMove
<1>5. Waits(calls, i) \subseteq 1..m
    BY <1>2 DEF Waits
<1> HIDE DEF N, m
<1>6. \A k : k \in 1..(m + 1) <=> k \in 1..(m - 1) \/ k = m \/ k = m + 1
    BY <1>1
<1>7. CASE i \notin n.members
    <2>1. ~n.leaf => i \notin rest[1].members /\ i \notin rest[2].members
        BY <1>3, <1>7 DEF Halves
    <2>2. Waits(v, i) = Waits(calls, i)
        <3>1. \A k \in Waits(v, i) : k \in 1..(m - 1)
            BY <1>4, <1>6, <2>1
        <3>2. \A k \in 1..m : k \in 1..(m - 1) \/ k = m
            BY <1>1
        <3>3. \A k \in Waits(calls, i) : k \in 1..(m - 1)
            BY <1>4, <1>5, <1>7, <3>2
        <3> QED
            BY <1>4, <3>1, <3>3
    <2>3. Took(u, i) = Took(t, i)
        BY <1>4, <1>7
    <2>4. Waits(v, i) \subseteq DOMAIN v /\ DOMAIN t \subseteq DOMAIN u
        <3>1. \A j \in 1..N : j \in 1..(N + 1)
            BY <1>1
        <3> QED
            BY <1>2, <3>1 DEF Waits
    <2> QED
        BY <2>2, <2>3, <2>4 DEF OnePlace
<1>8. CASE i \in n.members
    <2>1. Took(t, i) = {} /\ \A k \in Waits(calls, i) : k = m
        BY <1>4, <1>8 DEF OnePlace
    <2>2. \A k \in 1..(m - 1) : k \notin Waits(v, i)
        <3>1. m \notin 1..(m - 1)
            BY <1>1
        <3> QED
            BY <1>4, <2>1, <3>1
    <2>3. CASE n.leaf
        <3>1. Waits(v, i) = {}
            BY <1>4, <2>2, <2>3
        <3>2. Took(u, i) = {N + 1} /\ N + 1 \in DOMAIN u
            <4>1. N + 1 \in 1..(N + 1)
                BY <1>1
            <4> QED
                BY <1>2, <4>1, <1>4, <1>8, <2>1, <2>3
        <3> QED
            BY <3>1, <3>2 DEF OnePlace
    <2>4. CASE ~n.leaf
        <3>1. i \in rest[1].members <=> i \notin rest[2].members
            BY <1>3, <1>8, <2>4 DEF Halves
        <3>2. \A k \in Waits(v, i) : k = m \/ k = m + 1
            BY <1>4, <1>6, <2>2, <2>4
        <3>3. m \in Waits(v, i) <=> m + 1 \notin Waits(v, i)
            BY <1>4, <2>4, <3>1
        <3>4. Waits(v, i) = {m} \/ Waits(v, i) = {m + 1}
            BY <3>2, <3>3
        <3>5. m \in DOMAIN v /\ m + 1 \in DOMAIN v
            <4>1. m \in 1..(m + 1) /\ m + 1 \in 1..(m + 1)
                BY <1>1
            <4> QED
                BY <1>2, <1>3, <4>1, <2>4
        <3>6. Took(u, i) = {}
            BY <1>4, <2>1, <2>4
        <3> QED
            BY <3>4, <3>5, <3>6 DEF OnePlace
    <2> QED
        BY <2>3, <2>4
<1> QED
    BY <1>7, <1>8


\* The root keeps its rows, as a call and as a node.
LEMMA RootMoves ==
    ASSUME NEW t, NEW calls, NEW n, NEW rest, NEW u, NEW v, Replaces(t, calls, n, rest, u, v)
    PROVE  u # <<>> /\ RootRows(u, v) = RootRows(t, calls) /\ u[1].members = RootRows(t, calls)
<1>1. Len(t) \in Nat /\ Len(u) = Len(t) + 1 /\ u[Len(t) + 1] = n
    BY DEF Replaces
<1>2. u # <<>>
    <2>1. Len(u) # 0 /\ Len(<<>>) = 0
        BY <1>1, EmptySeq
    <2> QED
        BY <2>1
<1>3. CASE t = <<>>
    <2>1. Len(t) = 0 /\ Len(calls) = 1 /\ n.members = calls[Len(calls)].members
        BY <1>3, EmptySeq DEF Replaces
    <2>2. u[1] = n /\ n.members = calls[1].members
        BY <1>1, <2>1
    <2> QED
        BY <1>2, <1>3, <2>2 DEF RootRows
<1>4. CASE t # <<>>
    <2>1. 1 \in 1..Len(t)
        <3>1. Len(t) # 0
            BY <1>4, EmptySeq DEF Replaces
        <3> QED
            BY <1>1, <3>1
    <2>2. u[1].members = t[1].members
        BY <2>1 DEF Replaces
    <2> QED
        BY <1>2, <1>4, <2>2 DEF RootRows
<1> QED
    BY <1>3, <1>4

\* The calls after a step are the old ones but the last, and the new ones,
\* which are for the new node.
LEMMA CallsAre ==
    ASSUME NEW t, NEW calls, NEW n, NEW rest, NEW u, NEW v, Replaces(t, calls, n, rest, u, v),
           NEW k \in DOMAIN v
    PROVE  \/ /\ k \in 1..(Len(calls) - 1) /\ k \in DOMAIN calls /\ k # Len(calls)
              /\ v[k] = calls[k] /\ t # <<>> /\ v[k].parent \in 0..(Len(t) - 1)
              /\ v[k].parent # Len(t) /\ v[k].side \in Sides
           \/ /\ ~n.leaf /\ k = Len(calls) /\ v[k] = rest[1]
              /\ v[k].parent = Len(t) /\ v[k].side = "right"
           \/ /\ ~n.leaf /\ k = Len(calls) + 1 /\ v[k] = rest[2]
              /\ v[k].parent = Len(t) /\ v[k].side = "left"
<1> DEFINE m == Len(calls)  N == Len(t)
<1>1. m \in Nat \ {0} /\ N \in Nat
    BY Indices
<1>2. DOMAIN calls = 1..m /\ DOMAIN v = 1..Len(v)
    BY Indices
<1>3. /\ n.leaf => Len(v) = m - 1
      /\ ~n.leaf => Len(v) = m + 1 /\ v[m] = rest[1] /\ v[m + 1] = rest[2]
      /\ ~n.leaf => Halves(n, rest, N)
    BY Indices
<1>4. /\ \A j \in 1..(m - 1) : v[j] = calls[j]
      /\ t = <<>> => m = 1
      /\ t # <<>> => \A j \in DOMAIN calls : calls[j].parent \in 0..(N - 1) /\ calls[j].side \in Sides
    BY DEF Replaces
<1> HIDE DEF m, N
<1>5. \A j \in 1..(m - 1) : j \in 1..m /\ j # m /\ m # 1
    BY <1>1
<1>6. \A j \in 0..(N - 1) : j # N
    BY <1>1
<1>7. ASSUME k \in 1..(m - 1)
      PROVE  /\ k \in DOMAIN calls /\ k # m /\ v[k] = calls[k] /\ t # <<>>
             /\ v[k].parent \in 0..(N - 1) /\ v[k].parent # N /\ v[k].side \in Sides
    BY <1>2, <1>4, <1>5, <1>6, <1>7
<1>8. CASE n.leaf
    BY <1>2, <1>3, <1>7, <1>8 DEF m, N
<1>9. CASE ~n.leaf
    <2>1. \A j \in 1..(m + 1) : j \in 1..(m - 1) \/ j = m \/ j = m + 1
        BY <1>1
    <2>2. k \in 1..(m - 1) \/ k = m \/ k = m + 1
        BY <1>2, <1>3, <1>9, <2>1
    <2> QED
        BY <1>3, <1>7, <1>9, <2>2 DEF m, N, Halves
<1> QED
    BY <1>8, <1>9

\* No node and no call gets rows that the root has not.
LEMMA WithinMoves ==
    ASSUME NEW t, NEW calls, NEW n, NEW rest, NEW u, NEW v, Replaces(t, calls, n, rest, u, v),
           NEW d, Within(t, calls, d)
    PROVE  Within(u, v, d)
<1> DEFINE R == RootRows(t, calls)  N == Len(t)  m == Len(calls)
<1>1. RootRows(u, v) = R
    BY RootMoves
<1>2. DOMAIN t = 1..N /\ DOMAIN u = 1..(N + 1) /\ DOMAIN calls = 1..m /\ N \in Nat /\ m \in Nat \ {0}
    BY Indices
<1>3. n.members \subseteq R
    <2>1. m \in DOMAIN calls /\ n.members = calls[m].members
        BY <1>2 DEF Replaces
    <2> QED
        BY <2>1 DEF Within
<1>4. ASSUME NEW j \in DOMAIN u PROVE u[j].members \subseteq R
    <2>1. CASE j \in 1..N
        <3>1. u[j].members = t[j].members
            BY <2>1 DEF Replaces
        <3> QED
            BY <1>2, <2>1, <3>1 DEF Within
    <2>2. CASE j = N + 1
        BY <2>2, <1>3 DEF Replaces
    <2>3. j \in 1..N \/ j = N + 1
        BY <1>2
    <2> QED
        BY <2>1, <2>2, <2>3
<1>5. ASSUME NEW k \in DOMAIN v PROVE v[k].members \subseteq R
    <2>1. CASE k \in DOMAIN calls /\ v[k] = calls[k]
        BY <2>1 DEF Within
    <2>2. ~n.leaf => rest[1].members \subseteq R /\ rest[2].members \subseteq R
        BY <1>3, Indices DEF Halves
    <2> QED
        BY <2>1, <2>2, CallsAre
<1> HIDE DEF R
<1>6. R \subseteq DOMAIN d
    BY DEF Within, R
<1> QED
    BY <1>1, <1>4, <1>5, <1>6 DEF Within

\* The children of the new node are not made yet; its parent's link is.
LEMMA LinksMove ==
    ASSUME NEW t, NEW calls, NEW n, NEW rest, NEW u, NEW v, Replaces(t, calls, n, rest, u, v)
    PROVE  /\ \A p \in 1..Len(t) : \A s \in Sides :
                  /\ IsFor(calls, Len(calls), p, s) => Child(u[p], s) = Len(t)
                  /\ ~IsFor(calls, Len(calls), p, s) => Child(u[p], s) = Child(t[p], s)
           /\ \A p \in DOMAIN u : p \in 1..Len(t) \/ p = Len(t) + 1
           /\ u[Len(t) + 1] = n
           /\ \A s \in Sides : /\ n.leaf => Child(n, s) = -1
                               /\ ~n.leaf => Child(n, s) = 0
<1>1. \A p \in 1..Len(t) : \A s \in Sides :
          /\ IsFor(calls, Len(calls), p, s) => Child(u[p], s) = Len(t)
          /\ ~IsFor(calls, Len(calls), p, s) => Child(u[p], s) = Child(t[p], s)
    BY DEF Replaces
<1>2. \A p \in DOMAIN u : p \in 1..Len(t) \/ p = Len(t) + 1
    <2>1. DOMAIN u = 1..(Len(t) + 1) /\ Len(t) \in Nat
        BY Indices
    <2> QED
        BY <2>1
<1>3. n.leaf => n.left = -1 /\ n.right = -1
    BY DEF Replaces
<1>4. ~n.leaf => n.left = 0 /\ n.right = 0
    BY DEF Replaces, Halves
<1>5. \A s \in Sides : /\ n.leaf => Child(n, s) = -1
                       /\ ~n.leaf => Child(n, s) = 0
    BY <1>3, <1>4 DEF Child
<1>6. u[Len(t) + 1] = n
    BY DEF Replaces
<1> QED
    BY <1>1, <1>2, <1>5, <1>6


\* Every link still to be made has its one call, and every node its parent.
LEMMA LinkingMoves ==
    ASSUME NEW t, NEW calls, NEW n, NEW rest, NEW u, NEW v, Replaces(t, calls, n, rest, u, v),
           Linking(t, calls)
    PROVE  Linking(u, v)
<1> DEFINE N == Len(t)  m == Len(calls)  c == calls[m]
<1>1. N \in Nat /\ m \in Nat \ {0}
    BY Indices
<1>2. DOMAIN t = 1..N /\ DOMAIN u = 1..(N + 1) /\ DOMAIN calls = 1..m
    BY Indices
<1>3. Len(u) = N + 1
    BY DEF Replaces
<1>4. ~n.leaf => Halves(n, rest, N)
    BY Indices
<1>5. /\ \A p \in 1..N : \A s \in Sides :
            /\ IsFor(calls, m, p, s) => Child(u[p], s) = N
            /\ ~IsFor(calls, m, p, s) => Child(u[p], s) = Child(t[p], s)
      /\ \A p \in DOMAIN u : p \in 1..N \/ p = N + 1
      /\ u[N + 1] = n
      /\ \A s \in Sides : /\ n.leaf => Child(n, s) = -1
                          /\ ~n.leaf => Child(n, s) = 0
    BY LinksMove
<1>6. /\ \A p \in 1..N : \A s \in Sides :
            Child(t[p], s) \in -1..(N - 1) /\ (t[p].leaf <=> Child(t[p], s) = -1)
      /\ t # <<>> => \A k \in 1..m :
            /\ Child(t[calls[k].parent + 1], calls[k].side) = 0
            /\ \A h \in 1..m : IsFor(calls, h, calls[k].parent + 1, calls[k].side) => h = k
      /\ \A d \in 1..(N - 1) : OneParent(t, d)
    BY <1>2 DEF Linking
<1>7. \A p \in 1..N : u[p].leaf = t[p].leaf
    BY DEF Replaces
<1>8. /\ t = <<>> => N = 0
      /\ t # <<>> => \A k \in DOMAIN calls : calls[k].parent \in 0..(N - 1) /\ calls[k].side \in Sides
    BY EmptySeq DEF Replaces
<1> HIDE DEF N, m
\* The call for a child that is not made stands for a link that is 0.
<1>9. ASSUME NEW p \in 1..N, NEW s \in Sides, IsFor(calls, m, p, s)
      PROVE  t # <<>> /\ Child(t[p], s) = 0
    <2>1. t # <<>>
        BY <1>1, <1>8
    <2>2. c.parent = p - 1 /\ c.side = s /\ m \in 1..m
        BY <1>1, <1>9 DEF IsFor
    <2>3. Child(t[c.parent + 1], c.side) = 0
        BY <1>6, <2>1, <2>2
    <2>4. c.parent + 1 = p
        BY <2>2
    <2> QED
        BY <2>1, <2>2, <2>3, <2>4
<1>10. ASSUME NEW p \in DOMAIN u, NEW s \in Sides
       PROVE  Child(u[p], s) \in -1..N /\ (u[p].leaf <=> Child(u[p], s) = -1)
    <2>1. CASE p = N + 1
        <3>1. -1 \in -1..N /\ 0 \in -1..N /\ 0 # -1
            BY <1>1
        <3> QED
            BY <1>5, <2>1, <3>1
    <2>2. CASE p \in 1..N /\ IsFor(calls, m, p, s)
        <3>1. Child(u[p], s) = N /\ Child(t[p], s) = 0
            BY <1>5, <1>9, <2>2
        <3>2. ~t[p].leaf
            <4>1. 0 # -1
                OBVIOUS
            <4> QED
                BY <1>6, <2>2, <3>1, <4>1
        <3>3. N \in -1..N /\ N # -1
            BY <1>1
        <3> QED
            BY <1>7, <2>2, <3>1, <3>2, <3>3
    <2>3. CASE p \in 1..N /\ ~IsFor(calls, m, p, s)
        <3>1. Child(u[p], s) = Child(t[p], s) /\ Child(t[p], s) \in -1..(N - 1)
            BY <1>5, <1>6, <2>3
        <3>2. \A d \in -1..(N - 1) : d \in -1..N
            BY <1>1
        <3> QED
            BY <1>6, <1>7, <2>3, <3>1, <3>2
    <2> QED
        BY <1>5, <2>1, <2>2, <2>3
\* A call that was there keeps its place and is still the only one for it.
<1>11. ASSUME NEW k \in DOMAIN v, k \in 1..(m - 1), k \in DOMAIN calls, k # m,
              v[k] = calls[k], t # <<>>, v[k].parent \in 0..(N - 1), v[k].side \in Sides
       PROVE  /\ Child(u[v[k].parent + 1], v[k].side) = 0
              /\ \A h \in DOMAIN v : IsFor(v, h, v[k].parent + 1, v[k].side) => h = k
    <2> DEFINE p == calls[k].parent + 1  s == calls[k].side
    <2>1. p \in 1..N /\ p - 1 = calls[k].parent /\ calls[k].parent # N
        BY <1>1, <1>11
    <2>2. Child(t[p], s) = 0 /\ \A h \in 1..m : IsFor(calls, h, p, s) => h = k
        BY <1>2, <1>6, <1>11
    <2>3. m \in 1..m
        BY <1>1
    <2>4. ~IsFor(calls, m, p, s)
        BY <1>11, <2>2, <2>3
    <2>5. Child(u[p], s) = 0
        BY <1>5, <1>11, <2>1, <2>2, <2>4
    <2>6. ASSUME NEW h \in DOMAIN v, IsFor(v, h, p, s)
          PROVE  h = k
        <3>1. v[h].parent = calls[k].parent /\ v[h].side = s
            BY <2>1, <2>6 DEF IsFor
        <3>2. v[h].parent # N
            BY <2>1, <3>1
        <3>3. h \in DOMAIN calls /\ v[h] = calls[h]
            BY <3>2, CallsAre DEF N
        <3>4. IsFor(calls, h, p, s)
            BY <2>6, <3>3 DEF IsFor
        <3> QED
            BY <1>2, <2>2, <3>3, <3>4
    <2> HIDE DEF p, s
    <2> QED
        BY <1>11, <2>5, <2>6 DEF p, s
\* Two new calls are for the two sides of the new node.
<1>12. ASSUME ~n.leaf, NEW k \in DOMAIN v, v[k].parent = N, v[k].side \in Sides
       PROVE  /\ Child(u[v[k].parent + 1], v[k].side) = 0
              /\ \A h \in DOMAIN v : IsFor(v, h, v[k].parent + 1, v[k].side) => h = k
    <2>1. Child(u[v[k].parent + 1], v[k].side) = 0
        BY <1>5, <1>12
    <2>2. ASSUME NEW h \in DOMAIN v, IsFor(v, h, v[k].parent + 1, v[k].side)
          PROVE  h = k
        <3>1. IsFor(v, h, N + 1, v[k].side)
            BY <1>12, <2>2
        <3>2. v[h].parent = N /\ v[h].side = v[k].side
            BY <1>1, <3>1, IsForNext
        <3>3. (h = m /\ v[h].side = "right") \/ (h = m + 1 /\ v[h].side = "left")
            BY <3>2, CallsAre DEF N, m
        <3>4. (k = m /\ v[k].side = "right") \/ (k = m + 1 /\ v[k].side = "left")
            BY <1>12, CallsAre DEF N, m
        <3> QED
            BY <3>2, <3>3, <3>4
    <2> QED
        BY <2>1, <2>2
<1>13. ASSUME NEW k \in DOMAIN v
       PROVE  /\ Child(u[v[k].parent + 1], v[k].side) = 0
              /\ \A h \in DOMAIN v : IsFor(v, h, v[k].parent + 1, v[k].side) => h = k
    <2>1. CASE v[k].parent = N
        <3>1. ~n.leaf /\ v[k].side \in Sides
            BY <2>1, CallsAre DEF N, Sides
        <3> QED
            BY <1>12, <2>1, <3>1
    <2>2. CASE v[k].parent # N
        <3>1. /\ k \in 1..(m - 1) /\ k \in DOMAIN calls /\ k # m /\ v[k] = calls[k]
              /\ t # <<>> /\ v[k].parent \in 0..(N - 1) /\ v[k].side \in Sides
            BY <2>2, CallsAre DEF N, m
        <3> QED
            BY <1>11, <3>1
    <2> QED
        BY <2>1, <2>2
\* A node that had a parent keeps it, and the new one has that of its call.
<1>14. ASSUME NEW d \in 1..(N - 1)
       PROVE  OneParent(u, d)
    <2>1. OneParent(t, d) /\ d # 0 /\ d # N /\ d # -1
        BY <1>1, <1>6
    <2>2. PICK p \in 1..N : \E s \in Sides :
              /\ Child(t[p], s) = d
              /\ \A q \in DOMAIN t : \A r \in Sides : Child(t[q], r) = d => q = p /\ r = s
        BY <1>2, <2>1 DEF OneParent
    <2>3. PICK s \in Sides :
              /\ Child(t[p], s) = d
              /\ \A q \in DOMAIN t : \A r \in Sides : Child(t[q], r) = d => q = p /\ r = s
        BY <2>2
    <2>4. Child(u[p], s) = d
        <3>1. ~IsFor(calls, m, p, s)
            BY <1>9, <2>1, <2>3
        <3> QED
            BY <1>5, <2>3, <3>1
    <2>5. ASSUME NEW q \in DOMAIN u, NEW r \in Sides, Child(u[q], r) = d
          PROVE  q = p /\ r = s
        <3>1. q # N + 1
            BY <1>5, <2>1, <2>5
        <3>2. q \in 1..N
            BY <1>5, <3>1
        <3>3. Child(t[q], r) = d
            BY <1>5, <2>1, <2>5, <3>2
        <3> QED
            BY <1>2, <2>3, <3>2, <3>3
    <2>6. p \in DOMAIN u
        <3>1. \A q \in 1..N : q \in 1..(N + 1)
            BY <1>1
        <3> QED
            BY <1>2, <3>1
    <2> QED
        BY <2>4, <2>5, <2>6 DEF OneParent
<1>15. ASSUME N # 0
       PROVE  OneParent(u, N)
    <2>1. t # <<>> /\ m \in DOMAIN calls
        BY <1>1, <1>2, <1>15, <1>8
    <2>2. c.parent \in 0..(N - 1) /\ c.side \in Sides
        BY <1>8, <2>1
    <2> DEFINE p == c.parent + 1
    <2>3. p \in 1..N /\ p - 1 = c.parent
        BY <1>1, <2>2
    <2>4. IsFor(calls, m, p, c.side)
        BY <2>3 DEF IsFor
    <2>5. Child(u[p], c.side) = N
        BY <1>5, <2>2, <2>3, <2>4
    <2>6. ASSUME NEW q \in DOMAIN u, NEW r \in Sides, Child(u[q], r) = N
          PROVE  q = p /\ r = c.side
        <3>1. N # -1
            BY <1>1
        <3>2. q # N + 1
            BY <1>5, <1>15, <2>6, <3>1
        <3>3. q \in 1..N
            BY <1>5, <3>2
        <3>4. Child(t[q], r) # N
            <4>1. N \notin -1..(N - 1)
                BY <1>1
            <4> QED
                BY <1>6, <3>3, <4>1
        <3>5. IsFor(calls, m, q, r)
            BY <1>5, <2>6, <3>3, <3>4
        <3>6. c.parent = q - 1 /\ c.side = r
            BY <3>5 DEF IsFor
        <3> QED
            BY <3>3, <3>6
    <2>7. p \in DOMAIN u
        <3>1. \A q \in 1..N : q \in 1..(N + 1)
            BY <1>1
        <3> QED
            BY <1>2, <2>3, <3>1
    <2> HIDE DEF p
    <2> QED
        BY <2>2, <2>5, <2>6, <2>7 DEF OneParent
<1>16. \A d \in 1..(Len(u) - 1) : OneParent(u, d)
    <2>1. Len(u) - 1 = N
        BY <1>1, <1>3
    <2>2. \A d \in 1..N : d \in 1..(N - 1) \/ (d = N /\ N # 0)
        BY <1>1
    <2> QED
        BY <1>14, <1>15, <2>1, <2>2
<1>17. \A p \in DOMAIN u : \A s \in Sides :
           Child(u[p], s) \in -1..(Len(u) - 1) /\ (u[p].leaf <=> Child(u[p], s) = -1)
    <2>1. Len(u) - 1 = N
        BY <1>1, <1>3
    <2> QED
        BY <1>10, <2>1
<1> QED
    BY <1>13, <1>16, <1>17 DEF Linking


\* What was handed to a side is there still, be it a call or the node it made.
LEMMA HandedMoves ==
    ASSUME NEW t, NEW calls, NEW n, NEW rest, NEW u, NEW v, Replaces(t, calls, n, rest, u, v),
           Linking(t, calls), NEW p \in DOMAIN t, ~t[p].leaf, NEW s \in Sides, NEW i,
           HandedTo(t, calls, p, s, i)
    PROVE  HandedTo(u, v, p, s, i)
<1> DEFINE N == Len(t)  m == Len(calls)
<1>1. N \in Nat /\ m \in Nat \ {0}
    BY Indices
<1>2. DOMAIN t = 1..N /\ DOMAIN u = 1..(N + 1) /\ DOMAIN calls = 1..m /\ DOMAIN v = 1..Len(v)
    BY Indices
<1>3. /\ \A q \in 1..N : u[q].members = t[q].members
      /\ u[N + 1] = n /\ n.members = calls[m].members
      /\ \A k \in 1..(m - 1) : v[k] = calls[k]
    BY DEF Replaces
<1>4. /\ IsFor(calls, m, p, s) => Child(u[p], s) = N
      /\ ~IsFor(calls, m, p, s) => Child(u[p], s) = Child(t[p], s)
    BY <1>2, LinksMove DEF N, m
<1>5. Child(t[p], s) \in -1..(N - 1) /\ Child(t[p], s) # -1
    BY DEF Linking, N
<1>6. t # <<>> => \A k \in DOMAIN calls : Child(t[calls[k].parent + 1], calls[k].side) = 0
    BY DEF Linking
<1>7. t # <<>> /\ N # 0
    <2>1. N # 0
        BY <1>1, <1>2
    <2> QED
        BY <2>1, EmptySeq DEF N
<1>8. Len(v) >= m - 1
    <2>1. Len(v) = m - 1 + Len(rest) /\ Len(rest) \in Nat
        BY LenProperties DEF Replaces, m
    <2> QED
        BY <1>1, <2>1
<1>9. t \in Seq(Nodes)
    BY DEF Replaces
<1> HIDE DEF N, m
<1>10. CASE Child(t[p], s) # 0 /\ i \in t[Child(t[p], s) + 1].members
    <2>1. ASSUME IsFor(calls, m, p, s) PROVE FALSE
        <3>1. calls[m].parent + 1 = p /\ calls[m].side = s
            BY <1>2, <2>1 DEF IsFor
        <3>2. m \in DOMAIN calls
            BY <1>1, <1>2
        <3>3. Child(t[p], s) = 0
            BY <1>6, <1>7, <3>1, <3>2
        <3> QED
            BY <1>10, <3>3
    <2> DEFINE c == Child(t[p], s)
    <2>2. Child(u[p], s) = c
        BY <1>4, <2>1
    <2>3. c + 1 \in 1..N
        BY <1>1, <1>5
    <2>4. u[c + 1].members = t[c + 1].members
        BY <1>3, <2>3
    <2> QED
        BY <1>10, <2>2, <2>4 DEF HandedTo
<1>11. CASE \E k \in DOMAIN calls : IsFor(calls, k, p, s) /\ i \in calls[k].members
    <2>1. PICK k \in DOMAIN calls : IsFor(calls, k, p, s) /\ i \in calls[k].members
        BY <1>11
    <2>2. CASE k = m
        <3>1. Child(u[p], s) = N /\ u[N + 1].members = calls[m].members
            BY <1>3, <1>4, <2>1, <2>2
        <3> QED
            BY <1>7, <2>1, <2>2, <3>1 DEF HandedTo
    <2>3. CASE k # m
        <3>1. k \in 1..(m - 1)
            BY <1>1, <1>2, <2>1, <2>3
        <3>2. k \in 1..Len(v)
            <4>1. Len(v) \in Nat
                BY LenProperties DEF Replaces
            <4> QED
                BY <1>1, <1>8, <3>1, <4>1
        <3>3. IsFor(v, k, p, s) /\ i \in v[k].members
            BY <1>3, <2>1, <3>1 DEF IsFor
        <3> QED
            BY <1>2, <3>2, <3>3 DEF HandedTo
    <2> QED
        BY <2>2, <2>3
<1> QED
    BY <1>10, <1>11 DEF HandedTo

\* Each branch has handed its rows on; the new one to its two calls.
LEMMA HandedOnMoves ==
    ASSUME NEW t, NEW calls, NEW n, NEW rest, NEW u, NEW v, Replaces(t, calls, n, rest, u, v),
           Linking(t, calls), NEW d, HandedOn(t, calls, d),
           ~n.leaf => \A i \in n.members : d[i] < n.split * Unit => i \in rest[2].members
    PROVE  HandedOn(u, v, d)
<1> DEFINE N == Len(t)  m == Len(calls)
<1>1. N \in Nat /\ m \in Nat \ {0}
    BY Indices
<1>2. DOMAIN t = 1..N /\ DOMAIN u = 1..(N + 1) /\ DOMAIN v = 1..Len(v)
    BY Indices
<1>3. /\ \A p \in 1..N : u[p].leaf = t[p].leaf /\ u[p].members = t[p].members /\ u[p].split = t[p].split
      /\ u[N + 1] = n
    BY DEF Replaces
<1>4. \A p \in DOMAIN u : p \in 1..N \/ p = N + 1
    BY LinksMove
<1> HIDE DEF N, m
<1>5. ASSUME NEW p \in 1..N, ~u[p].leaf, NEW i \in u[p].members
      PROVE  /\ HandedTo(u, v, p, "left", i) \/ HandedTo(u, v, p, "right", i)
             /\ d[i] < u[p].split * Unit => HandedTo(u, v, p, "left", i)
    <2>1. p \in DOMAIN t /\ ~t[p].leaf /\ i \in t[p].members /\ u[p].split = t[p].split
        BY <1>2, <1>3, <1>5
    <2>2. /\ HandedTo(t, calls, p, "left", i) \/ HandedTo(t, calls, p, "right", i)
          /\ d[i] < t[p].split * Unit => HandedTo(t, calls, p, "left", i)
        BY <2>1 DEF HandedOn
    <2>3. "left" \in Sides /\ "right" \in Sides
        BY DEF Sides
    <2>4. HandedTo(t, calls, p, "left", i) => HandedTo(u, v, p, "left", i)
        BY <2>1, <2>3, HandedMoves
    <2>5. HandedTo(t, calls, p, "right", i) => HandedTo(u, v, p, "right", i)
        BY <2>1, <2>3, HandedMoves
    <2> QED
        BY <2>1, <2>2, <2>4, <2>5
<1>6. ASSUME ~n.leaf, NEW i \in n.members
      PROVE  /\ HandedTo(u, v, N + 1, "left", i) \/ HandedTo(u, v, N + 1, "right", i)
             /\ d[i] < n.split * Unit => HandedTo(u, v, N + 1, "left", i)
    <2>1. /\ Len(v) = m + 1 /\ v[m] = rest[1] /\ v[m + 1] = rest[2] /\ Halves(n, rest, N)
        BY <1>6, Indices DEF N, m
    <2>2. m \in DOMAIN v /\ m + 1 \in DOMAIN v
        BY <1>1, <1>2, <2>1
    <2>3. N + 1 - 1 = N
        BY <1>1
    <2>4. IsFor(v, m, N + 1, "right") /\ IsFor(v, m + 1, N + 1, "left")
        <3>1. v[m].parent = N /\ v[m].side = "right" /\ v[m + 1].parent = N /\ v[m + 1].side = "left"
            BY <2>1 DEF Halves
        <3> QED
            BY <1>1, <3>1, IsForNext
    <2>5. i \in rest[1].members => HandedTo(u, v, N + 1, "right", i)
        BY <2>1, <2>2, <2>4 DEF HandedTo
    <2>6. i \in rest[2].members => HandedTo(u, v, N + 1, "left", i)
        BY <2>1, <2>2, <2>4 DEF HandedTo
    <2>7. i \in rest[1].members \/ i \in rest[2].members
        BY <1>6, <2>1 DEF Halves
    <2>8. d[i] < n.split * Unit => i \in rest[2].members
        BY <1>6
    <2> QED
        BY <2>5, <2>6, <2>7, <2>8
<1>7. ASSUME NEW p \in DOMAIN u, ~u[p].leaf, NEW i \in u[p].members
      PROVE  /\ HandedTo(u, v, p, "left", i) \/ HandedTo(u, v, p, "right", i)
             /\ d[i] < u[p].split * Unit => HandedTo(u, v, p, "left", i)
    <2>1. CASE p \in 1..N
        BY <1>5, <1>7, <2>1
    <2>2. CASE p = N + 1
        BY <1>3, <1>6, <1>7, <2>2
    <2> QED
        BY <1>4, <2>1, <2>2
<1> QED
    BY <1>7 DEF HandedOn


\* A link not made yet has its call to come.
Awaited(t, calls) ==
    \A p \in DOMAIN t : ~t[p].leaf => \A s \in Sides :
        Child(t[p], s) = 0 => \E k \in DOMAIN calls : IsFor(calls, k, p, s)

\* A row of the call that was made is in the new leaf, or in one of the calls
\* that come next.
LEMMA NextHas ==
    ASSUME NEW t, NEW calls, NEW n, NEW rest, NEW u, NEW v, Replaces(t, calls, n, rest, u, v),
           NEW i \in n.members
    PROVE  Took(u, i) # {} \/ \E h \in Waits(v, i) : h >= Len(calls)
<1>1. Len(calls) \in Nat
    BY Indices
<1>2. CASE n.leaf
    <2>1. Took(u, i) = Took(t, i) \cup {Len(t) + 1}
        BY <1>2, RowsMove
    <2> QED
        BY <2>1
<1>3. CASE ~n.leaf
    <2>1. i \in rest[1].members \/ i \in rest[2].members
        BY <1>3, Indices DEF Halves
    <2>2. Len(calls) \in Waits(v, i) \/ Len(calls) + 1 \in Waits(v, i)
        BY <1>3, <2>1, RowsMove
    <2>3. Len(calls) >= Len(calls) /\ Len(calls) + 1 >= Len(calls)
        BY <1>1
    <2> QED
        BY <2>2, <2>3
<1> QED
    BY <1>2, <1>3

\* What was said of row i and the right child of p is still so, when the call
\* made was not for that child.
LEMMA EarlierMoves ==
    ASSUME NEW t, NEW calls, NEW n, NEW rest, NEW u, NEW v, Replaces(t, calls, n, rest, u, v),
           NEW p \in DOMAIN t, ~IsFor(calls, Len(calls), p, "right"),
           NEW i, Earlier(t, calls, p, i)
    PROVE  Earlier(u, v, p, i)
<1> DEFINE N == Len(t)  m == Len(calls)
<1>1. N \in Nat /\ m \in Nat \ {0}
    BY Indices
<1>2. DOMAIN t = 1..N /\ DOMAIN calls = 1..m
    BY Indices
<1>3. u[p].right = t[p].right
    <2>1. Child(u[p], "right") = Child(t[p], "right")
        BY <1>2, LinksMove DEF Sides
    <2> QED
        BY <2>1 DEF Child
<1>4. Took(t, i) \subseteq Took(u, i)
    BY RowsMove
<1>5. u[p].right # 0 => \E j \in Took(u, i) : j <= u[p].right
    BY <1>3, <1>4 DEF Earlier
<1>6. ASSUME NEW k \in DOMAIN v, IsFor(v, k, p, "right")
      PROVE  Took(u, i) # {} \/ \E h \in Waits(v, i) : h > k
    <2>1. v[k].parent = p - 1 /\ p - 1 # N
        BY <1>1, <1>2, <1>6 DEF IsFor
    <2>2. k \in 1..(m - 1) /\ k \in DOMAIN calls /\ v[k] = calls[k]
        BY <2>1, CallsAre DEF N, m
    <2>3. IsFor(calls, k, p, "right")
        BY <1>6, <2>2 DEF IsFor
    <2>4. Took(t, i) # {} \/ \E h \in Waits(calls, i) : h > k
        BY <2>2, <2>3 DEF Earlier
    <2>5. CASE Took(t, i) # {}
        BY <1>4, <2>5
    <2>6. ASSUME NEW h \in Waits(calls, i), h > k
          PROVE  Took(u, i) # {} \/ \E g \in Waits(v, i) : g > k
        <3>1. h \in 1..m
            BY <1>2 DEF Waits
        <3>2. CASE h # m
            <4>1. h \in 1..(m - 1)
                BY <1>1, <3>1, <3>2
            <4>2. h \in Waits(v, i)
                BY <4>1, RowsMove DEF m
            <4> QED
                BY <2>6, <4>2
        <3>3. CASE h = m
            <4>1. i \in n.members
                BY <3>3, RowsMove DEF m
            <4>2. Took(u, i) # {} \/ \E g \in Waits(v, i) : g >= m
                BY <4>1, NextHas DEF m
            <4>3. \A g \in Waits(v, i) : g \in Int
                <5>1. DOMAIN v = 1..Len(v)
                    BY Indices
                <5> QED
                    BY <5>1 DEF Waits
            <4>4. \A g \in Int : g >= m => g > k
                BY <1>1, <2>2
            <4> QED
                BY <4>2, <4>3, <4>4
        <3> QED
            BY <3>2, <3>3
    <2> QED
        BY <2>4, <2>5, <2>6
<1> QED
    BY <1>5, <1>6 DEF Earlier

\* What a branch hands left is dealt with before what it hands right.
LEMMA LeftFirstMoves ==
    ASSUME NEW t, NEW calls, NEW n, NEW rest, NEW u, NEW v, Replaces(t, calls, n, rest, u, v),
           Linking(t, calls), Awaited(t, calls), LeftFirst(t, calls)
    PROVE  LeftFirst(u, v)
<1> DEFINE N == Len(t)  m == Len(calls)
<1>1. N \in Nat /\ m \in Nat \ {0}
    BY Indices
<1>2. DOMAIN t = 1..N /\ DOMAIN calls = 1..m
    BY Indices
<1>3. \A p \in 1..N : u[p].leaf = t[p].leaf /\ u[p].members = t[p].members
    BY DEF Replaces
<1>4. /\ \A p \in 1..N : \A s \in Sides :
            /\ IsFor(calls, m, p, s) => Child(u[p], s) = N
            /\ ~IsFor(calls, m, p, s) => Child(u[p], s) = Child(t[p], s)
      /\ \A p \in DOMAIN u : p \in 1..N \/ p = N + 1
      /\ u[N + 1] = n
    BY LinksMove
<1>5. /\ \A k \in DOMAIN v : v[k].parent # N =>
             k \in 1..(m - 1) /\ k \in DOMAIN calls /\ v[k] = calls[k]
      /\ \A k \in DOMAIN v : v[k].parent = N =>
             (k = m /\ v[k].side = "right") \/ (k = m + 1 /\ v[k].side = "left")
    BY CallsAre
<1> HIDE DEF N, m
<1>6. "left" \in Sides /\ "right" \in Sides /\ "left" # "right"
    BY DEF Sides
<1>7. ASSUME ~n.leaf
      PROVE  /\ n.left = 0 /\ n.right = 0
             /\ \A k, h \in DOMAIN v :
                  IsFor(v, k, N + 1, "left") /\ IsFor(v, h, N + 1, "right") => h < k
    <2>1. n.left = 0 /\ n.right = 0
        BY <1>7, Indices DEF Halves
    <2>2. ASSUME NEW k \in DOMAIN v, NEW h \in DOMAIN v,
                 IsFor(v, k, N + 1, "left"), IsFor(v, h, N + 1, "right")
          PROVE  h < k
        <3>1. v[k].parent = N /\ v[k].side = "left" /\ v[h].parent = N /\ v[h].side = "right"
            BY <1>1, <2>2, IsForNext
        <3>2. k = m + 1 /\ h = m
            BY <1>5, <1>6, <3>1
        <3> QED
            BY <1>1, <3>2
    <2> QED
        BY <2>1, <2>2
<1>8. ASSUME NEW p \in 1..N, NEW s, NEW k \in DOMAIN v, IsFor(v, k, p, s)
      PROVE  k \in 1..(m - 1) /\ k \in DOMAIN calls /\ IsFor(calls, k, p, s)
    <2>1. p - 1 # N
        BY <1>1
    <2>2. v[k].parent = p - 1
        BY <1>8 DEF IsFor
    <2>3. k \in 1..(m - 1) /\ k \in DOMAIN calls /\ v[k] = calls[k]
        BY <1>5, <2>1, <2>2
    <2> QED
        BY <1>8, <2>3 DEF IsFor
<1>9. ASSUME NEW p \in 1..N, ~t[p].leaf
      PROVE  /\ u[p].left = 0 => u[p].right = 0
             /\ \A k, h \in DOMAIN v : IsFor(v, k, p, "left") /\ IsFor(v, h, p, "right") => h < k
             /\ u[p].left # 0 => \A i \in u[u[p].left + 1].members : Earlier(u, v, p, i)
    <2>1. /\ t[p].left = 0 => t[p].right = 0
          /\ \A k, h \in DOMAIN calls :
                 IsFor(calls, k, p, "left") /\ IsFor(calls, h, p, "right") => h < k
          /\ t[p].left # 0 => \A i \in t[t[p].left + 1].members : Earlier(t, calls, p, i)
        BY <1>2, <1>9 DEF LeftFirst
    <2>2. \A k, h \in DOMAIN v : IsFor(v, k, p, "left") /\ IsFor(v, h, p, "right") => h < k
        BY <1>8, <2>1
    <2>3. m \in DOMAIN calls /\ t # <<>> /\ N # 0 /\ p - 1 + 1 = p
        <3>1. N # 0 /\ m \in DOMAIN calls /\ p - 1 + 1 = p
            BY <1>1, <1>2
        <3> QED
            BY <3>1, EmptySeq DEF N
    <2>4. \A s \in Sides : IsFor(calls, m, p, s) => Child(t[p], s) = 0
        <3>1. ASSUME NEW s \in Sides, IsFor(calls, m, p, s) PROVE Child(t[p], s) = 0
            <4>1. calls[m].parent = p - 1 /\ calls[m].side = s
                BY <3>1 DEF IsFor
            <4>2. Child(t[calls[m].parent + 1], calls[m].side) = 0
                BY <2>3 DEF Linking
            <4> QED
                BY <2>3, <4>1, <4>2
        <3> QED
            BY <3>1
    <2>5. t[p].left # 0 => u[t[p].left + 1].members = t[t[p].left + 1].members
        <3>1. t[p].left \in -1..(N - 1) /\ t[p].left # -1
            BY <1>2, <1>6, <1>9 DEF Linking, Child, N
        <3>2. t[p].left + 1 \in 1..N
            BY <1>1, <3>1
        <3> QED
            BY <1>3, <3>2
    <2>6. CASE IsFor(calls, m, p, "left")
        <3>1. Child(u[p], "left") = N /\ Child(t[p], "left") = 0
            BY <1>4, <1>6, <2>4, <2>6
        <3>2. ~IsFor(calls, m, p, "right")
            BY <1>6, <2>6 DEF IsFor
        <3>3. Child(u[p], "right") = Child(t[p], "right")
            BY <1>4, <1>6, <3>2
        <3>4. u[p].left = N /\ u[p].right = 0
            BY <1>6, <2>1, <3>1, <3>3 DEF Child
        <3>5. ASSUME NEW i \in n.members PROVE Earlier(u, v, p, i)
            <4>1. ASSUME NEW k \in DOMAIN v, IsFor(v, k, p, "right")
                  PROVE  Took(u, i) # {} \/ \E h \in Waits(v, i) : h > k
                <5>1. k \in 1..(m - 1)
                    BY <1>8, <4>1
                <5>2. Took(u, i) # {} \/ \E h \in Waits(v, i) : h >= m
                    BY NextHas DEF m
                <5>3. \A h \in Waits(v, i) : h \in Int
                    <6>1. DOMAIN v = 1..Len(v)
                        BY Indices
                    <6> QED
                        BY <6>1 DEF Waits
                <5>4. \A h \in Int : h >= m => h > k
                    BY <1>1, <5>1
                <5> QED
                    BY <5>2, <5>3, <5>4
            <4> QED
                BY <3>4, <4>1 DEF Earlier
        <3>6. u[u[p].left + 1] = n
            BY <1>4, <3>4
        <3> QED
            BY <2>2, <3>4, <3>5, <3>6
    <2>7. CASE IsFor(calls, m, p, "right")
        <3>1. t[p].left # 0
            <4>1. SUFFICES ASSUME t[p].left = 0 PROVE FALSE
                OBVIOUS
            <4>2. Child(t[p], "left") = 0
                BY <4>1 DEF Child
            <4>3. PICK k \in DOMAIN calls : IsFor(calls, k, p, "left")
                BY <1>2, <1>6, <1>9, <4>2 DEF Awaited
            <4>4. m < k /\ k \in 1..m
                BY <1>2, <2>1, <2>3, <2>7, <4>3
            <4> QED
                BY <1>1, <4>4
        <3>2. ~IsFor(calls, m, p, "left")
            BY <1>6, <2>7 DEF IsFor
        <3>3. Child(u[p], "left") = Child(t[p], "left") /\ Child(u[p], "right") = N
            BY <1>4, <1>6, <2>7, <3>2
        <3>4. u[p].left = t[p].left /\ u[p].right = N
            BY <1>6, <3>3 DEF Child
        <3>5. ASSUME NEW i \in t[t[p].left + 1].members PROVE Earlier(u, v, p, i)
            <4>1. Took(t, i) # {} \/ \E h \in Waits(calls, i) : h > m
                BY <2>1, <2>3, <2>7, <3>1 DEF Earlier
            <4>2. \A h \in Waits(calls, i) : ~(h > m)
                <5>1. \A h \in 1..m : ~(h > m)
                    BY <1>1
                <5> QED
                    BY <1>2, <5>1 DEF Waits
            <4>3. PICK j \in Took(t, i) : TRUE
                BY <4>1, <4>2
            <4>4. j \in 1..N /\ j \in Took(u, i)
                <5>1. Took(t, i) \subseteq Took(u, i)
                    BY RowsMove
                <5>2. j \in 1..N
                    BY <1>2, <4>3 DEF Took
                <5> QED
                    BY <4>3, <5>1, <5>2
            <4>5. j <= u[p].right
                BY <1>1, <3>4, <4>4
            <4>6. Took(u, i) # {}
                BY <4>4
            <4> QED
                BY <4>4, <4>5, <4>6 DEF Earlier
        <3> QED
            BY <2>2, <2>5, <3>1, <3>4, <3>5
    <2>8. CASE ~IsFor(calls, m, p, "left") /\ ~IsFor(calls, m, p, "right")
        <3>1. Child(u[p], "left") = Child(t[p], "left") /\ Child(u[p], "right") = Child(t[p], "right")
            BY <1>4, <1>6, <2>8
        <3>2. u[p].left = t[p].left /\ u[p].right = t[p].right
            BY <1>6, <3>1 DEF Child
        <3>3. ASSUME t[p].left # 0, NEW i \in t[t[p].left + 1].members PROVE Earlier(u, v, p, i)
            BY <1>2, <2>1, <2>8, <3>3, EarlierMoves DEF m
        <3> QED
            BY <2>1, <2>2, <2>5, <3>2, <3>3
    <2> QED
        BY <2>6, <2>7, <2>8
<1>10. ASSUME NEW p \in DOMAIN u, ~u[p].leaf
       PROVE  /\ u[p].left = 0 => u[p].right = 0
              /\ \A k, h \in DOMAIN v : IsFor(v, k, p, "left") /\ IsFor(v, h, p, "right") => h < k
              /\ u[p].left # 0 => \A i \in u[u[p].left + 1].members : Earlier(u, v, p, i)
    <2>1. CASE p \in 1..N
        BY <1>3, <1>9, <1>10, <2>1
    <2>2. CASE p = N + 1
        BY <1>4, <1>7, <1>10, <2>2
    <2> QED
        BY <1>4, <2>1, <2>2
<1> QED
    BY <1>10 DEF LeftFirst


\* All that is known of where the rows are is kept.
LEMMA PlacingMoves ==
    ASSUME NEW t, NEW calls, NEW n, NEW rest, NEW u, NEW v, Replaces(t, calls, n, rest, u, v),
           NEW d, Placing(t, calls, d), Awaited(t, calls),
           ~n.leaf => \A i \in n.members : d[i] < n.split * Unit => i \in rest[2].members
    PROVE  Placing(u, v, d)
<1>1. Within(u, v, d)
    BY WithinMoves DEF Placing
<1>2. Kept(u, v)
    <2>1. RootRows(u, v) = RootRows(t, calls)
        BY RootMoves
    <2>2. \A i \in RootRows(t, calls) : OnePlace(u, v, i)
        BY KeptMoves DEF Placing, Kept
    <2> QED
        BY <2>1, <2>2 DEF Kept
<1>3. Linking(u, v)
    BY LinkingMoves DEF Placing
<1>4. HandedOn(u, v, d)
    BY HandedOnMoves DEF Placing
<1>5. LeftFirst(u, v)
    BY LeftFirstMoves DEF Placing
<1> QED
    BY <1>1, <1>2, <1>3, <1>4, <1>5 DEF Placing

\* A branch's link that is not made is a call's, as a child is above 0.
LEMMA AwaitedIs ==
    ASSUME NEW t, NEW calls, NEW L, Growing(t, calls, L)
    PROVE  Awaited(t, calls)
<1>1. /\ t \in Seq(Nodes) /\ calls \in Seq(Calls)
      /\ DOMAIN t = 1..Len(t) /\ DOMAIN calls = 1..Len(calls)
    BY LenProperties DEF Growing
<1>2. ASSUME NEW p \in 1..Len(t), ~t[p].leaf, NEW s \in Sides, Child(t[p], s) = 0
      PROVE  \E k \in 1..Len(calls) : calls[k].parent = p - 1 /\ calls[k].side = s
    <2>1. ~Below(t, p, Child(t[p], s))
        <3>1. 0 \notin p..(Len(t) - 1)
            OBVIOUS
        <3> QED
            BY <1>2, <3>1 DEF Below
    <2> QED
        BY <1>2, <2>1 DEF Growing
<1> QED
    BY <1>1, <1>2 DEF Awaited, IsFor

\* A new tree is one call, for its root.
LEMMA PlacingBegins ==
    ASSUME NEW rows, NEW d, rows \subseteq DOMAIN d, NEW c, c.members = rows
    PROVE  Placing(<<>>, <<c>>, d)
<1>1. DOMAIN <<>> = {} /\ Len(<<>>) = 0 /\ DOMAIN <<c>> = {1} /\ <<c>>[1] = c
    <2>1. DOMAIN <<c>> = 1..1 /\ 1..1 = {1}
        OBVIOUS
    <2> QED
        BY <2>1, EmptySeq
<1> DEFINE t == <<>>  calls == <<c>>
<1>2. t = <<>> /\ DOMAIN t = {} /\ Len(t) = 0 /\ DOMAIN calls = {1} /\ calls[1] = c
    BY <1>1
<1>3. 1..(Len(t) - 1) = {}
    BY <1>2
<1> HIDE DEF t, calls
<1>4. RootRows(t, calls) = rows
    BY <1>2 DEF RootRows
<1>5. Within(t, calls, d)
    BY <1>2, <1>4 DEF Within
<1>6. Kept(t, calls)
    <2>1. ASSUME NEW i \in rows PROVE OnePlace(t, calls, i)
        <3>1. Took(t, i) = {}
            BY <1>2 DEF Took
        <3>2. Waits(calls, i) = {1}
            BY <1>2, <2>1 DEF Waits
        <3> QED
            BY <1>2, <3>1, <3>2 DEF OnePlace
    <2> QED
        BY <1>4, <2>1 DEF Kept
<1>7. Linking(t, calls)
    BY <1>2, <1>3 DEF Linking
<1>8. HandedOn(t, calls, d) /\ LeftFirst(t, calls)
    BY <1>2 DEF HandedOn, LeftFirst
<1>9. Placing(t, calls, d)
    BY <1>5, <1>6, <1>7, <1>8 DEF Placing
<1> QED
    BY <1>9 DEF t, calls

\* Grown and the calls that follow are what the last call leaves.
LEMMA GrownReplaces ==
    ASSUME NEW L \in Nat, Growing(tree, todo, L), todo # <<>>,
           NEW n \in Nodes, n.members = Last(todo).members, NEW rest \in Seq(Calls),
           n.leaf => n.left = -1 /\ n.right = -1 /\ Len(rest) = 0,
           ~n.leaf => Halves(n, rest, Len(tree))
    PROVE  Replaces(tree, todo, n, rest, Grown(Last(todo), n), Front(todo) \o rest)
<1> DEFINE c == Last(todo)  u == Grown(c, n)  v == Front(todo) \o rest  m == Len(todo)
           N == Len(tree)
<1>1. tree \in Seq(Nodes) /\ todo \in Seq(Calls) /\ N \in Nat /\ m \in Nat
    BY LenProperties DEF Growing
<1>2. m # 0
    BY <1>1, EmptySeq
<1>3. c = todo[m]
    BY DEF Last
<1>4. c \in Calls
    BY <1>1, <1>2, <1>3, ElementOfSeq
<1>5. /\ v \in Seq(Calls) /\ Len(v) = m - 1 + Len(rest)
      /\ \A k \in 1..(m - 1) : v[k] = todo[k]
      /\ \A k \in 1..Len(rest) : v[m - 1 + k] = rest[k]
    BY <1>1, ReplaceLast
<1>6. /\ u \in Seq(Nodes) /\ Len(u) = N + 1 /\ u[N + 1] = n
      /\ \A j \in 1..N :
           /\ u[j].leaf = tree[j].leaf /\ u[j].members = tree[j].members
           /\ u[j].split = tree[j].split
           /\ \A s \in Sides : Child(u[j], s) =
                IF c.parent = j - 1 /\ (s = "left" <=> c.side = "left")
                THEN N ELSE Child(tree[j], s)
    <2> HIDE DEF c
    <2> QED
        BY <1>1, <1>4, GrownShape
<1>7. DOMAIN todo = 1..m
    BY <1>1, LenProperties
<1>8. /\ tree = <<>> => m = 1
      /\ tree # <<>> => \A k \in DOMAIN todo :
             todo[k].parent \in 0..(N - 1) /\ todo[k].side \in Sides
    BY <1>7 DEF Growing, CallOK
<1> HIDE DEF c, u, v, m, N
<1>9. ASSUME NEW j \in 1..N, NEW s \in Sides
      PROVE  Child(u[j], s) = IF IsFor(todo, m, j, s) THEN N ELSE Child(tree[j], s)
    <2>1. tree # <<>>
        <3>1. 1..0 = {}
            OBVIOUS
        <3> QED
            BY <3>1, <1>9, EmptySeq DEF N
    <2>2. c.side \in Sides
        <3>1. m \in DOMAIN todo
            BY <1>1, <1>2, <1>7
        <3> QED
            BY <3>1, <2>1, <1>3, <1>8
    <2>3. (s = "left" <=> c.side = "left") <=> c.side = s
        BY <2>2 DEF Sides
    <2>4. IsFor(todo, m, j, s) <=> c.parent = j - 1 /\ c.side = s
        BY <1>3 DEF IsFor
    <2> QED
        BY <2>3, <2>4, <1>6
<1>10. m > 0
    BY <1>1, <1>2
<1>11. n.members = todo[m].members
    BY <1>3 DEF c
<1>12. Replaces(tree, todo, n, rest, u, v)
    BY <1>1, <1>5, <1>6, <1>8, <1>9, <1>10, <1>11 DEF Replaces, m, N
<1> QED
    BY <1>12 DEF c, u, v

\* A call that ends the recursion puts its rows in a leaf.
LEMMA LeafReplaces ==
    ASSUME NEW L \in Nat, Growing(tree, todo, L), Leaf
    PROVE  \E n, rest : Replaces(tree, todo, n, rest, tree', todo') /\ n.leaf
<1> DEFINE c == Last(todo)  n == Node(TRUE, c, 0)
<1>1. todo # <<>> /\ tree' = Grown(c, n) /\ todo' = Front(todo) /\ data' = data
    BY DEF Leaf
<1>2. todo \in Seq(Calls) /\ Len(todo) \in Nat \ {0}
    BY <1>1, EmptySeq, LenProperties DEF Growing
<1>3. c \in Calls
    BY <1>2, ElementOfSeq DEF Last
<1> HIDE DEF c
<1>4. /\ n \in Nodes /\ n.members = c.members /\ n.leaf
      /\ n.left = -1 /\ n.right = -1
    BY <1>3 DEF Node, Nodes, Calls
<1> HIDE DEF n
<1>5. <<>> \in Seq(Calls) /\ Len(<<>>) = 0
    BY EmptySeq
<1>6. Front(todo) \o <<>> = Front(todo)
    <2>1. Front(todo) \in Seq(Calls)
        BY <1>1, <1>2, FrontFacts
    <2> QED
        BY <2>1, ConcatEmptySeq
<1>7. Replaces(tree, todo, n, <<>>, Grown(c, n), Front(todo) \o <<>>)
    BY <1>1, <1>4, <1>5, GrownReplaces DEF c
<1>8. Replaces(tree, todo, n, <<>>, tree', todo')
    BY <1>1, <1>6, <1>7
<1> QED
    BY <1>4, <1>8

\* Keeping a cut in whole milliseconds lowers it.
LEMMA CutIsLowered ==
    ASSUME NEW cut \in Int
    PROVE  CutKept(cut) \in Int /\ CutKept(cut) * Unit \in Int /\ CutKept(cut) * Unit <= cut
<1>1. Unit \in Nat /\ Unit > 0
    BY LatencyForestAssumption
<1> QED
    BY <1>1 DEF CutKept

\* A branch gives the rows of its call to the calls for its sides: below the
\* cut left, which takes in the rows below the cut it keeps.
LEMMA SplitReplaces ==
    ASSUME data \in Seq(Nat), NEW L \in Nat, Growing(tree, todo, L),
           Within(tree, todo, data), Split
    PROVE  \E n, rest :
              /\ Replaces(tree, todo, n, rest, tree', todo')
              /\ ~n.leaf /\ ~(Cardinality(n.members) <= 1)
              /\ \A i \in n.members : data[i] < n.split * Unit => i \in rest[2].members
<1> DEFINE c == Last(todo)
<1>1. PICK cut \in Cuts(c.members) :
         LET below == {i \in c.members : data[i] < cut}
         IN  /\ tree' = Grown(c, Node(FALSE, c, CutKept(cut)))
             /\ todo' = Front(todo) \o
                    <<Call(AtLeast(cut, c.members), c.level + 1, Len(tree), "right"),
                      Call(below, c.level + 1, Len(tree), "left")>>
    BY DEF Split
<1> DEFINE below == {i \in c.members : data[i] < cut}
           above == AtLeast(cut, c.members)
           n == Node(FALSE, c, CutKept(cut))
           right == Call(above, c.level + 1, Len(tree), "right")
           left == Call(below, c.level + 1, Len(tree), "left")
           rest == <<right, left>>
<1>2. todo # <<>> /\ data' = data /\ tree' = Grown(c, n) /\ todo' = Front(todo) \o rest
    BY <1>1 DEF Split
<1>3. todo \in Seq(Calls) /\ Len(todo) \in Nat \ {0} /\ DOMAIN todo = 1..Len(todo)
      /\ Len(tree) \in Nat
    BY <1>2, EmptySeq, LenProperties DEF Growing
<1>4. c = todo[Len(todo)] /\ c \in Calls /\ Len(todo) \in DOMAIN todo
    BY <1>3, ElementOfSeq DEF Last
<1>5. c.members \subseteq DOMAIN data /\ ~(Cardinality(c.members) <= 1)
    BY <1>4 DEF Within, Split, Stops
<1> HIDE DEF c
<1>6. \A i \in c.members : data[i] \in Nat
    BY <1>5, ElementOfSeq, LenProperties
<1>7. cut \in Int
    <2>1. PICK i \in c.members : cut \in UNION {data[i]..(data[j] - 1) : j \in c.members}
        BY <1>1 DEF Cuts
    <2>2. PICK j \in c.members : cut \in data[i]..(data[j] - 1)
        BY <2>1
    <2> QED
        BY <1>6, <2>2
<1>8. CutKept(cut) \in Int /\ CutKept(cut) * Unit \in Int /\ CutKept(cut) * Unit <= cut
    BY <1>7, CutIsLowered
<1>9. n \in Nodes /\ n.members = c.members /\ ~n.leaf /\ n.left = 0 /\ n.right = 0
      /\ n.split = CutKept(cut)
    BY <1>4, <1>8 DEF Node, Nodes, Calls
<1>10. above \cup below = c.members /\ above \cap below = {}
    <2>1. \A i \in c.members : data[i] >= cut <=> ~(data[i] < cut)
        BY <1>6, <1>7
    <2> QED
        BY <2>1 DEF AtLeast
<1>11. \A i \in c.members : data[i] < n.split * Unit => i \in below
    <2> DEFINE k == n.split * Unit
    <2>1. k \in Int /\ k <= cut
        <3>1. k = CutKept(cut) * Unit
            BY <1>9
        <3> QED
            BY <1>8, <3>1
    <2> HIDE DEF k, n
    <2>2. \A i \in c.members : data[i] < k => data[i] < cut
        BY <1>6, <1>7, <2>1
    <2> QED
        BY <2>2 DEF k
<1>12. c.level + 1 \in Nat /\ c.members \in SUBSET Nat
    BY <1>4 DEF Calls
<1>13. right \in Calls /\ left \in Calls
    <2>1. below \in SUBSET Nat /\ above \in SUBSET Nat
        BY <1>12 DEF AtLeast
    <2> HIDE DEF below, above
    <2> QED
        BY <1>3, <1>12, <2>1 DEF Calls, Call, Sides
<1>14. /\ right.side = "right" /\ right.parent = Len(tree) /\ right.members = above
       /\ left.side = "left" /\ left.parent = Len(tree) /\ left.members = below
    BY DEF Call
<1> HIDE DEF n, right, left, above, below
<1>15. rest \in Seq(Calls) /\ Len(rest) = 2 /\ rest[1] = right /\ rest[2] = left
    BY <1>13
<1> HIDE DEF rest
<1>16. Halves(n, rest, Len(tree))
    BY <1>9, <1>10, <1>14, <1>15 DEF Halves
<1>17. Replaces(tree, todo, n, rest, Grown(c, n), Front(todo) \o rest)
    BY <1>2, <1>9, <1>15, <1>16, GrownReplaces DEF c
<1>18. Replaces(tree, todo, n, rest, tree', todo')
    BY <1>2, <1>17
<1>19. \A i \in n.members : data[i] < n.split * Unit => i \in rest[2].members
    BY <1>9, <1>11, <1>14, <1>15
<1> QED
    BY <1>5, <1>9, <1>18, <1>19

\* So either keeps the rows where they are.
LEMMA CallPlaces ==
    ASSUME data \in Seq(Nat), NEW L \in Nat, Growing(tree, todo, L),
           Placing(tree, todo, data), Leaf \/ Split
    PROVE  Placing(tree', todo', data')
<1>1. Awaited(tree, todo) /\ Within(tree, todo, data) /\ data' = data
    BY AwaitedIs DEF Leaf, Split, Placing
<1>2. PICK n, rest :
          /\ Replaces(tree, todo, n, rest, tree', todo')
          /\ ~n.leaf => \A i \in n.members : data[i] < n.split * Unit => i \in rest[2].members
    BY <1>1, LeafReplaces, SplitReplaces
<1> QED
    BY <1>1, <1>2, PlacingMoves

\* A training keeps the rows of its trees where they are.
LEMMA PlacesTrain ==
    ASSUME Inv, Places, Train
    PROVE  Places'
<1>1. ASSUME pc \in {"sample", "build"}
      PROVE  /\ data \in Seq(Nat) /\ Levels(size) \in Nat /\ forest \in Seq(Seq(Nodes))
             /\ pc = "build" => Growing(tree, todo, Levels(size))
    BY <1>1, LevelsNat DEF Inv, Training
<1>2. pc' # "walk"
    BY DEF Train, StartTrain, Sample, Leaf, Split, TreeDone, WriteNothing, WriteTrees,
           CrashWriting, Trained, Return
<1>3. ASSUME NEW d \in Datasets, NEW s \in SubSamples, NEW n \in TreeCounts, StartTrain(d, s, n)
      PROVE  PlacesMade' /\ UNCHANGED file
    <2>1. pc' = "sample" /\ Len(forest') = 0 /\ UNCHANGED file
        BY <1>3, EmptySeq DEF StartTrain
    <2> QED
        BY <2>1 DEF PlacesMade
<1>4. ASSUME Sample PROVE PlacesMade' /\ UNCHANGED file
    <2>1. pc = "sample" /\ pc' = "build" /\ tree' = <<>> /\ UNCHANGED <<data, forest, file>>
        BY <1>4 DEF Sample
    <2>2. PICK rows \in SUBSET (DOMAIN data) : todo' = <<Call(rows, 0, -1, "root")>>
        BY <1>4 DEF Sample
    <2> DEFINE c == Call(rows, 0, -1, "root")
    <2>3. c.members = rows
        BY DEF Call
    <2>4. todo' = <<c>>
        BY <2>2
    <2> HIDE DEF c
    <2>5. Placing(tree', todo', data)
        BY <2>1, <2>2, <2>3, <2>4, PlacingBegins
    <2> QED
        BY <2>1, <2>5 DEF Places, PlacesMade
<1>5. ASSUME Leaf \/ Split PROVE PlacesMade' /\ UNCHANGED file
    <2>1. pc = "build" /\ pc' = "build" /\ UNCHANGED <<data, forest, file>>
        BY <1>5 DEF Leaf, Split
    <2>2. Placing(tree, todo, data)
        BY <2>1 DEF Places, PlacesMade
    <2>3. Placing(tree', todo', data')
        BY <1>1, <1>5, <2>1, <2>2, CallPlaces
    <2> QED
        BY <2>1, <2>3 DEF Places, PlacesMade
<1>6. ASSUME TreeDone PROVE PlacesMade' /\ UNCHANGED file
    <2>1. /\ pc = "build" /\ pc' = "sample" /\ todo = <<>> /\ forest' = Append(forest, tree)
          /\ UNCHANGED <<data, file>>
        BY <1>6 DEF TreeDone
    <2>2. Placed(tree, data) /\ \A n \in 1..Len(forest) : Placed(forest[n], data)
        BY <2>1 DEF Places, PlacesMade, Placed
    <2>3. tree \in Seq(Nodes)
        BY <1>1, <2>1 DEF Growing
    <2>4. /\ Len(forest') = Len(forest) + 1 /\ Len(forest) \in Nat
          /\ \A n \in 1..Len(forest') :
                forest'[n] = IF n <= Len(forest) THEN forest[n] ELSE tree
        <3> DEFINE S == Seq(Nodes)
        <3> HIDE DEF S
        <3>1. forest \in Seq(S) /\ tree \in S
            BY <1>1, <2>1, <2>3 DEF S
        <3> QED
            BY <3>1, <2>1, AppendProperties DEF S
    <2>5. \A n \in 1..Len(forest') : Placed(forest'[n], data)
        <3> TAKE n \in 1..Len(forest')
        <3>1. CASE n <= Len(forest)
            BY <3>1, <2>2, <2>4
        <3>2. CASE ~(n <= Len(forest))
            BY <3>2, <2>2, <2>4
        <3> QED
            BY <3>1, <3>2
    <2> QED
        BY <2>1, <2>5 DEF PlacesMade
<1>7. ASSUME WriteNothing PROVE PlacesMade' /\ UNCHANGED file
    BY <1>7 DEF WriteNothing, Return, PlacesMade
<1>8. ASSUME WriteTrees PROVE PlacesMade' /\ PlacesFiled'
    <2>1. /\ pc = "sample" /\ pc' = "prompt" /\ file'.whole = TRUE
          /\ file'.trees = forest /\ file'.data = data
        BY <1>8 DEF WriteTrees, Trained, Return
    <2> QED
        BY <1>1, <2>1 DEF Places, PlacesMade, PlacesFiled
<1>9. ASSUME CrashWriting PROVE PlacesMade' /\ PlacesFiled'
    <2>1. pc' = "prompt" /\ file'.whole = FALSE
        BY <1>9 DEF CrashWriting, Return
    <2> QED
        BY <2>1 DEF PlacesMade, PlacesFiled
<1>10. UNCHANGED file => PlacesFiled'
    BY DEF Places, PlacesFiled
<1> QED
    BY <1>2, <1>3, <1>4, <1>5, <1>6, <1>7, <1>8, <1>9, <1>10 DEF Train, Places, Following

\* In a finished tree a row handed to a side is in the child there.
LEMMA InChild ==
    ASSUME NEW t, NEW p, NEW s, NEW i, HandedTo(t, <<>>, p, s, i)
    PROVE  Child(t[p], s) # 0 /\ i \in t[Child(t[p], s) + 1].members
<1>1. DOMAIN <<>> = {}
    BY EmptySeq
<1> QED
    BY <1>1 DEF HandedTo

\* A walk for a row goes the way the row went, or right of it.
LEMMA GoesOn ==
    ASSUME NEW t, NEW d, Placed(t, d), NEW p \in DOMAIN t, ~t[p].leaf,
           \A r \in Sides : Child(t[p], r) # 0, NEW i \in t[p].members,
           NEW s \in Sides, d[i] < t[p].split * Unit <=> s = "left"
    PROVE  LET c == Child(t[p], s)
           IN  i \in t[c + 1].members \/ \E j \in Took(t, i) : j <= c
<1>1. Placing(t, <<>>, d)
    BY DEF Placed
<1>2. /\ HandedTo(t, <<>>, p, "left", i) \/ HandedTo(t, <<>>, p, "right", i)
      /\ d[i] < t[p].split * Unit => HandedTo(t, <<>>, p, "left", i)
    BY <1>1 DEF Placing, HandedOn
<1>3. CASE HandedTo(t, <<>>, p, s, i)
    BY <1>3, InChild
<1>4. CASE ~HandedTo(t, <<>>, p, s, i)
    <2>1. s = "right" /\ HandedTo(t, <<>>, p, "left", i)
        BY <1>2, <1>4 DEF Sides
    <2>2. t[p].left # 0 /\ i \in t[t[p].left + 1].members
        BY <2>1, InChild DEF Child
    <2>3. Earlier(t, <<>>, p, i)
        BY <1>1, <2>2 DEF Placing, LeftFirst
    <2>4. t[p].right # 0
        BY DEF Sides, Child
    <2> QED
        BY <2>1, <2>3, <2>4 DEF Earlier, Child
<1> QED
    BY <1>3, <1>4

\* A path begins at a root, which has every row of its tree.
LEMMA PathBegins ==
    ASSUME at' = 0
    PROVE  Following'
<1>1. Here' = (forest[nth][1])'
    BY DEF Here
<1> QED
    BY <1>1 DEF Following, OnTheWay

\* In a whole file a step down keeps the walk for a row above its leaf, or
\* where the row is.
LEMMA FollowsDown ==
    ASSUME Inv, Places, WalkDown
    PROVE  Following'
<1>1. pc = "walk" /\ file # Absent /\ UNCHANGED file /\ Here.leaf # TRUE
    BY DEF WalkDown, Inv, Walking
<1>2. PICK child \in Turns(Here) :
         IF child = 0
         THEN /\ pc' = "dead" /\ forest' = <<>> /\ NotWalking
         ELSE /\ at' = child /\ depth' = depth + 1
              /\ UNCHANGED <<pc, forest, ask, x, nth, total>>
    BY DEF WalkDown
<1>3. CASE child = 0
    BY <1>2, <1>3 DEF Following
<1>4. CASE ~file.whole
    BY <1>1, <1>4 DEF Following
<1>5. CASE child # 0 /\ file.whole
    <2> DEFINE t == forest[nth]  p == at + 1
    <2>1. /\ forest = file.trees /\ nth \in 1..Len(forest) /\ at \in 0..(Len(t) - 1)
          /\ Here \in Nodes /\ Here = t[p] /\ Sound(t, Levels(file.size))
        BY <1>1, <1>5, WalkStands DEF Inside
    <2>2. ~t[p].leaf /\ t[p].split \in Int
        BY <1>1, <2>1 DEF Nodes
    <2>3. t \in Seq(Nodes) /\ Len(t) \in Nat /\ DOMAIN t = 1..Len(t)
        BY <2>1, LenProperties DEF Sound
    <2>4. /\ at' = child /\ UNCHANGED <<pc, forest, x, nth>>
        BY <1>2, <1>5
    <2>5. file.data \in Seq(Nat) /\ Placed(t, file.data)
        BY <1>1, <1>5, <2>1 DEF Places, PlacesFiled
    <2>6. child = IF x < t[p].split * Unit THEN t[p].left ELSE t[p].right
        <3>1. t[p].split # Junk
            BY <2>2, LatencyForestAssumption
        <3> QED
            BY <1>2, <2>1, <3>1 DEF Turns
    <2>7. t' = t /\ Here' = t[child + 1]
        BY <2>4 DEF Here
    <2> HIDE DEF t
    <2>8. p \in 1..Len(t) /\ p \in DOMAIN t /\ at \in Int
        BY <2>1, <2>3
    <2>9. \A s \in Sides : Child(t[p], s) \in p..(Len(t) - 1)
        BY <2>1, <2>2, <2>8 DEF Sound, Below
    <2> HIDE DEF p
    <2>10. \A s \in Sides : Child(t[p], s) # 0 /\ Child(t[p], s) \in Int
        <3>1. \A c \in p..(Len(t) - 1) : c # 0 /\ c \in Int
            BY <2>3, <2>8
        <3> QED
            BY <2>9, <3>1
    <2>11. PICK s \in Sides : child = Child(t[p], s) /\ (x < t[p].split * Unit <=> s = "left")
        BY <2>6 DEF Sides, Child
    <2>12. at <= child /\ child \in Int
        <3>1. \A c \in p..(Len(t) - 1) : at <= c
            BY <2>3, <2>8 DEF p
        <3> QED
            BY <2>9, <2>10, <2>11, <3>1
    <2>13. ASSUME NEW i \in DOMAIN file.data, x = file.data[i], i \in t[1].members
           PROVE  i \in t[child + 1].members \/ \E j \in Took(t, i) : j <= child
        <3>1. i \in t[p].members \/ \E j \in Took(t, i) : j <= at
            BY <1>1, <1>5, <2>1, <2>13 DEF Places, Following, OnTheWay, t
        <3>2. CASE i \in t[p].members
            <4>1. \A r \in Sides : Child(t[p], r) # 0
                BY <2>10
            <4> QED
                BY <2>2, <2>5, <2>8, <2>11, <2>13, <3>2, <4>1, GoesOn
        <3>3. CASE \E j \in Took(t, i) : j <= at
            <4>1. PICK j \in Took(t, i) : j <= at
                BY <3>3
            <4>2. j \in 1..Len(t)
                BY <2>3 DEF Took
            <4>3. j <= child
                BY <2>3, <2>8, <2>12, <4>1, <4>2
            <4> QED
                BY <4>1, <4>3
        <3> QED
            BY <3>1, <3>2, <3>3
    <2> QED
        BY <1>1, <2>4, <2>7, <2>13 DEF Following, OnTheWay, t
<1> QED
    BY <1>3, <1>4, <1>5

\* A prediction keeps the walks for the rows of a training on their way.
LEMMA PlacesPredict ==
    ASSUME Inv, Places, Predict
    PROVE  Places'
<1>1. UNCHANGED file /\ pc' \in {"prompt", "walk", "dead"}
    BY PredictKeepsFile, PredictStep
<1>2. PlacesMade' /\ PlacesFiled'
    BY <1>1 DEF Places, PlacesMade, PlacesFiled
<1>3. ASSUME NEW l, pc = "walk", PathDone(l), UNCHANGED file PROVE Following'
    <2>1. CASE nth < Len(forest)
        BY <1>3, <2>1, PathBegins DEF PathDone
    <2>2. CASE ~(nth < Len(forest))
        BY <1>3, <2>2 DEF PathDone, Following
    <2> QED
        BY <2>1, <2>2
<1>4. ASSUME LoadFails \/ Restart PROVE Following'
    BY <1>4 DEF LoadFails, Restart, Following
<1>5. ASSUME NEW s \in SubSamples, NEW l \in Live, StartPredict(s, l) PROVE Following'
    <2>1. at' = 0 /\ nth' = 1
        BY <1>5 DEF StartPredict
    <2> QED
        BY <2>1, <1>1, PathBegins DEF StartPredict
<1>6. ASSUME WalkOut PROVE Following'
    BY <1>1, <1>3, <1>6 DEF WalkOut
<1>7. ASSUME WalkLeaf PROVE Following'
    BY <1>1, <1>3, <1>7 DEF WalkLeaf
<1>8. ASSUME WalkDown PROVE Following'
    BY <1>8, FollowsDown
<1>9. Following'
    BY <1>4, <1>5, <1>6, <1>7, <1>8 DEF Predict
<1> QED
    BY <1>2, <1>9 DEF Places

\* Where the rows are said to be holds in every reachable state.
LEMMA PlacesHold == Spec => []Places
<1>1. Init => Places
    <2> SUFFICES ASSUME Init PROVE Places
        OBVIOUS
    <2>1. pc = "prompt" /\ file = Absent
        BY DEF Init
    <2> QED
        BY <2>1 DEF Places, PlacesMade, PlacesFiled, Following
<1>2. Inv /\ Places /\ [Next]_vars => Places'
    <2> SUFFICES ASSUME Inv, Places, [Next]_vars PROVE Places'
        OBVIOUS
    <2>1. CASE Train
        BY <2>1, PlacesTrain
    <2>2. CASE Predict
        BY <2>2, PlacesPredict
    <2>3. CASE UNCHANGED vars
        <3>1. /\ UNCHANGED <<pc, data, tree, todo, forest, file, x, nth, at>>
              /\ Here' = Here
            BY <2>3 DEF vars, making, walking, Here
        <3> QED
            BY <3>1 DEF Places, PlacesMade, PlacesFiled, Following, OnTheWay
    <2> QED
        BY <2>1, <2>2, <2>3 DEF Next
<1> QED
    BY <1>1, <1>2, InductiveInvariant, PTL DEF Spec

\* A row in one place is counted once.
LEMMA CountedOnce ==
    ASSUME NEW t, NEW calls, NEW i, OnePlace(t, calls, i)
    PROVE  Cardinality(Took(t, i)) + Cardinality(Waits(calls, i)) = 1
<1>1. Cardinality({}) = 0 /\ \A j : Cardinality({j}) = 1
    BY FS_EmptySet, FS_Singleton
<1>2. CASE Waits(calls, i) = {} /\ \E j \in DOMAIN t : Took(t, i) = {j}
    <2>1. Cardinality(Took(t, i)) = 1 /\ Cardinality(Waits(calls, i)) = 0
        BY <1>1, <1>2
    <2> QED
        BY <2>1
<1>3. CASE Took(t, i) = {} /\ \E k \in DOMAIN calls : Waits(calls, i) = {k}
    <2>1. Cardinality(Took(t, i)) = 0 /\ Cardinality(Waits(calls, i)) = 1
        BY <1>1, <1>3
    <2> QED
        BY <2>1
<1> QED
    BY <1>2, <1>3 DEF OnePlace

\* So is a node that is the child of one node, at one side.
LEMMA ParentOnce ==
    ASSUME NEW t, NEW c, OneParent(t, c)
    PROVE  Cardinality({p \in DOMAIN t : t[p].left = c}) +
           Cardinality({p \in DOMAIN t : t[p].right = c}) = 1
<1> DEFINE A == {p \in DOMAIN t : t[p].left = c}  B == {p \in DOMAIN t : t[p].right = c}
<1>1. Cardinality({}) = 0 /\ \A j : Cardinality({j}) = 1
    BY FS_EmptySet, FS_Singleton
<1>2. PICK p \in DOMAIN t, s \in Sides :
          /\ Child(t[p], s) = c
          /\ \A q \in DOMAIN t : \A r \in Sides : Child(t[q], r) = c => q = p /\ r = s
    BY DEF OneParent
<1>3. /\ "left" \in Sides /\ "right" \in Sides /\ "left" # "right"
      /\ \A q \in DOMAIN t : Child(t[q], "left") = t[q].left /\ Child(t[q], "right") = t[q].right
    BY DEF Sides, Child
<1>4. A = (IF s = "left" THEN {p} ELSE {}) /\ B = (IF s = "right" THEN {p} ELSE {})
    <2>1. CASE s = "left"
        BY <1>2, <1>3, <2>1
    <2>2. CASE s = "right"
        BY <1>2, <1>3, <2>2
    <2> QED
        BY <2>1, <2>2 DEF Sides
<1> HIDE DEF A, B
<1>5. \/ Cardinality(A) = 1 /\ Cardinality(B) = 0
      \/ Cardinality(A) = 0 /\ Cardinality(B) = 1
    BY <1>1, <1>3, <1>4 DEF Sides
<1>6. Cardinality(A) + Cardinality(B) = 1
    BY <1>5
<1> QED
    BY <1>6 DEF A, B

(***************************************************************************)
(* How many rows the trees have, and what that makes of a score.           *)
(***************************************************************************)

\* The rows a tree was grown from.
RowsOf(t) == Cardinality(t[1].members)

\* A tree has from one row to as many as c(m) is given for; one row is a leaf.
Sized(t, calls) ==
    /\ IsFiniteSet(RootRows(t, calls)) /\ Cardinality(RootRows(t, calls)) \in 1..8
    /\ t # <<>> => (RowsOf(t) = 1 => t[1].leaf)

SizesMade ==
    pc \in {"sample", "build"} =>
        /\ size \in 1..8
        /\ \A n \in 1..Len(forest) : Sized(forest[n], <<>>)
        /\ pc = "build" => Sized(tree, todo)

SizesFiled ==
    file # Absent => (file.whole => \A n \in 1..Len(file.trees) : Sized(file.trees[n], <<>>))

\* No tree of the forest is a single node.
Grows == \A n \in 1..Len(forest) : Len(forest[n]) # 1

\* The paths of the trees walked so far are as long as the trees make them.
Scoring ==
    pc = "walk" => (file.whole =>
        /\ ask \in Int /\ total \in Nat
        /\ Grows => total >= 10000 * (nth - 1)
        /\ total = 0 <=> \A n \in 1..(nth - 1) : RowsOf(forest[n]) = 1)

Sizes == SizesMade /\ SizesFiled /\ Scoring

\* c(m) is 0 for one row and less, and grows no further than the table.
LEMMA CValues ==
    /\ \A m \in 1..8 : C(m) \in Nat /\ (C(m) = 0 <=> m = 1)
    /\ \A m \in Int : m <= 7 => C(m) \in Nat /\ C(m) <= 30237
    /\ \A m \in Int : m <= 1 => C(m) = 0
<1>1. /\ C(2) = 10000 /\ C(3) = 12074 /\ C(4) = 18517 /\ C(5) = 23270
      /\ C(6) = 27066 /\ C(7) = 30237 /\ C(8) = 32963
    BY DEF C
<1>2. \A m \in Int : m <= 1 => C(m) = 0
    BY DEF C
<1>3. \A m \in 1..8 : m = 1 \/ m = 2 \/ m = 3 \/ m = 4 \/ m = 5 \/ m = 6 \/ m = 7 \/ m = 8
    OBVIOUS
<1>4. C(1) = 0
    BY <1>2
<1>5. \A m \in 1..8 : C(m) \in Nat /\ (C(m) = 0 <=> m = 1)
    BY <1>1, <1>3, <1>4
<1>6. \A m \in Int : m <= 7 => m <= 1 \/ m = 2 \/ m = 3 \/ m = 4 \/ m = 5 \/ m = 6 \/ m = 7
    OBVIOUS
<1>7. \A m \in Int : m <= 7 => C(m) \in Nat /\ C(m) <= 30237
    BY <1>1, <1>2, <1>6
<1> QED
    BY <1>2, <1>5, <1>7

\* A finished tree has one node at level 0, and no other if that is a leaf.
LEMMA RootAlone ==
    ASSUME NEW t, NEW L \in Nat, Sound(t, L), NEW d, Placed(t, d)
    PROVE  /\ t[1].leaf => Len(t) = 1
           /\ \A j \in DOMAIN t : t[j].level = 0 => j = 1
<1>1. t \in Seq(Nodes) /\ Len(t) \in Nat \ {0} /\ DOMAIN t = 1..Len(t)
    BY EmptySeq, LenProperties DEF Sound
<1>2. ASSUME NEW c \in 1..(Len(t) - 1)
      PROVE  \E p \in DOMAIN t : ~t[p].leaf /\ c \in p..(Len(t) - 1) /\ t[c + 1].level = t[p].level + 1
    <2>1. Linking(t, <<>>)
        BY DEF Placed, Placing
    <2>2. PICK p \in DOMAIN t, s \in Sides : Child(t[p], s) = c
        BY <1>2, <2>1 DEF Linking, OneParent
    <2>3. c # -1
        BY <1>1, <1>2
    <2>4. ~t[p].leaf
        BY <2>1, <2>2, <2>3 DEF Linking
    <2>5. Below(t, p, c)
        BY <1>1, <2>2, <2>4 DEF Sound
    <2> QED
        BY <2>4, <2>5 DEF Below
<1>3. ASSUME t[1].leaf, Len(t) # 1 PROVE FALSE
    <2>1. 1 \in 1..(Len(t) - 1)
        BY <1>1, <1>3
    <2>2. PICK p \in DOMAIN t : ~t[p].leaf /\ 1 \in p..(Len(t) - 1)
        BY <1>2, <2>1
    <2>3. p = 1
        BY <1>1, <2>2
    <2> QED
        BY <1>3, <2>2, <2>3
<1>4. ASSUME NEW j \in DOMAIN t, t[j].level = 0, j # 1 PROVE FALSE
    <2>1. j - 1 \in 1..(Len(t) - 1) /\ j - 1 + 1 = j
        BY <1>1, <1>4
    <2>2. PICK p \in DOMAIN t : t[j].level = t[p].level + 1
        BY <1>2, <2>1
    <2>3. t[p].level \in Nat
        <3>1. t[p] \in Nodes
            BY <1>1, ElementOfSeq
        <3> QED
            BY <3>1 DEF Nodes
    <2>4. t[p].level + 1 # 0
        BY <2>3
    <2> QED
        BY <1>4, <2>2, <2>4
<1> QED
    BY <1>3, <1>4

\* The first node of a tree has the rows, as a call and as a node.
LEMMA SizedMoves ==
    ASSUME NEW t, NEW calls, NEW n, NEW rest, NEW u, NEW v, Replaces(t, calls, n, rest, u, v),
           n.leaf \/ ~(Cardinality(n.members) <= 1), Sized(t, calls)
    PROVE  Sized(u, v)
<1>1. u # <<>> /\ RootRows(u, v) = RootRows(t, calls) /\ u[1].members = RootRows(t, calls)
    BY RootMoves
<1>2. ASSUME RowsOf(u) = 1 PROVE u[1].leaf
    <2>1. CASE t = <<>>
        <3>1. u[1] = n
            <4>1. Len(t) = 0 /\ 0 + 1 = 1
                BY <2>1, EmptySeq
            <4>2. u[Len(t) + 1] = n
                BY DEF Replaces
            <4> QED
                BY <4>1, <4>2
        <3>2. Cardinality(n.members) <= 1
            BY <1>2, <3>1 DEF RowsOf
        <3> QED
            BY <3>1, <3>2
    <2>2. CASE t # <<>>
        <3>1. 1 \in 1..Len(t)
            <4>1. Len(t) \in Nat /\ Len(t) # 0
                BY <2>2, EmptySeq, LenProperties DEF Replaces
            <4> QED
                BY <4>1
        <3>2. u[1].leaf = t[1].leaf /\ u[1].members = t[1].members
            BY <3>1 DEF Replaces
        <3> QED
            BY <1>2, <2>2, <3>2 DEF RowsOf, Sized
    <2> QED
        BY <2>1, <2>2
<1> QED
    BY <1>1, <1>2 DEF Sized

\* A sample is of one row or more, and of no more than size.
LEMMA SampleSized ==
    ASSUME data \in Seq(Nat), size \in 1..8, Sample
    PROVE  Sized(tree', todo')
<1>1. data # <<>> /\ tree' = <<>>
    BY DEF Sample
<1>2. PICK rows \in SUBSET (DOMAIN data) :
          Cardinality(rows) = SampleSize /\ todo' = <<Call(rows, 0, -1, "root")>>
    BY DEF Sample
<1>3. Len(data) \in Nat \ {0} /\ DOMAIN data = 1..Len(data)
    BY <1>1, EmptySeq, LenProperties
<1>4. IsFiniteSet(rows)
    <2>1. IsFiniteSet(1..Len(data))
        BY <1>3, FS_Interval
    <2> QED
        BY <1>2, <1>3, <2>1, FS_Subset
<1>5. Cardinality(rows) \in 1..8
    <2>1. SampleSize = IF size < Len(data) THEN size ELSE Len(data)
        BY DEF SampleSize
    <2>2. \A k \in Nat \ {0} : (IF size < k THEN size ELSE k) \in 1..8
        OBVIOUS
    <2>3. SampleSize \in 1..8
        BY <1>3, <2>1, <2>2, Zenon
    <2> QED
        BY <1>2, <2>3
<1> DEFINE c == Call(rows, 0, -1, "root")
<1>6. c.members = rows
    BY DEF Call
<1>7. todo' = <<c>>
    BY <1>2
<1> HIDE DEF c
<1>8. todo'[1] = c
    BY <1>7
<1>9. RootRows(tree', todo') = rows
    BY <1>1, <1>6, <1>8 DEF RootRows
<1> QED
    BY <1>1, <1>4, <1>5, <1>9 DEF Sized

\* A training keeps the sizes of its trees.
LEMMA SizesTrain ==
    ASSUME Inv, Places, Sizes, Train
    PROVE  Sizes'
<1>1. ASSUME pc \in {"sample", "build"}
      PROVE  /\ data \in Seq(Nat) /\ Levels(size) \in Nat /\ forest \in Seq(Seq(Nodes))
             /\ size \in 1..8
             /\ pc = "build" => /\ Growing(tree, todo, Levels(size)) /\ Sized(tree, todo)
                                /\ Within(tree, todo, data)
    BY <1>1, LevelsNat DEF Inv, Training, Sizes, SizesMade, Places, PlacesMade, Placing
<1>2. pc' # "walk"
    BY DEF Train, StartTrain, Sample, Leaf, Split, TreeDone, WriteNothing, WriteTrees,
           CrashWriting, Trained, Return
<1>3. ASSUME NEW d \in Datasets, NEW s \in SubSamples, NEW n \in TreeCounts, StartTrain(d, s, n)
      PROVE  SizesMade' /\ UNCHANGED file
    <2>1. pc' = "sample" /\ Len(forest') = 0 /\ UNCHANGED file
        BY <1>3, EmptySeq DEF StartTrain
    <2>2. size' = IF s < 2 THEN 2 ELSE s
        BY <1>3 DEF StartTrain
    <2>3. s \in Int /\ s <= 8
        BY LatencyForestAssumption, FewRowsAssumption
    <2>4. size' \in 1..8
        BY <2>2, <2>3
    <2> QED
        BY <2>1, <2>4 DEF SizesMade
<1>4. ASSUME Sample PROVE SizesMade' /\ UNCHANGED file
    <2>1. pc = "sample" /\ pc' = "build" /\ UNCHANGED <<data, size, forest, file>>
        BY <1>4 DEF Sample
    <2>2. Sized(tree', todo')
        BY <1>1, <1>4, <2>1, SampleSized
    <2> QED
        BY <2>1, <2>2 DEF Sizes, SizesMade
<1>5. ASSUME Leaf \/ Split PROVE SizesMade' /\ UNCHANGED file
    <2>1. pc = "build" /\ pc' = "build" /\ UNCHANGED <<data, size, forest, file>>
        BY <1>5 DEF Leaf, Split
    <2>2. PICK n, rest : /\ Replaces(tree, todo, n, rest, tree', todo')
                         /\ n.leaf \/ ~(Cardinality(n.members) <= 1)
        BY <1>1, <1>5, <2>1, LeafReplaces, SplitReplaces
    <2>3. Sized(tree', todo')
        BY <1>1, <2>1, <2>2, SizedMoves
    <2> QED
        BY <2>1, <2>3 DEF Sizes, SizesMade
<1>6. ASSUME TreeDone PROVE SizesMade' /\ UNCHANGED file
    <2>1. /\ pc = "build" /\ pc' = "sample" /\ todo = <<>> /\ forest' = Append(forest, tree)
          /\ UNCHANGED <<size, file>>
        BY <1>6 DEF TreeDone
    <2>2. Sized(tree, <<>>) /\ \A n \in 1..Len(forest) : Sized(forest[n], <<>>)
        BY <1>1, <2>1 DEF Sizes, SizesMade
    <2>3. tree \in Seq(Nodes)
        BY <1>1, <2>1 DEF Growing
    <2>4. /\ Len(forest') = Len(forest) + 1 /\ Len(forest) \in Nat
          /\ \A n \in 1..Len(forest') :
                forest'[n] = IF n <= Len(forest) THEN forest[n] ELSE tree
        <3> DEFINE S == Seq(Nodes)
        <3> HIDE DEF S
        <3>1. forest \in Seq(S) /\ tree \in S
            BY <1>1, <2>1, <2>3 DEF S
        <3> QED
            BY <3>1, <2>1, AppendProperties DEF S
    <2>5. \A n \in 1..Len(forest') : Sized(forest'[n], <<>>)
        <3> TAKE n \in 1..Len(forest')
        <3>1. CASE n <= Len(forest)
            BY <3>1, <2>2, <2>4
        <3>2. CASE ~(n <= Len(forest))
            BY <3>2, <2>2, <2>4
        <3> QED
            BY <3>1, <3>2
    <2> QED
        BY <1>1, <2>1, <2>5 DEF SizesMade
<1>7. ASSUME WriteNothing PROVE SizesMade' /\ UNCHANGED file
    BY <1>7 DEF WriteNothing, Return, SizesMade
<1>8. ASSUME WriteTrees PROVE SizesMade' /\ SizesFiled'
    <2>1. /\ pc = "sample" /\ pc' = "prompt" /\ file'.whole = TRUE /\ file'.trees = forest
        BY <1>8 DEF WriteTrees, Trained, Return
    <2> QED
        BY <2>1 DEF Sizes, SizesMade, SizesFiled
<1>9. ASSUME CrashWriting PROVE SizesMade' /\ SizesFiled'
    <2>1. pc' = "prompt" /\ file'.whole = FALSE
        BY <1>9 DEF CrashWriting, Return
    <2> QED
        BY <2>1 DEF SizesMade, SizesFiled
<1>10. UNCHANGED file => SizesFiled'
    BY DEF Sizes, SizesFiled
<1> QED
    BY <1>2, <1>3, <1>4, <1>5, <1>6, <1>7, <1>8, <1>9, <1>10 DEF Train, Sizes, Scoring

\* The path of a leaf is of no length only in a tree of one row, and as long as
\* a level where the tree has more than one node.
LEMMA PathLengths ==
    ASSUME Inv, Places, Sizes, pc = "walk", file.whole, Here.leaf # FALSE
    PROVE  /\ LeafLength(Here) \in Nat
           /\ Len(forest[nth]) # 1 => LeafLength(Here) >= 10000
           /\ LeafLength(Here) = 0 <=> RowsOf(forest[nth]) = 1
<1> DEFINE t == forest[nth]  n == t[at + 1]
<1>1. /\ file # Absent /\ forest = file.trees /\ nth \in 1..Len(forest)
      /\ file.size \in Nat /\ Sound(t, Levels(file.size)) /\ at \in 0..(Len(t) - 1)
      /\ depth = Here.level /\ Here \in Nodes /\ Here = n
    BY WalkStands DEF Inside
<1>2. Placed(t, file.data) /\ Sized(t, <<>>)
    BY <1>1 DEF Places, PlacesFiled, Sizes, SizesFiled
<1>3. t \in Seq(Nodes) /\ t # <<>> /\ Len(t) \in Nat \ {0} /\ DOMAIN t = 1..Len(t)
      /\ t[1].level = 0
    BY <1>1, EmptySeq, LenProperties DEF Sound
<1>4. /\ t[1].leaf => Len(t) = 1
      /\ \A j \in DOMAIN t : t[j].level = 0 => j = 1
    BY <1>1, <1>2, LevelsNat, RootAlone
<1>5. /\ IsFiniteSet(t[1].members) /\ RowsOf(t) \in 1..8 /\ (RowsOf(t) = 1 => t[1].leaf)
    BY <1>2, <1>3 DEF Sized, RootRows, RowsOf
<1>6. at + 1 \in DOMAIN t
    BY <1>1, <1>3
<1>7. Rows(n) \in 0..8 /\ (at = 0 => Rows(n) = RowsOf(t))
    <2>1. n.members \subseteq t[1].members
        BY <1>2, <1>3, <1>6 DEF Placed, Placing, Within, RootRows
    <2>2. IsFiniteSet(n.members) /\ Cardinality(n.members) <= RowsOf(t)
        BY <1>5, <2>1, FS_Subset DEF RowsOf
    <2>3. Cardinality(n.members) \in Nat
        BY <2>2, FS_CardinalityType
    <2>4. at = 0 => n = t[1]
        BY <1>1
    <2> QED
        BY <1>5, <2>2, <2>3, <2>4 DEF Rows, RowsOf
<1>8. n.leaf
    BY <1>1 DEF Nodes
<1>9. depth \in Nat /\ (depth = 0 => at = 0)
    <2>1. n.level \in Nat
        BY <1>1 DEF Nodes
    <2>2. n.level = 0 => at + 1 = 1
        BY <1>4, <1>6
    <2>3. at \in Int
        BY <1>1
    <2> QED
        BY <1>1, <2>1, <2>2, <2>3
<1>10. at = 0 => Len(t) = 1 /\ depth = 0
    <2>1. at = 0 => n = t[1]
        BY <1>1
    <2> QED
        BY <1>1, <1>3, <1>4, <1>8, <2>1
<1>11. Len(t) = 1 => at = 0
    BY <1>1
<1>12. RowsOf(t) = 1 => Len(t) = 1
    BY <1>4, <1>5
<1>13. LeafLength(Here) = 10000 * depth + C(Rows(n))
    BY <1>1 DEF LeafLength
<1> HIDE DEF t, n
<1>14. C(Rows(n)) \in Nat /\ (at = 0 => (C(Rows(n)) = 0 <=> RowsOf(t) = 1))
    <2>1. Rows(n) \in Int /\ (Rows(n) \in 1..8 \/ Rows(n) <= 1)
        BY <1>7
    <2>2. C(Rows(n)) \in Nat
        BY <2>1, CValues
    <2>3. at = 0 => (C(Rows(n)) = 0 <=> RowsOf(t) = 1)
        BY <1>5, <1>7, CValues
    <2> QED
        BY <2>2, <2>3
<1>15. CASE at = 0
    <2>1. LeafLength(Here) = C(Rows(n)) /\ Len(t) = 1
        BY <1>10, <1>13, <1>14, <1>15
    <2> QED
        BY <1>14, <1>15, <2>1 DEF t
<1>16. CASE at # 0
    <2> DEFINE k == C(Rows(n))
    <2>1. k \in Nat /\ depth \in Nat /\ depth # 0 /\ LeafLength(Here) = 10000 * depth + k
        BY <1>9, <1>13, <1>14, <1>16
    <2> HIDE DEF k
    <2>2. LeafLength(Here) \in Nat /\ LeafLength(Here) >= 10000
        BY <2>1
    <2>3. LeafLength(Here) # 0
        BY <2>2
    <2>4. RowsOf(t) # 1
        BY <1>11, <1>12, <1>16
    <2> QED
        BY <2>2, <2>3, <2>4 DEF t
<1> QED
    BY <1>15, <1>16

\* The step after a leaf is for the next tree, with the path added, or it ends
\* the prediction with a score.
LEMMA ScoringStep ==
    ASSUME Inv, Places, Sizes, Predict
    PROVE  Scoring'
<1>1. UNCHANGED file
    BY PredictKeepsFile
<1>2. ASSUME LoadFails \/ Restart PROVE Scoring'
    BY <1>2 DEF LoadFails, Restart, Scoring
<1>3. ASSUME NEW s \in SubSamples, NEW l \in Live, StartPredict(s, l) PROVE Scoring'
    <2>1. ask' = s /\ total' = 0 /\ nth' = 1 /\ s \in Int
        BY <1>3, LatencyForestAssumption DEF StartPredict
    <2>2. 1..(nth' - 1) = {} /\ 10000 * (nth' - 1) = 0
        BY <2>1
    <2> QED
        BY <2>1, <2>2 DEF Scoring
<1>4. ASSUME WalkDown PROVE Scoring'
    <2>1. pc = "walk" /\ (pc' = "dead" \/ UNCHANGED <<pc, forest, ask, nth, total>>)
        BY <1>4 DEF WalkDown
    <2>2. CASE UNCHANGED <<pc, forest, ask, nth, total>>
        BY <1>1, <2>1, <2>2 DEF Sizes, Scoring, Grows
    <2> QED
        BY <2>1, <2>2 DEF Scoring
<1>5. ASSUME WalkOut PROVE Scoring'
    <2>1. pc = "walk" /\ ~Inside /\ (pc' = "prompt" \/ UNCHANGED pc)
        BY <1>5 DEF WalkOut, PathDone
    <2>2. ~file.whole
        BY <2>1, WalkStands
    <2> QED
        BY <1>1, <2>2 DEF Scoring
<1>6. ASSUME WalkLeaf PROVE Scoring'
    <2> DEFINE l == LeafLength(Here)
    <2>1. pc = "walk" /\ Here.leaf # FALSE /\ PathDone(l)
        BY <1>6 DEF WalkLeaf
    <2> SUFFICES ASSUME pc' = "walk", file.whole PROVE Scoring'
        BY <1>1 DEF Scoring
    <2>2. total' = total + l /\ nth' = nth + 1 /\ UNCHANGED <<forest, ask>>
        BY <2>1 DEF PathDone
    <2>3. /\ l \in Nat /\ (Len(forest[nth]) # 1 => l >= 10000)
          /\ l = 0 <=> RowsOf(forest[nth]) = 1
        BY <2>1, PathLengths
    <2>4. nth \in 1..Len(forest) /\ Len(forest) \in Nat
        BY <2>1, WalkStands, LenProperties DEF Inv, FileOK
    <2>5. /\ ask \in Int /\ total \in Nat
          /\ Grows => total >= 10000 * (nth - 1)
          /\ total = 0 <=> \A n \in 1..(nth - 1) : RowsOf(forest[n]) = 1
        BY <2>1 DEF Sizes, Scoring
    <2> HIDE DEF l
    <2>6. Grows' => total' >= 10000 * (nth' - 1)
        <3>1. Grows' => Grows /\ Len(forest[nth]) # 1
            BY <2>2, <2>4 DEF Grows
        <3>2. Grows' => total >= 10000 * (nth - 1) /\ l >= 10000
            BY <2>3, <2>5, <3>1
        <3> QED
            BY <2>2, <2>3, <2>4, <2>5, <3>2
    <2>7. total' = 0 <=> \A n \in 1..(nth' - 1) : RowsOf(forest[n]) = 1
        <3>1. total' = 0 <=> total = 0 /\ l = 0
            BY <2>2, <2>3, <2>5
        <3>2. \A n : n \in 1..(nth' - 1) <=> n \in 1..(nth - 1) \/ n = nth
            BY <2>2, <2>4
        <3> QED
            BY <2>3, <2>5, <3>1, <3>2
    <2>8. total' \in Nat
        BY <2>2, <2>3, <2>5
    <2> QED
        BY <2>2, <2>5, <2>6, <2>7, <2>8 DEF Scoring
<1> QED
    BY <1>2, <1>3, <1>4, <1>5, <1>6 DEF Predict

\* What is said of sizes and scores holds in every reachable state.
LEMMA SizesHold == Spec => []Sizes
<1>1. Init => Sizes
    <2> SUFFICES ASSUME Init PROVE Sizes
        OBVIOUS
    <2>1. pc = "prompt" /\ file = Absent
        BY DEF Init
    <2> QED
        BY <2>1 DEF Sizes, SizesMade, SizesFiled, Scoring
<1>2. Inv /\ Places /\ Sizes /\ [Next]_vars => Sizes'
    <2> SUFFICES ASSUME Inv, Places, Sizes, [Next]_vars PROVE Sizes'
        OBVIOUS
    <2>1. CASE Train
        BY <2>1, SizesTrain
    <2>2. CASE Predict
        <3>1. UNCHANGED file /\ pc' \in {"prompt", "walk", "dead"}
            BY <2>2, PredictKeepsFile, PredictStep
        <3> QED
            BY <2>2, <3>1, ScoringStep DEF Sizes, SizesMade, SizesFiled
    <2>3. CASE UNCHANGED vars
        <3>1. UNCHANGED <<pc, size, tree, todo, forest, file, ask, nth, total>>
            BY <2>3 DEF vars, making, walking
        <3> QED
            BY <3>1 DEF Sizes, SizesMade, SizesFiled, Scoring, Grows
    <2> QED
        BY <2>1, <2>2, <2>3 DEF Next
<1> QED
    BY <1>1, <1>2, InductiveInvariant, PlacesHold, PTL DEF Spec

\* What a score of n trees is called: an anomaly at no path at all if c is 0,
\* and never from a level a tree on when c is no more than c(7).
LEMMA ClassBounds ==
    ASSUME NEW sum \in Nat, NEW n \in Nat \ {0}, NEW c \in Nat, c <= 30237
    PROVE  /\ c = 0 => ClassOf(sum, n, c) = IF sum = 0 THEN "ANOMALY" ELSE "NORMAL"
           /\ sum >= 10000 * n => ClassOf(sum, n, c) # "ANOMALY"
<1>1. c = 0 => ClassOf(sum, n, c) = IF sum = 0 THEN "ANOMALY" ELSE "NORMAL"
    BY DEF ClassOf
<1>2. ASSUME sum >= 10000 * n PROVE ClassOf(sum, n, c) # "ANOMALY"
    <2>1. CASE c = 0
        BY <1>1, <1>2, <2>1
    <2>2. CASE c # 0
        <3>1. n * c <= n * 30237 /\ n * c \in Nat
            OBVIOUS
        <3>2. 3219 * n * c = 3219 * (n * c)
            OBVIOUS
        <3>3. sum * 10000 > 3219 * n * c
            <4> DEFINE k == n * c
            <4>1. k \in Nat /\ k <= n * 30237 /\ 3219 * n * c = 3219 * k
                BY <3>1, <3>2
            <4> HIDE DEF k
            <4>2. sum * 10000 > 3219 * k
                BY <1>2, <4>1
            <4> QED
                BY <4>1, <4>2
        <3> QED
            BY <2>2, <3>3 DEF ClassOf
    <2> QED
        BY <2>1, <2>2
<1> QED
    BY <1>1, <1>2

(***************************************************************************)
(* The theorems.                                                           *)
(***************************************************************************)

\* pathLength overruns its stack only on a file that a crash cut short.
THEOREM EndlessTheorem == Spec => []EndlessOnlyIfCut
<1>1. Inv => EndlessOnlyIfCut
    BY DEF Inv, Walking, EndlessOnlyIfCut
<1> QED
    BY <1>1, InductiveInvariant, PTL

\* pathLength stays inside the tree it walks and goes no deeper than the
\* training's max_depth, whatever the latencies, sub-samples and cuts were.
THEOREM InsideTheorem == Spec => []WalksInside
<1>1. ASSUME Inv PROVE WalksInside
    <2> SUFFICES ASSUME pc = "walk", file.whole
                 PROVE  Inside /\ depth <= Levels(file.size) /\ Here.leaf \in BOOLEAN
        BY DEF WalksInside
    <2> DEFINE t == forest[nth]
    <2>1. /\ Inside /\ depth = Here.level /\ Here \in Nodes /\ Here = t[at + 1]
          /\ Sound(t, Levels(file.size))
        BY <1>1, WalkStands
    <2>2. Len(t) \in Nat /\ at \in 0..(Len(t) - 1)
        BY <2>1 DEF Sound, Inside
    <2> HIDE DEF t
    <2>3. at + 1 \in 1..Len(t)
        BY <2>2
    <2>4. t[at + 1].level <= Levels(file.size)
        BY <2>1, <2>3 DEF Sound
    <2> QED
        BY <2>1, <2>4 DEF Nodes
<1> QED
    BY <1>1, InductiveInvariant, PTL

\* buildTreeRecursive loses no row of its sample, puts none in two leaves, and
\* leaves no node but the root without exactly one parent.
THEOREM RowsTheorem == Spec => []RowsKept
<1>1. ASSUME Inv, Places PROVE RowsKept
    <2> SUFFICES ASSUME pc = "build", tree # <<>>
                 PROVE  /\ \A i \in tree[1].members :
                             Cardinality(Took(tree, i)) + Cardinality(Waits(todo, i)) = 1
                        /\ \A c \in 1..(Len(tree) - 1) :
                             Cardinality({p \in DOMAIN tree : tree[p].left = c}) +
                             Cardinality({p \in DOMAIN tree : tree[p].right = c}) = 1
        BY DEF RowsKept, Took, Waits
    <2>1. Kept(tree, todo) /\ Linking(tree, todo)
        BY <1>1 DEF Places, PlacesMade, Placing
    <2>2. \A i \in tree[1].members : OnePlace(tree, todo, i)
        BY <2>1 DEF Kept, RootRows
    <2>3. \A c \in 1..(Len(tree) - 1) : OneParent(tree, c)
        BY <2>1 DEF Linking
    <2> QED
        BY <2>2, <2>3, CountedOnce, ParentOnce
<1> QED
    BY <1>1, InductiveInvariant, PlacesHold, PTL

\* pathLength takes a row of the training to its own leaf or to one numbered
\* above it, as the cut it compares with is never above the training's.
THEOREM StraysTheorem == Spec => []StraysRightOnly
<1>1. ASSUME Inv, Places PROVE StraysRightOnly
    <2> DEFINE t == forest[nth]
    <2> SUFFICES ASSUME pc = "walk", file.whole, Inside, Here.leaf,
                        NEW i \in DOMAIN file.data, x = file.data[i],
                        NEW j \in DOMAIN t, i \in t[j].members
                 PROVE  at >= Home(t, i)
        BY DEF StraysRightOnly
    <2>1. /\ file # Absent /\ forest = file.trees /\ nth \in 1..Len(forest)
          /\ Here = t[at + 1] /\ Sound(t, Levels(file.size)) /\ at \in 0..(Len(t) - 1)
        BY <1>1, WalkStands DEF Inside
    <2>2. Placing(t, <<>>, file.data)
        BY <1>1, <2>1 DEF Places, PlacesFiled, Placed
    <2>3. t \in Seq(Nodes) /\ Len(t) \in Nat /\ DOMAIN t = 1..Len(t) /\ t # <<>>
        BY <2>1, LenProperties DEF Sound
    <2>4. i \in t[1].members /\ OnTheWay(i)
        <3>1. i \in t[1].members
            BY <2>2, <2>3 DEF Placing, Within, RootRows
        <3> QED
            BY <1>1, <3>1 DEF Places, Following
    <2>5. OnePlace(t, <<>>, i)
        BY <2>2, <2>3, <2>4 DEF Placing, Kept, RootRows
    <2>6. PICK k \in DOMAIN t : Took(t, i) = {k}
        <3>1. DOMAIN <<>> = {}
            BY EmptySeq
        <3> QED
            BY <2>5, <3>1 DEF OnePlace
    <2>7. Here.members = t[at + 1].members /\ Here.leaf = t[at + 1].leaf
        BY <2>1
    <2>8. at + 1 = k \/ k <= at
        <3>1. CASE i \in Here.members
            <4>1. at + 1 \in DOMAIN t
                BY <2>1, <2>3
            <4>2. at + 1 \in Took(t, i)
                BY <2>7, <3>1, <4>1 DEF Took
            <4> QED
                BY <2>6, <4>2
        <3>2. CASE \E h \in Took(t, i) : h <= at
            BY <2>6, <3>2
        <3> QED
            BY <2>4, <3>1, <3>2 DEF OnTheWay
    <2>9. Home(t, i) = k - 1
        <3>1. \A h \in DOMAIN t : t[h].leaf /\ i \in t[h].members <=> h = k
            BY <2>6 DEF Took
        <3>2. (CHOOSE h \in DOMAIN t : t[h].leaf /\ i \in t[h].members) = k
            BY <3>1
        <3> QED
            BY <3>2 DEF Home
    <2>10. k \in Nat /\ at \in Nat
        BY <2>1, <2>3
    <2> QED
        BY <2>8, <2>9, <2>10
<1> QED
    BY <1>1, InductiveInvariant, PlacesHold, PTL

\* A prediction with a small sub_sample_size finds no anomaly but in a forest
\* with a tree of one node, and with the least one tells nothing from anything.
THEOREM BlindTheorem == Spec => SmallSubSampleIsBlind
<1> DEFINE Told ==
      pc = "walk" /\ pc' = "prompt" /\ file.whole =>
        /\ ask <= 7 /\ verdict' = "ANOMALY" => \E t \in DOMAIN forest : Len(forest[t]) = 1
        /\ ask <= 1 => verdict' = IF \A t \in DOMAIN forest : Cardinality(forest[t][1].members) = 1
                                  THEN "ANOMALY" ELSE "NORMAL"
<1>1. ASSUME Inv, Places, Sizes, [Next]_vars PROVE [Told]_vars
    <2> SUFFICES ASSUME Next, pc = "walk", pc' = "prompt", file.whole
                 PROVE  /\ ask <= 7 /\ verdict' = "ANOMALY" =>
                               \E t \in DOMAIN forest : Len(forest[t]) = 1
                        /\ ask <= 1 =>
                               verdict' = IF \A t \in DOMAIN forest : RowsOf(forest[t]) = 1
                                          THEN "ANOMALY" ELSE "NORMAL"
        BY <1>1 DEF RowsOf
    <2>1. Inside
        BY <1>1, WalkStands
    <2>2. WalkLeaf
        BY <2>1 DEF Next, Train, Predict, StartTrain, Sample, Leaf, Split, TreeDone, WriteNothing,
                    WriteTrees, CrashWriting, Trained, LoadFails, StartPredict, WalkOut, WalkDown,
                    Restart
    <2> DEFINE l == LeafLength(Here)  N == Len(forest)  c == C(ask)
    <2>3. Here.leaf # FALSE /\ PathDone(l)
        BY <2>2 DEF WalkLeaf
    <2>4. /\ forest = file.trees /\ nth \in 1..N /\ N \in Nat /\ DOMAIN forest = 1..N
        BY <1>1, WalkStands, LenProperties DEF Inv, FileOK
    <2>5. nth = N /\ verdict' = ClassOf(total + l, N, c)
        <3>1. ~(nth < N) /\ verdict' = ClassOf(total + l, N, c)
            BY <2>3 DEF PathDone
        <3> QED
            BY <2>4, <3>1
    <2>6. /\ l \in Nat /\ (Len(forest[nth]) # 1 => l >= 10000)
          /\ l = 0 <=> RowsOf(forest[nth]) = 1
        BY <1>1, <2>3, PathLengths
    <2>7. /\ ask \in Int /\ total \in Nat
          /\ Grows => total >= 10000 * (nth - 1)
          /\ total = 0 <=> \A n \in 1..(nth - 1) : RowsOf(forest[n]) = 1
        BY <1>1 DEF Sizes, Scoring
    <2>8. /\ ask <= 7 => c \in Nat /\ c <= 30237
          /\ ask <= 1 => c = 0
        <3>1. \A m \in Int : m <= 7 => C(m) \in Nat /\ C(m) <= 30237
            BY CValues
        <3>2. \A m \in Int : m <= 1 => C(m) = 0
            BY CValues
        <3> QED
            BY <2>7, <3>1, <3>2
    <2> HIDE DEF l, c, N
    <2>9. Grows => total + l >= 10000 * N
        <3>1. Grows => Len(forest[nth]) # 1
            BY <2>4 DEF Grows, N
        <3>2. Grows => total >= 10000 * (nth - 1) /\ l >= 10000
            BY <2>6, <2>7, <3>1
        <3> QED
            BY <2>4, <2>5, <2>6, <2>7, <3>2
    <2>10. total + l = 0 <=> \A n \in 1..N : RowsOf(forest[n]) = 1
        <3>1. total + l = 0 <=> total = 0 /\ l = 0
            BY <2>6, <2>7
        <3>2. \A n : n \in 1..N <=> n \in 1..(nth - 1) \/ n = nth
            BY <2>4, <2>5
        <3> QED
            BY <2>6, <2>7, <3>1, <3>2
    <2>11. total + l \in Nat /\ N \in Nat \ {0}
        BY <2>4, <2>6, <2>7
    <2>12. ASSUME ask <= 7, verdict' = "ANOMALY"
           PROVE  \E t \in DOMAIN forest : Len(forest[t]) = 1
        <3>1. ~(total + l >= 10000 * N)
            <4>1. c \in Nat /\ c <= 30237 /\ ClassOf(total + l, N, c) = "ANOMALY"
                BY <2>5, <2>8, <2>12
            <4> DEFINE sum == total + l
            <4>2. sum \in Nat /\ ClassOf(sum, N, c) = "ANOMALY"
                BY <2>11, <4>1
            <4> HIDE DEF sum
            <4>3. ~(sum >= 10000 * N)
                BY <2>11, <4>1, <4>2, ClassBounds
            <4> QED
                BY <4>3 DEF sum
        <3>2. ~Grows
            BY <2>9, <3>1
        <3> QED
            BY <2>4, <3>2 DEF Grows, N
    <2>13. ASSUME ask <= 1
           PROVE  verdict' = IF \A t \in DOMAIN forest : RowsOf(forest[t]) = 1
                             THEN "ANOMALY" ELSE "NORMAL"
        <3>1. c = 0 /\ c \in Nat /\ c <= 30237
            BY <2>8, <2>13
        <3>2. verdict' = IF total + l = 0 THEN "ANOMALY" ELSE "NORMAL"
            <4> DEFINE sum == total + l
            <4>1. sum \in Nat /\ verdict' = ClassOf(sum, N, c)
                BY <2>5, <2>11
            <4> HIDE DEF sum
            <4>2. verdict' = IF sum = 0 THEN "ANOMALY" ELSE "NORMAL"
                BY <2>11, <3>1, <4>1, ClassBounds
            <4> QED
                BY <4>2 DEF sum
        <3> QED
            BY <2>4, <2>10, <3>2
    <2> QED
        BY <2>12, <2>13
<1>2. [][Told]_vars => SmallSubSampleIsBlind
    BY PTL DEF SmallSubSampleIsBlind
<1> QED
    BY <1>1, <1>2, InductiveInvariant, PlacesHold, SizesHold, PTL DEF Spec
==============================================================================
