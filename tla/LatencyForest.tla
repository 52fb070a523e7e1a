---------------------------- MODULE LatencyForest ----------------------------
(***************************************************************************)
(* The isolation forest over the latencies of a target: its training       *)
(* (Reco_GAN_Adv_Trees/Training.cpp), the text file it leaves, and a       *)
(* prediction from that file (Predict.cpp), one step for each call of      *)
(* buildTreeRecursive and of pathLength.                                   *)
(*                                                                         *)
(* A latency is a natural number of units, Unit of them to a millisecond.  *)
(* A tree is the flat array of the code, its nodes numbered from 0.  Every *)
(* number of the file has one digit in the instances checked, so that a    *)
(* cut falls between two numbers.  Path lengths and c(m) are counted in    *)
(* ten-thousandths.                                                        *)
(***************************************************************************)
EXTENDS Integers, Sequences, FiniteSets, SequencesExt

CONSTANTS
    Datasets,      \* the latencies a database may hold when a training reads it
    Live,          \* a latency a prediction may be asked about
    Unit,          \* units in a millisecond
    TreeCounts,    \* the values of num_trees the .rxo file may hold
    SubSamples,    \* the values of sub_sample_size it may hold
    Absent,        \* no tree file
    Junk,          \* what an uninitialised field holds
    MaxTrainings   \* bound on the trainings run

ASSUME LatencyForestAssumption ==
    /\ Datasets \subseteq Seq(Nat) /\ Live \subseteq Nat /\ Unit \in Nat \ {0}
    /\ TreeCounts \subseteq Int /\ SubSamples \subseteq Int
    /\ Junk \notin BOOLEAN \cup Int /\ MaxTrainings \in Nat

\* c(m) is given below for m of up to 8.
ASSUME FewRowsAssumption == \A s \in SubSamples : s <= 8

VARIABLES
    pc,        \* "prompt", "sample", "build", "walk", or "dead"
    data,      \* latency_dataset
    size,      \* subsample_size of the training
    want,      \* num_trees
    tree,      \* the tree being built
    todo,      \* calls of buildTreeRecursive to come, the next one last
    forest,    \* the trees in memory, of a training or of LoadModel
    file,      \* the tree file, with what it was made of
    ask,       \* subsample_size of the prediction
    x,         \* the latency it is asked about
    nth, at, depth,  \* pathLength: which tree, node_idx, current_depth
    total,     \* total_path
    verdict,   \* what was printed for x
    trainings  \* trainings begun

making == <<data, size, want, tree, todo>>
walking == <<ask, x, nth, at, depth, total>>
vars == <<pc, making, forest, file, walking, verdict, trainings>>

\* The two parts of the module at rest.
NotMaking == data' = <<>> /\ size' = 0 /\ want' = 0 /\ tree' = <<>> /\ todo' = <<>>
NotWalking == ask' = 0 /\ x' = 0 /\ nth' = 0 /\ at' = 0 /\ depth' = 0 /\ total' = 0

Init ==
    /\ pc = "prompt" /\ forest = <<>> /\ file = Absent
    /\ data = <<>> /\ size = 0 /\ want = 0 /\ tree = <<>> /\ todo = <<>>
    /\ ask = 0 /\ x = 0 /\ nth = 0 /\ at = 0 /\ depth = 0 /\ total = 0
    /\ verdict = "none" /\ trainings = 0

(***************************************************************************)
(* Training.                                                               *)
(***************************************************************************)

\* max_depth: the logarithm of the sub-sample, rounded up.
Levels(s) == Cardinality({d \in 0..s : 2^d < s})

StartTrain(d, s, n) ==
    /\ pc = "prompt" /\ trainings < MaxTrainings
    /\ trainings' = trainings + 1
    /\ data' = d /\ size' = (IF s < 2 THEN 2 ELSE s) /\ want' = n
    /\ tree' = <<>> /\ todo' = <<>> /\ forest' = <<>>
    /\ pc' = "sample" /\ verdict' = "none"
    /\ UNCHANGED <<file, walking>>

\* A call still to be made, for the child of node parent at side.
Call(members, level, parent, side) ==
    [members |-> members, level |-> level, parent |-> parent, side |-> side]

\* The first sample_len rows of a shuffle: any rows, that many of them.
SampleSize == IF size < Len(data) THEN size ELSE Len(data)
Sample ==
    /\ pc = "sample" /\ data # <<>> /\ Len(forest) < want
    /\ \E rows \in SUBSET (DOMAIN data) :
         Cardinality(rows) = SampleSize /\ todo' = <<Call(rows, 0, -1, "root")>>
    /\ tree' = <<>> /\ pc' = "build"
    /\ UNCHANGED <<data, size, want, forest, file, walking, verdict, trainings>>

\* A node as it is made, before its children are known.  The file holds how
\* many members a leaf has; which they are, and the level, are the model's.
Node(leaf, call, split) ==
    [left |-> IF leaf THEN -1 ELSE 0, right |-> IF leaf THEN -1 ELSE 0,
     leaf |-> leaf, members |-> call.members, split |-> split, level |-> call.level]

\* Of a program that links left children only.
GrownLeftOnly(call, node) ==
    LET i == Len(tree)
    IN  [j \in 1..(i + 1) |->
            IF j = i + 1 THEN node
            ELSE IF j = call.parent + 1 /\ call.side = "left" THEN [tree[j] EXCEPT !.left = i]
            ELSE tree[j]]
\* The tree with the node the call has made, linked to its parent.  The code
\* links a node when both its children are finished; nothing reads it before.
Grown(call, node) ==
    LET i == Len(tree)
        linked(p) == IF call.side = "left" THEN [p EXCEPT !.left = i]
                                           ELSE [p EXCEPT !.right = i]
    IN  [j \in 1..(i + 1) |->
            IF j = i + 1 THEN node
            ELSE IF j = call.parent + 1 THEN linked(tree[j]) ELSE tree[j]]

Equal(members) == \A i, j \in members : data[i] = data[j]

\* Of a program that stops one level later.
StopsLate(call) ==
    \/ call.level > Levels(size) \/ Cardinality(call.members) <= 1 \/ Equal(call.members)
\* The two conditions that end the recursion.
Stops(call) ==
    \/ call.level >= Levels(size) \/ Cardinality(call.members) <= 1 \/ Equal(call.members)

Leaf ==
    /\ pc = "build" /\ todo # <<>> /\ Stops(Last(todo))
    /\ tree' = Grown(Last(todo), Node(TRUE, Last(todo), 0))
    /\ todo' = Front(todo)
    /\ UNCHANGED <<pc, data, size, want, forest, file, walking, verdict, trainings>>

\* Of a program that rounds the cut up.
CutAbove(cut) == (cut + Unit - 1) \div Unit
\* split_value is an int: the cut point in whole milliseconds.
CutKept(cut) == cut \div Unit

\* Of a program that leaves the rows at the cut out of both buckets.
AtLeastStrict(cut, members) == {i \in members : data[i] > cut}
\* The right bucket: the rows the left one did not take.
AtLeast(cut, members) == {i \in members : data[i] >= cut}

\* The cut is drawn from [min, max): at the least row the left bucket is empty.
Cuts(members) == UNION {UNION {data[i]..(data[j] - 1) : j \in members} : i \in members}

Split ==
    /\ pc = "build" /\ todo # <<>> /\ ~Stops(Last(todo))
    /\ \E cut \in Cuts(Last(todo).members) :
         LET call == Last(todo)
             below == {i \in call.members : data[i] < cut}
         IN  /\ tree' = Grown(call, Node(FALSE, call, CutKept(cut)))
             /\ todo' = Front(todo) \o
                    <<Call(AtLeast(cut, call.members), call.level + 1, Len(tree), "right"),
                      Call(below, call.level + 1, Len(tree), "left")>>
    /\ UNCHANGED <<pc, data, size, want, forest, file, walking, verdict, trainings>>

TreeDone ==
    /\ pc = "build" /\ todo = <<>>
    /\ forest' = Append(forest, tree) /\ tree' = <<>> /\ pc' = "sample"
    /\ UNCHANGED <<data, size, want, todo, file, walking, verdict, trainings>>

Trained == pc = "sample" /\ (data = <<>> \/ Len(forest) >= want)
Return == pc' = "prompt" /\ forest' = <<>> /\ NotMaking

\* No tree, or no directory to write to: the file of before stays, and the
\* training says all the same that the model was written.
WriteNothing ==
    /\ Trained /\ Return
    /\ UNCHANGED <<file, walking, verdict, trainings>>

WriteTrees ==
    /\ Trained /\ forest # <<>> /\ Return
    /\ file' = [trees |-> forest, data |-> data, size |-> size, whole |-> TRUE]
    /\ UNCHANGED <<walking, verdict, trainings>>

\* The first k of the five fields of a node, as LoadModel fills the rest in.
Partial(n, k) ==
    [left |-> IF k >= 1 THEN n.left ELSE 0, right |-> IF k >= 2 THEN n.right ELSE 0,
     leaf |-> IF k >= 3 THEN n.leaf ELSE Junk,
     members |-> IF k >= 4 THEN n.members ELSE {}, split |-> Junk,
     level |-> n.level]
\* A tree of which m nodes and k fields were written: LoadModel makes as many
\* nodes as the header announces.
Cut(t, m, k) ==
    [i \in DOMAIN t |->
        IF i <= m THEN t[i] ELSE IF i = m + 1 THEN Partial(t[i], k) ELSE Partial(t[i], 0)]
\* What may stand of a tree: nothing, a header without its count, or a part.
Remains(t) ==
    {<<>>, << <<>> >>} \cup {<<Cut(t, m, k)>> : m \in 0..(Len(t) - 1), k \in 0..4}

\* The process dies while the trees are written.
CrashWriting ==
    /\ Trained /\ forest # <<>> /\ Return
    /\ \E n \in 0..(Len(forest) - 1) : \E rest \in Remains(forest[n + 1]) :
         file' = [trees |-> SubSeq(forest, 1, n) \o rest, data |-> data, size |-> size,
                  whole |-> FALSE]
    /\ UNCHANGED <<walking, verdict, trainings>>

(***************************************************************************)
(* Prediction.  Of the latencies it is given, one is followed.             *)
(***************************************************************************)

\* c(m) to four digits, for m of 0 to 8; what is less counts as 0.
C(m) == IF m <= 1 THEN 0
        ELSE <<0, 10000, 12074, 18517, 23270, 27066, 30237, 32963>>[m]

\* The number of rows of a leaf, as the file gives it.
Rows(n) == Cardinality(n.members)

Classes == {"NORMAL", "JITTER", "SUSPICIOUS", "ANOMALY"}

\* The class of 2 ^ -(sum / n / c): at most 0.50, at most 0.65, below 0.80.
\* 0 / 0 is not a number, which no comparison holds for.
ClassOf(sum, n, c) ==
    IF c = 0 THEN IF sum = 0 THEN "ANOMALY" ELSE "NORMAL"
    ELSE IF sum >= n * c THEN "NORMAL"
    ELSE IF sum * 10000 >= 6215 * n * c THEN "JITTER"
    ELSE IF sum * 10000 > 3219 * n * c THEN "SUSPICIOUS" ELSE "ANOMALY"

\* LoadModel has opened the file and found the start of a tree.
Loadable == IF file = Absent THEN FALSE ELSE file.trees # <<>>

LoadFails ==
    /\ pc = "prompt" /\ ~Loadable /\ verdict' = "none"
    /\ UNCHANGED <<pc, making, forest, file, walking, trainings>>

StartPredict(s, l) ==
    /\ pc = "prompt" /\ Loadable
    /\ forest' = file.trees /\ ask' = s /\ x' = l
    /\ nth' = 1 /\ at' = 0 /\ depth' = 0 /\ total' = 0
    /\ pc' = "walk" /\ verdict' = "none"
    /\ UNCHANGED <<making, file, trainings>>

Inside == at \in 0..(Len(forest[nth]) - 1)
Here == forest[nth][at + 1]

\* A path of length l has ended: the next tree, or the score.
PathDone(l) ==
    IF nth < Len(forest)
    THEN /\ total' = total + l /\ nth' = nth + 1 /\ at' = 0 /\ depth' = 0
         /\ UNCHANGED <<pc, forest, ask, x, verdict>>
    ELSE /\ verdict' = ClassOf(total + l, Len(forest), C(ask))
         /\ pc' = "prompt" /\ forest' = <<>> /\ NotWalking

\* An index outside the tree: of an empty one, or a leaf taken for a branch.
WalkOut ==
    /\ pc = "walk" /\ ~Inside /\ PathDone(10000 * depth)
    /\ UNCHANGED <<making, file, trainings>>

\* Of a program that leaves out the rows a leaf holds.
LeafLengthBare(n) == 10000 * depth
\* Depth, and the mean depth of a tree over the rows of the leaf.
LeafLength(n) == 10000 * depth + C(Rows(n))

WalkLeaf ==
    /\ pc = "walk" /\ Inside /\ Here.leaf # FALSE /\ PathDone(LeafLength(Here))
    /\ UNCHANGED <<making, file, trainings>>

\* The children the walk may go to from n: of a junk cut, either.
Turns(n) ==
    IF n.split = Junk THEN {n.left, n.right}
    ELSE {IF x < n.split * Unit THEN n.left ELSE n.right}

\* A child 0 is the root: what led here leads here again, without end, until
\* the stack is full.
WalkDown ==
    /\ pc = "walk" /\ Inside /\ Here.leaf # TRUE
    /\ \E child \in Turns(Here) :
         IF child = 0
         THEN /\ pc' = "dead" /\ forest' = <<>> /\ NotWalking
         ELSE /\ at' = child /\ depth' = depth + 1
              /\ UNCHANGED <<pc, forest, ask, x, nth, total>>
    /\ UNCHANGED <<making, file, verdict, trainings>>

\* The user starts the program again; the file is as it was.
Restart ==
    /\ pc = "dead" /\ pc' = "prompt"
    /\ UNCHANGED <<making, forest, file, walking, verdict, trainings>>

Train ==
    \/ \E d \in Datasets, s \in SubSamples, n \in TreeCounts : StartTrain(d, s, n)
    \/ Sample \/ Leaf \/ Split \/ TreeDone
    \/ WriteNothing \/ WriteTrees \/ CrashWriting
Predict ==
    \/ LoadFails \/ \E s \in SubSamples, l \in Live : StartPredict(s, l)
    \/ WalkOut \/ WalkLeaf \/ WalkDown \/ Restart
Next == Train \/ Predict

Spec == Init /\ [][Next]_vars

(***************************************************************************)
(* Properties.                                                             *)
(***************************************************************************)

\* A prediction overruns the stack only from a file a crash cut short: in a
\* file that was written whole every child is numbered above its parent, and
\* no walk meets a node twice.
EndlessOnlyIfCut == pc = "dead" => ~file.whole

\* In a whole file a walk stays inside its tree and takes no more steps than
\* max_depth of the training, whatever sub_sample_size the prediction has.
WalksInside ==
    pc = "walk" /\ file.whole =>
        Inside /\ depth <= Levels(file.size) /\ Here.leaf \in BOOLEAN

\* The leaf of t (numbered from 0) that took row i in training.
Home(t, i) == (CHOOSE j \in DOMAIN t : t[j].leaf /\ i \in t[j].members) - 1

\* A row that was trained on is walked to its own leaf or to one numbered
\* above it: the cut, kept in whole milliseconds, sends a row right that the
\* training sent left, and never the other way round.
StraysRightOnly ==
    pc = "walk" /\ file.whole /\ Inside /\ Here.leaf =>
        \A i \in DOMAIN file.data :
            x = file.data[i] /\ (\E j \in DOMAIN forest[nth] : i \in forest[nth][j].members)
                => at >= Home(forest[nth], i)

\* While a tree is built, each row of its sample is in exactly one leaf or in
\* one call to come, and every node but the root has exactly one parent.
RowsKept ==
    pc = "build" /\ tree # <<>> =>
        /\ \A i \in tree[1].members :
             Cardinality({j \in DOMAIN tree : tree[j].leaf /\ i \in tree[j].members})
             + Cardinality({k \in DOMAIN todo : i \in todo[k].members}) = 1
        /\ \A j \in 1..(Len(tree) - 1) :
             Cardinality({p \in DOMAIN tree : tree[p].left = j}) +
             Cardinality({p \in DOMAIN tree : tree[p].right = j}) = 1

\* A score needs room to fall: with a sub_sample_size of 7 or less at the
\* prediction nothing is an anomaly unless some tree has a single node; and
\* with one of 1, 0 (the .rxo file did not parse) or less, every latency gets
\* the same class, an anomaly when each tree was grown from one row and normal
\* when not.
SmallSubSampleIsBlind ==
    [][pc = "walk" /\ pc' = "prompt" /\ file.whole =>
        /\ ask <= 7 /\ verdict' = "ANOMALY" => \E t \in DOMAIN forest : Len(forest[t]) = 1
        /\ ask <= 1 => verdict' = IF \A t \in DOMAIN forest : Cardinality(forest[t][1].members) = 1
                                  THEN "ANOMALY" ELSE "NORMAL"]_vars
==============================================================================
