------------------------------ MODULE Pipeline ------------------------------
(***************************************************************************)
(* What a scan leaves behind, and what the later commands of the shell do  *)
(* with it: the JSON files of a scan, the SQLite table they are copied to, *)
(* the stash one filter compiles to, the four files a training writes and  *)
(* the prediction that reads them.  The shell runs one command at a time;  *)
(* what lies on disk outlives a command that crashes, what it holds in     *)
(* memory does not.                                                        *)
(*                                                                         *)
(* A reason phrase is the sequence of its characters.  The stash holds     *)
(* c / 127.0 to four digits for a character c: a number of ten-thousandths,*)
(* of which a crash may leave the first digits only.  SQLite is modelled   *)
(* by what the code asks of it.                                            *)
(***************************************************************************)
EXTENDS Integers, SequencesExt

CONSTANTS
    Words,        \* the wordlist
    Rows,         \* what a probe may answer: [code, phrase]
    ChunkSize,    \* chunkSize of the filters, 1000 in the code
    Factors,      \* the values of k_factor the .rxo file may hold
    Absent, Torn, \* a file that is not there, one that was cut short
    NoReport,     \* after any other command
    MaxScans, MaxTransfers, MaxTrainings,  \* bounds on the commands run
    MaxCommands   \* and on all three kinds together

\* A number of the stash, a line of it, and what a training writes.
Tokens == 0..10000
StashLine == [status : Nat, tokens : Seq(Tokens)]
Summary == [run : Nat, sample : Seq(StashLine), k : Nat, cut : BOOLEAN]

ASSUME PipelineAssumption ==
    /\ Words \in Seq(STRING) /\ ChunkSize \in Nat \ {0} /\ Factors \subseteq Nat
    /\ Rows \subseteq [code : 0..999, phrase : Seq(0..127)]
    /\ Absent # Torn /\ {Absent, Torn} \cap Summary = {}
    /\ {MaxScans, MaxTransfers, MaxTrainings, MaxCommands} \subseteq Nat

VARIABLES
    files,      \* the JSON files, in the order they were written
    table,      \* RequestLogs exists
    db,         \* its rows
    stash,      \* the lines of <domain>_stash.txt, or Absent
    model,      \* the four files of a training, each Absent, Torn or a Trained
    report,     \* what a prediction has just said
    op,         \* the command running, "idle" between two
    arg,        \* its parameter: the status code, or k_factor
    cur,        \* its cursor: words, rows or files dealt with
    buf,        \* its memory
    transfers, trainings,  \* commands counted
    stashCut,   \* the stash is what a crash has left of one
    fault       \* a row was read beyond its end

disk == <<files, table, db, stash, model>>
vars == <<disk, report, op, arg, cur, buf, transfers, trainings, stashCut, fault>>

Codes == {r.code : r \in Rows}
\* Common codes, the others with a token, and the class of the rest.
Common == {<<200, 32>>, <<204, 36>>, <<201, 33>>, <<301, 49>>, <<302, 50>>,
           <<400, 64>>, <<401, 65>>, <<404, 68>>, <<403, 67>>, <<429, 73>>,
           <<500, 80>>, <<503, 83>>, <<0, 0>>, <<999, 153>>}
Fallback == {<<207, 39>>, <<422, 71>>, <<507, 87>>, <<307, 55>>, <<308, 56>>,
             <<407, 71>>, <<451, 69>>, <<444, 68>>, <<499, 73>>, <<521, 82>>}
Token(code) ==
    IF \E p \in Common \cup Fallback : p[1] = code
    THEN (CHOOSE p \in Common \cup Fallback : p[1] = code)[2]
    ELSE IF code \div 100 \in 1..5 THEN (code \div 100) * 256 + 255 ELSE 2559

Init ==
    /\ files = <<>> /\ table = FALSE /\ db = <<>> /\ stash = Absent
    /\ model = [f \in 1..4 |-> Absent] /\ report = NoReport
    /\ op = "idle" /\ arg = 0 /\ cur = 0 /\ buf = <<>>
    /\ transfers = 0 /\ trainings = 0 /\ stashCut = FALSE /\ fault = FALSE

\* Another scan, transfer or training may be asked for.
More == Len(files) + transfers + trainings < MaxCommands

\* A command is entered at the prompt, and returns to it.
Start(name, value, memory) ==
    /\ op = "idle"
    /\ op' = name /\ arg' = value /\ cur' = 0 /\ buf' = memory /\ report' = NoReport
Done == op' = "idle" /\ arg' = 0 /\ cur' = 0 /\ buf' = <<>>

(***************************************************************************)
(* A scan keeps its rows in memory and writes them all at its end, to a    *)
(* name no file has: path.json, then path(1).json, and so on.              *)
(***************************************************************************)

StartScan ==
    /\ More /\ Len(files) < MaxScans /\ Start("scan", 0, <<>>)
    /\ UNCHANGED <<disk, transfers, trainings, stashCut, fault>>

\* A word of the list is left.
Unprobed == cur < Len(Words)

Probe ==
    /\ op = "scan" /\ Unprobed
    /\ \E r \in Rows : buf' = Append(buf, r)
    /\ cur' = cur + 1
    /\ UNCHANGED <<disk, report, op, arg, transfers, trainings, stashCut, fault>>

WriteJson ==
    /\ op = "scan" /\ cur = Len(Words)
    /\ files' = Append(files, [rows |-> buf, whole |-> TRUE]) /\ Done
    /\ UNCHANGED <<table, db, stash, model, report, transfers, trainings, stashCut, fault>>

(***************************************************************************)
(* A transfer reads path.json and inserts each of its rows once per word,  *)
(* in a transaction.  Without the file there is nothing to insert; a file  *)
(* cut short does not parse, and the transaction is rolled back.           *)
(***************************************************************************)

\* The file a transfer reads: the one named in the .rso file.
Source == files[1]

\* The log entries a file stands for, in the order they are inserted.
Entries(rows) ==
    [n \in 1..(Len(rows) * Len(Words)) |->
        LET r == rows[((n - 1) \div Len(Words)) + 1] IN
        [code |-> r.code, phrase |-> r.phrase, word |-> Words[((n - 1) % Len(Words)) + 1]]]

StartTransfer ==
    /\ More /\ transfers < MaxTransfers /\ transfers' = transfers + 1
    /\ Start("transfer", 0, <<>>) /\ table' = TRUE
    /\ UNCHANGED <<files, db, stash, model, trainings, stashCut, fault>>

\* Nothing to read: the (empty) transaction commits.
TransferNothing ==
    /\ op = "transfer" /\ files = <<>> /\ Done
    /\ UNCHANGED <<disk, report, transfers, trainings, stashCut, fault>>

TransferFails ==
    /\ op = "transfer" /\ files # <<>> /\ ~Source.whole /\ Done
    /\ UNCHANGED <<disk, report, transfers, trainings, stashCut, fault>>

InsertRow ==
    /\ op = "transfer" /\ files # <<>> /\ Source.whole
    /\ cur < Len(Entries(Source.rows))
    /\ buf' = Append(buf, Entries(Source.rows)[cur + 1]) /\ cur' = cur + 1
    /\ UNCHANGED <<disk, report, op, arg, transfers, trainings, stashCut, fault>>

Commit ==
    /\ op = "transfer" /\ files # <<>> /\ Source.whole
    /\ cur = Len(Entries(Source.rows))
    /\ db' = db \o buf /\ Done
    /\ UNCHANGED <<files, table, stash, model, report, transfers, trainings, stashCut, fault>>

(***************************************************************************)
(* A compilation selects the rows of one status code, whichever of the two *)
(* compile commands was given, and saves them ChunkSize at a time, each    *)
(* chunk over the one before it.                                           *)
(***************************************************************************)

\* Of a SELECT without its WHERE.
MatchesAll(code) == db
\* The rows the SELECT returns.
Matches(code) ==
    FoldLeft(LAMBDA found, r : IF r.code = code THEN Append(found, r) ELSE found, <<>>, db)

\* Of a program that starts each row from an empty vector.
TensorCleared(chunk) == [i \in 1..Len(chunk) |-> chunk[i].phrase]
\* CompileBatch: the vector of characters grows from one row to the next.
Tensor(chunk) ==
    [i \in 1..Len(chunk) |->
        FlattenSeq([j \in 1..i |-> chunk[j].phrase])]

\* save_file: as many columns of each row as the first row has.
Width(chunk) == Len(Tensor(chunk)[1])
Overruns(chunk) == \E i \in DOMAIN chunk : Len(Tensor(chunk)[i]) < Width(chunk)
\* c / 127.0, as fixed and setprecision(4) print it.
Printed(c) == (20000 * c + 127) \div 254
Line(chunk, i) ==
    [status |-> Token(chunk[i].code),
     tokens |-> [c \in 1..Width(chunk) |-> Printed(Tensor(chunk)[i][c])]]
Lines(chunk) == [i \in 1..Len(chunk) |-> Line(chunk, i)]

\* The table may not exist, and the command fails.
StartCompile(code) ==
    /\ table /\ Start("compile", code, <<>>)
    /\ UNCHANGED <<disk, transfers, trainings, stashCut, fault>>

ReadRow ==
    /\ op = "compile" /\ Len(buf) < ChunkSize /\ cur < Len(Matches(arg))
    /\ buf' = Append(buf, Matches(arg)[cur + 1]) /\ cur' = cur + 1
    /\ UNCHANGED <<disk, report, op, arg, transfers, trainings, stashCut, fault>>

\* Of a program that saves full chunks only.
ChunkReadyFull == op = "compile" /\ Len(buf) = ChunkSize
\* A chunk is full, or is the last and has a row.
ChunkReady ==
    /\ op = "compile" /\ buf # <<>>
    /\ Len(buf) = ChunkSize \/ cur = Len(Matches(arg))

SaveChunk ==
    /\ ChunkReady
    /\ IF Overruns(buf)
       THEN fault' = TRUE /\ stash' = <<>>
       ELSE fault' = fault /\ stash' = Lines(buf)
    /\ buf' = <<>> /\ stashCut' = FALSE
    /\ UNCHANGED <<files, table, db, model, report, op, arg, cur, transfers, trainings>>

EndCompile ==
    /\ op = "compile" /\ cur = Len(Matches(arg)) /\ ~ChunkReady /\ Done
    /\ UNCHANGED <<disk, report, transfers, trainings, stashCut, fault>>

(***************************************************************************)
(* A training reads the stash and writes four files one after the other:   *)
(* 1 mean and deviation of code and latency, 2 their thresholds, 3 mean    *)
(* and deviation of each character column, 4 their thresholds.  A file is  *)
(* kept as the sample it summarises; latency is left out.                  *)
(***************************************************************************)

Sample == IF stash = Absent THEN <<>> ELSE stash

\* A line shorter than the first one: its columns are read beyond its end.
Ragged(sample) == \E i \in DOMAIN sample : Len(sample[i].tokens) < Len(sample[1].tokens)

StartTrain(k) ==
    /\ More /\ trainings < MaxTrainings /\ trainings' = trainings + 1
    /\ Start("train", k, Sample)
    /\ fault' = (fault \/ Ragged(Sample))
    /\ UNCHANGED <<disk, transfers, stashCut>>

Trained ==
    [run |-> trainings, sample |-> buf, k |-> arg, cut |-> stashCut]

\* Of a program that saves both threshold files first.
SavesSwapped == <<1, 4, 2, 3>>
\* The files a training writes, in order.
Saves == <<1, 2, 3, 4>>

SaveModel ==
    /\ op = "train" /\ cur < Len(Saves)
    /\ model' = [model EXCEPT ![Saves[cur + 1]] = Trained] /\ cur' = cur + 1
    /\ UNCHANGED <<files, table, db, stash, report, op, arg, buf,
                   transfers, trainings, stashCut, fault>>

EndTrain ==
    /\ op = "train" /\ cur = Len(Saves) /\ Done
    /\ UNCHANGED <<disk, report, transfers, trainings, stashCut, fault>>

(***************************************************************************)
(* A prediction compares the stash with the four files.                    *)
(***************************************************************************)

Total(s) == FoldLeft(LAMBDA x, y : x + y, 0, s)
Squares(s) == [i \in DOMAIN s |-> s[i] * s[i]]
\* n^2 times the variance of a column.
Spread(s) == Len(s) * Total(Squares(s)) - Total(s) * Total(s)

\* x > mean + k * stddev; the mean and deviation of nothing are 0.
Above(x, s, k) ==
    LET d == Len(s) * x - Total(s)
    IN  IF s = <<>> THEN x > 0 ELSE d > 0 /\ d * d > k * k * Spread(s)

\* The mean of the z-scores of live is beyond k; no score where stddev is 0.
Beyond(live, s, k) ==
    LET d == Len(s) * Total(live) - Len(live) * Total(s)
    IN  /\ s # <<>> /\ Spread(s) # 0
        /\ d * d > k * k * Len(live) * Len(live) * Spread(s)

Statuses(lines) == [i \in DOMAIN lines |-> lines[i].status]
\* The characters in column c of the lines that have one.
Column(lines, c) ==
    FoldLeft(LAMBDA found, l : IF c <= Len(l.tokens) THEN Append(found, l.tokens[c]) ELSE found,
             <<>>, lines)
\* The columns a line has and the sample has too.
Columns(line, sample) ==
    IF sample = <<>> THEN {} ELSE (DOMAIN line.tokens) \cap (DOMAIN sample[1].tokens)

\* A file that holds what a training computed, and from rows it had.
Written(f) == model[f] \notin {Absent, Torn}
Known(f) == Written(f) /\ ~Ragged(model[f].sample)

\* Without its file a mean or a threshold of the codes is uninitialised, and
\* may flag anything; one of the characters is empty, and flags nothing.
Unset(live) == IF live = <<>> THEN {FALSE} ELSE BOOLEAN
CodeZ(live, k) ==
    IF ~Written(1) THEN Unset(live)
    ELSE {\E i \in DOMAIN live : Beyond(<<live[i].status>>, Statuses(model[1].sample), k)}
CodeHigh(live) ==
    IF ~Written(2) THEN Unset(live)
    ELSE {\E i \in DOMAIN live : Above(live[i].status, Statuses(model[2].sample), model[2].k)}
TokenZ(live, k) ==
    IF ~Written(3) THEN {FALSE} ELSE IF ~Known(3) THEN Unset(live)
    ELSE {live # <<>> /\ \E c \in Columns(live[1], model[3].sample) :
            Beyond(Column(live, c), Column(model[3].sample, c), k)}
TokenHigh(live) ==
    IF ~Written(4) THEN {FALSE} ELSE IF ~Known(4) THEN Unset(live)
    ELSE {\E i \in DOMAIN live : \E c \in Columns(live[i], model[4].sample) :
            Above(live[i].tokens[c], Column(model[4].sample, c), model[4].k)}

\* What the report says of the lines of the stash.
Predict(k) ==
    /\ op = "idle"
    /\ \E cz \in CodeZ(Sample, k), ch \in CodeHigh(Sample),
          tz \in TokenZ(Sample, k), th \in TokenHigh(Sample) :
            report' = [codeZ |-> cz, codeHigh |-> ch, tokenZ |-> tz, tokenHigh |-> th]
    /\ UNCHANGED <<disk, op, arg, cur, buf, transfers, trainings, stashCut, fault>>

(***************************************************************************)
(* A crash loses the memory of the command.  What it was writing is cut    *)
(* short: a JSON file, the stash, or one of a training's files, which are  *)
(* small enough to be written at once or not at all.                       *)
(***************************************************************************)

\* What the first characters of a printed number are read as: the number, or
\* one of fewer digits.
Readings(v) == {p * (v \div p) : p \in {1, 10, 100, 1000, 10000}}
\* What may stand of a line, its code and latency at the least: a line without
\* them is passed over when it is read.
CutLine(line) ==
    {[line EXCEPT !.tokens = <<>>]} \cup
    UNION {{[line EXCEPT !.tokens = Append(SubSeq(@, 1, m - 1), v)] :
              v \in Readings(line.tokens[m])} : m \in DOMAIN line.tokens}
\* What may stand of a stash, which the stream writes out at any byte.
Cut(lines) ==
    {<<>>} \cup
    UNION {{Append(SubSeq(lines, 1, n - 1), l) : l \in CutLine(lines[n])} : n \in DOMAIN lines}

\* Of a program that inserts outside a transaction.
LostNothing == db' = IF op = "transfer" THEN db \o buf ELSE db
\* What a crash of the command loses: its memory, but not what is committed.
Lost == db' = db

Crash ==
    /\ op # "idle" /\ Lost /\ Done
    /\ UNCHANGED <<files, table, stash, model, report, transfers, trainings, stashCut, fault>>

CrashWritingJson ==
    /\ op = "scan" /\ cur = Len(Words)
    /\ files' = Append(files, [rows |-> <<>>, whole |-> FALSE]) /\ Done
    /\ UNCHANGED <<table, db, stash, model, report, transfers, trainings, stashCut, fault>>

CrashSavingChunk ==
    /\ ChunkReady /\ ~Overruns(buf)
    /\ stash' \in Cut(Lines(buf)) /\ stashCut' = TRUE /\ Done
    /\ UNCHANGED <<files, table, db, model, report, transfers, trainings, fault>>

CrashSavingModel ==
    /\ op = "train" /\ cur < Len(Saves)
    /\ model' = [model EXCEPT ![Saves[cur + 1]] = Torn] /\ Done
    /\ UNCHANGED <<files, table, db, stash, report, transfers, trainings, stashCut, fault>>

Next ==
    \/ StartScan \/ Probe \/ WriteJson
    \/ StartTransfer \/ TransferNothing \/ TransferFails \/ InsertRow \/ Commit
    \/ \E c \in Codes : StartCompile(c)
    \/ ReadRow \/ SaveChunk \/ EndCompile
    \/ \E k \in Factors : StartTrain(k)
    \/ SaveModel \/ EndTrain
    \/ \E k \in Factors : Predict(k)
    \/ Crash \/ CrashWritingJson \/ CrashSavingChunk \/ CrashSavingModel

Spec == Init /\ [][Next]_vars

\* The table holds whole transfers of one scan, the first one that was
\* written: a transfer that fails or crashes leaves no row, and no later scan
\* ever reaches the table (path.json is never overwritten, and is what every
\* transfer reads).
WholeTransfers ==
    db # <<>> =>
        LET batch == Entries(files[1].rows)
        IN  /\ files[1].whole
            /\ \E n \in 1..transfers :
                 db = FlattenSeq([i \in 1..n |-> batch])

\* Where a compilation that found rows has ended, the stash holds the last
\* chunk of them and nothing of the ones before: (n - 1) % ChunkSize + 1
\* lines, each with the code of its row and with the characters of the first
\* row of the chunk, whatever its own phrase is.
StashIsLastChunk ==
    op = "compile" /\ cur = Len(Matches(arg)) /\ ~ChunkReady /\ cur > 0 =>
        LET n == cur
            size == ((n - 1) % ChunkSize) + 1
            first == Matches(arg)[n - size + 1]
        IN  stash = [i \in 1..size |->
                        [status |-> Token(arg),
                         tokens |-> [c \in DOMAIN first.phrase |-> Printed(first.phrase[c])]]]

\* However many trainings crashed, and wherever: when the first file written
\* and the last are of one training, so are the two between them.  A crash
\* leaves new files before old ones in the order of the saves, never around
\* them.
EndsAgree ==
    Written(1) /\ Written(4) /\ model[1].run = model[4].run =>
        \A f \in {2, 3} : Written(f) /\ model[f].run = model[1].run

\* Every row of a stash has the code the filter asked for and the characters
\* of the chunk's first row, so every deviation a training finds is 0, unless
\* a crash has cut the stash it read in the middle of a row.  A flag of a
\* prediction, from files of whatever trainings, has another cause: a z-score
\* flags a code only where a missing or torn file left it uninitialised, and a
\* phrase only by a cut stash; a threshold flags a code where it is
\* uninitialised or was trained on other codes, and a phrase by a cut stash or
\* by other rows than these.  A missing file flags no phrase.
CodesOf(lines) == {lines[i].status : i \in DOMAIN lines}
BaselineIsFlat ==
    report # NoReport =>
        /\ report.codeZ => ~Written(1)
        /\ report.codeHigh => ~Written(2) \/ CodesOf(Sample) # CodesOf(model[2].sample)
        /\ report.tokenZ => Written(3) /\ model[3].cut
        /\ report.tokenHigh => Written(4) /\ (model[4].cut \/ model[4].sample # Sample)

\* A row of the stash, written or read back, is read beyond its end only by a
\* training, and of what a crash has left of a stash.
InBounds == [][fault' # fault => op' = "train" /\ stashCut]_vars
=============================================================================
