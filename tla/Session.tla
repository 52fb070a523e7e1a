------------------------------- MODULE Session -------------------------------
(***************************************************************************)
(* A session of the shell: three configuration files loaded into three     *)
(* slots, and the commands that read the slots, with the files of several  *)
(* targets they leave on disk.  A command runs to its end before the next  *)
(* (what happens inside one is the subject of the other modules), and an   *)
(* exception ends it and not the shell.                                    *)
(*                                                                         *)
(* A scan is kept as its number and the target it asked.  File names are   *)
(* values of the configuration: <<"text", host>> is host with its          *)
(* punctuation made into underscores, <<"url", host>> the same after a     *)
(* scheme.                                                                 *)
(***************************************************************************)
EXTENDS ConfigFiles, CaptureReport

CONSTANTS
    Configs,    \* the configuration files: [ext, exists, lines]
    Loads,      \* the loads that are tried: <<kind, file>>
    Hosts,      \* the hosts named in them
    Wordlists,  \* the paths at which there is a wordlist
    WordCount,  \* its length
    Replies,    \* what the capture of a word may give: [status, body]
    None,       \* a slot before its first load
    Absent,     \* a file or a table that is not there
    MaxScans, MaxTransfers, MaxCaptures, MaxFiles  \* bounds on each, and on all

\* Every .rfo file names a target: the files of a junk one are no file's.
ASSUME SessionAssumption ==
    /\ \A f \in Configs : /\ f.lines \in Seq({f.lines[i] : i \in DOMAIN f.lines})
                          /\ Parse("rfo", f).target # Junk
    /\ \A r \in Replies : r.body \in Seq({r.body[i] : i \in DOMAIN r.body})
    /\ Loads \subseteq {"rfo", "rso", "rxo"} \X Configs
    /\ {WordCount, MaxScans, MaxTransfers, MaxCaptures, MaxFiles} \subseteq Nat

VARIABLES
    slot,      \* rsoModel, rfoModel and rxoModel
    json,      \* by path: path.json, path(1).json, ... as the scans they hold
    db,        \* by host: the key of the database and the rows of its table
    stashes,   \* the names under which a stash was saved
    folder,    \* Reco_GAN_Data exists
    forests,   \* the names under which trees were saved
    reports,   \* by path: the lines of a report
    captured,  \* by path: the rows it was written from
    outcome,   \* what the last command came upon: "stash", a verdict, or "nothing"
    scans, transfers, captures  \* commands counted

counts == <<scans, transfers, captures>>
disk == <<json, db, stashes, folder, forests, reports, captured>>
vars == <<slot, disk, outcome, counts>>

Kinds == {"rfo", "rso", "rxo"}
\* Where a configuration may say that something is written.
Paths == {<<"text", "">>, Junk} \cup
    UNION {{f.lines[i].value : i \in {j \in DOMAIN f.lines :
                f.lines[j].key \in {"json_file_path", "html_file_save"}}} : f \in Configs}

Init ==
    /\ slot = [k \in Kinds |-> None]
    /\ json = [p \in Paths |-> <<>>]
    /\ db = [h \in Hosts \cup {""} |-> Absent]
    /\ stashes = {} /\ folder = FALSE /\ forests = {}
    /\ reports = [p \in Paths |-> Absent] /\ captured = [p \in Paths |-> Absent]
    /\ outcome = "nothing"
    /\ scans = 0 /\ transfers = 0 /\ captures = 0

Field(kind, key) == slot[kind][key]
Target == Field("rfo", "target")
Password == Field("rxo", "db_password")

Quiet == outcome' = "nothing"
Fails == Quiet /\ UNCHANGED <<slot, disk, counts>>
More == scans + transfers + captures < MaxFiles

(***************************************************************************)
(* Loading.  The flag of a slot says that something was parsed, not what.  *)
(***************************************************************************)

\* What the parsers make of each file.
Parsed == [kind \in Kinds |-> [file \in Configs |-> Parse(kind, file)]]

\* The model a load leaves in its slot.
Loaded(kind, file) == Parsed[kind][file]

Load(kind, file) ==
    /\ slot' = [slot EXCEPT ![kind] = Loaded(kind, file)]
    /\ Quiet
    /\ UNCHANGED <<disk, counts>>

\* The slots each command asks for.
Needs ==
    [scan |-> {"rfo", "rso"}, capture |-> {"rfo", "rso"}, transfer |-> Kinds,
     compile |-> {"rfo", "rxo"}, gan |-> {"rfo", "rxo"}, trees |-> {"rfo", "rxo"},
     catch_waf |-> Kinds]
Ready(command) == \A k \in Needs[command] : slot[k] # None

\* The command warns and returns; only catch_waf goes on after its warning,
\* and fails on the model that is not there.
Unready(command) ==
    /\ ~Ready(command)
    /\ Fails

(***************************************************************************)
(* Scanning and capturing.                                                 *)
(***************************************************************************)

\* ReadAllLinesAsync comes first, and throws without a file.
HasWords == Field("rso", "wordlist_path") \in Wordlists

\* What opening a path for writing may come to: a name that is what the stack
\* held may do or not.
Opened(path) == IF path = Junk THEN BOOLEAN ELSE {path # <<"text", "">>}

Wordless(command) ==
    /\ command \in {"scan", "capture", "transfer"} /\ Ready(command) /\ ~HasWords
    /\ Fails

\* WriteToJsonAsync: beside the files that are there.
WrittenBeside(path, scan) == [json EXCEPT ![path] = Append(@, scan)]

Scan ==
    /\ Ready("scan") /\ HasWords
    /\ More /\ scans < MaxScans /\ scans' = scans + 1
    /\ LET path == Field("rso", "json_file_path")
       IN  \E ok \in Opened(path) :
             IF ok
             THEN json' = WrittenBeside(path, [nr |-> scans', target |-> Target])
             ELSE json' = json
    /\ Quiet
    /\ UNCHANGED <<slot, db, stashes, folder, forests, reports, captured, transfers, captures>>

\* A word that could be asked, or one whose connection failed.
CaptureRows ==
    {[target |-> <<"name", Target>>, status |-> r.status, body |-> r.body] : r \in Replies}
    \cup {[target |-> Blank, status |-> 0, body |-> <<>>]}

\* WriteTextResBody catches its own exceptions and says so.
Capture ==
    /\ Ready("capture") /\ HasWords
    /\ More /\ captures < MaxCaptures /\ captures' = captures + 1
    /\ LET path == Field("rso", "html_file_save")
       IN  \E rows \in [1..WordCount -> CaptureRows], ok \in Opened(path) :
             /\ reports' = IF ok THEN [reports EXCEPT ![path] = Report(rows)] ELSE reports
             /\ captured' = IF ok THEN [captured EXCEPT ![path] = rows] ELSE captured
    /\ Quiet
    /\ UNCHANGED <<slot, json, db, stashes, folder, forests, scans, transfers>>

(***************************************************************************)
(* The database of a host.                                                 *)
(***************************************************************************)

\* DBModule: the name of the database is the target without its scheme.
DbName(target) == target[2]
Stored == db[DbName(Target)]

\* Opened with the password it was made with, and the table is there.
Readable == IF Stored = Absent THEN FALSE ELSE Stored.key = Password

\* Of a program that reads the latest file.
SourceLatest(path) == IF json[path] = <<>> THEN <<>> ELSE <<json[path][Len(json[path])]>>
\* What a transfer reads: path.json, whatever target was scanned for it.
Source(path) == IF json[path] = <<>> THEN <<>> ELSE <<Head(json[path])>>

Imported(path) ==
    [i \in DOMAIN Source(path) |-> [scan |-> Source(path)[i].nr, path |-> path]]

\* InitializeDB makes the table, and with it the key; the rows follow.
Transfer ==
    /\ Ready("transfer") /\ HasWords
    /\ More /\ transfers < MaxTransfers /\ transfers' = transfers + 1
    /\ LET rows == Imported(Field("rso", "json_file_path"))
       IN  IF Stored = Absent
           THEN db' = [db EXCEPT ![DbName(Target)] = [key |-> Password, rows |-> rows]]
           ELSE IF Readable
                THEN db' = [db EXCEPT ![DbName(Target)] =
                                [key |-> Stored.key, rows |-> Stored.rows \o rows]]
                ELSE db' = db
    /\ Quiet
    /\ UNCHANGED <<slot, json, stashes, folder, forests, reports, captured, scans, captures>>

\* No table, or another password: the first query throws.
Unreadable(command) ==
    /\ command \in {"compile", "trees", "catch_waf"} /\ Ready(command) /\ ~Readable
    /\ Fails

(***************************************************************************)
(* Models.  A compilation saves under the name of the database; a training *)
(* looks under the name of the target as it is configured.                 *)
(***************************************************************************)

\* Of a program that names the stash as the training does.
StashSavedRaw(target) == target
StashSaved(target) == <<"text", DbName(target)>>
StashSought(target) == target

\* Some rows have the status code, or none.
Compile ==
    /\ Ready("compile") /\ Readable
    /\ \/ Stored.rows # <<>> /\ stashes' = stashes \cup {StashSaved(Target)}
       \/ stashes' = stashes
    /\ Quiet
    /\ UNCHANGED <<slot, json, db, folder, forests, reports, captured, counts>>

\* Without a stash four files are written of nothing.
GanTrain ==
    /\ Ready("gan")
    /\ folder' = TRUE
    /\ outcome' = (IF StashSought(Target) \in stashes THEN "stash" ELSE "nothing")
    /\ UNCHANGED <<slot, json, db, stashes, forests, reports, captured, counts>>

\* "Model written to disk.", whether it was or not.
TreesTrain ==
    /\ Ready("trees") /\ Readable
    /\ LET trees == Field("rxo", "num_trees")[2]
       IN  forests' = IF folder /\ Stored.rows # <<>> /\ trees > 0
                      THEN forests \cup {Target} ELSE forests
    /\ Quiet
    /\ UNCHANGED <<slot, json, db, stashes, folder, reports, captured, counts>>

TreesPredict ==
    /\ Ready("trees") /\ Readable
    /\ Quiet
    /\ UNCHANGED <<slot, disk, counts>>

(***************************************************************************)
(* The WAF catcher.                                                        *)
(***************************************************************************)

\* Of a program that loads the trees before it asks for scores.
AnomaliesLoaded == IF Target \in forests THEN 0..Len(Stored.rows) ELSE {0}
\* How many rows score as anomalies.  The predictor is new and its forest is
\* empty: LoadModel is not called, and every score is 0.
Anomalies == {0}

\* The correlation of WafHit, in its order.
Correlate(slow, soft) ==
    CASE slow >= 2 /\ soft >= 2 -> "confirmed"
      [] slow >= 1 /\ soft >= 1 /\ ~(slow >= 2 /\ soft >= 2) -> "tripwire"
      [] slow >= 2 /\ soft = 0 -> "throttling"
      [] slow = 0 /\ soft >= 2 -> "soft404"
      [] OTHER -> "nothing"

\* The report at a path; a junk name may be read back or not.
Texts404(path) ==
    (IF reports[path] = Absent THEN {} ELSE {reports[path]})
    \cup (IF reports[path] = Absent \/ path = Junk THEN {<<>>} ELSE {})

CatchWaf ==
    /\ Ready("catch_waf") /\ Readable
    /\ \E text \in Texts404(Field("rso", "html_file_save")), slow \in Anomalies :
         outcome' = Correlate(slow, Soft404s(text))
    /\ UNCHANGED <<slot, disk, counts>>

\* exit, and the program started again.
Restart ==
    /\ slot' = [k \in Kinds |-> None] /\ Quiet
    /\ UNCHANGED <<disk, counts>>

Next ==
    \/ \E load \in Loads : Load(load[1], load[2])
    \/ \E command \in DOMAIN Needs : Unready(command) \/ Wordless(command) \/ Unreadable(command)
    \/ Scan \/ Capture \/ Transfer \/ Compile \/ GanTrain
    \/ TreesTrain \/ TreesPredict \/ CatchWaf \/ Restart

Spec == Init /\ [][Next]_vars

(***************************************************************************)
(* Properties.                                                             *)
(***************************************************************************)

\* A load leaves in its slot what its file means, and nothing of the file
\* before: one that is refused puts zeros where good values were.
Meant == [kind \in Kinds |-> [file \in Configs |-> Meaning(kind, file)]]
LoadedIsMeaning ==
    [][\A load \in Loads : Load(load[1], load[2]) =>
            slot'[load[1]] = Meant[load[1]][load[2]]]_vars

\* Every row of every table that was read from a path is of the first scan
\* ever written to it, whichever target that scan asked and whichever target
\* the table is of.
FirstScanWins ==
    \A h \in DOMAIN db : db[h] # Absent =>
        \A i \in DOMAIN db[h].rows :
            LET row == db[h].rows[i]
            IN  \A j \in DOMAIN json[row.path] : row.scan <= json[row.path][j].nr

\* The rows of a capture are read back from its report, each as far as its
\* first blank line and without those that name no target, if no line below
\* a first paragraph holds "---": a body's rest never runs into the next row.
ReportReadBack ==
    \A p \in Paths :
        captured[p] # Absent => IF Clean(captured[p])
                                THEN Records(reports[p]) = ReadBack(captured[p]) ELSE TRUE

\* A training for a target with a scheme never finds a stash, although each
\* compilation for that target has saved one.
SchemeLosesStash ==
    [][GanTrain /\ outcome' = "stash" => Target[1] # "url"]_vars

\* Whatever was trained, the catcher never speaks of latency; and of a soft
\* 404 only when two of the words captured, with the status of a success,
\* show an error page in the first paragraph of their body.
VerdictIsSoft404Only ==
    [][CatchWaf /\ outcome' # "nothing" =>
        LET rows == captured[Field("rso", "html_file_save")]
            read == ReadBack(rows)
        IN  /\ outcome' = "soft404"
            /\ Clean(rows) => Cardinality({i \in DOMAIN read : IsSoft404(read[i])}) >= 2]_vars
==============================================================================
