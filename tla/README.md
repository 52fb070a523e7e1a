# A TLA+ model of ReconSage

ReconSage is an interactive shell (C#) around native engines (C++) that ask one
HTTP(S) target for the words of a list, directly, over Tor or over a proxy,
keep the answers in JSON files and an SQLite table, compile a filter of the
table to a "stash" of numbers, and train and query small statistical models on
it. This directory holds TLA+ modules of its core, the TLC configurations that
check them, and proofs that TLAPS checks.

## 1. Inventory

Paths are relative to `src/`; `N/` stands for `Native_CPP_build/`.

| component | state it keeps | operations | what is hard |
|---|---|---|---|
| query over a connection: `N/Generic_Module/interface_scan_module.cpp`, `wires.cpp` | the receive buffer, the caller's descriptor and SSL object | send, receive loop, status extraction | the flag is looked at between any two calls; TLS retries without a bound; two owners release one connection |
| Tor engine: `N/TorScan/tor_scan.cpp`, `Tor/TorScan.cs` | descriptor, SSL object, control connection, output struct | `tor_scan`, `TorRotation`, `SendAsync` | a retry over a second connection; a dozen ways out |
| SOCKS5 tunnel: `N/Generic_Module/SocksModule.cpp` | descriptor, two arrays on the stack | `SockTunnel` | short and late reads over a byte stream |
| resolvers: `N/ReconDNS/*` | descriptor, reply buffer, offset | `resolv`, `resolvede` | lost datagrams, cut replies, a walk by hand-kept offsets |
| direct engine: `N/ScanModule/scan.cpp`, `Fingerprinter/Warmup.cs` | as above, plus the copied flag | `scan`, `SendAsync`, `ExecCppScan` | what a call keeps adds up over a list; a delay that throws |
| proxy engines: `N/Proxy_Scanning/*`, `Proxy_Module/*` | as above; the SSL object is a member | `scan`, `HttpProxy`, `SendAsync` | handles used before they are set and after they are given back |
| body capture: `N/Response_Body_capture/*`, `Fingerprinter/Capture.cs`, `WriteTextResBody` | one buffer, an output struct, the report | `scan`, `ExecCaptureScan` | segments cut anywhere, a capped copy, fields left unset |
| results and stash: `Wire/FileWires.cs`, `DB_Controller/DB.cs`, `N/Compiler/*` | JSON files, the table `RequestLogs`, the stash file | scan, transfer, compile | crashes between steps, chunks, files that outlive commands |
| RecoGAN: `N/Reco_GAN/*` | four model files per domain | train, predict | four files written in turn; values that are missing |
| latency forest: `N/Reco_GAN/Reco_GAN_Adv_Trees/Training.cpp`, `Predict.cpp`, `Reco_GAN/Reco_GAN_Lat_V2.cs` | the trees file; a tree as a flat array | train, predict | recursion over a growing array, integer cuts, a file read back without a look at the stream |
| soft-404 and WAF catchers: `Soft_404_Catcher.cpp`, `Waf_Catcher.cpp` | none | read the report, classify, correlate | the report's format holds its own separators; a predictor used before its model is loaded |
| configuration parsers: `N/parser.cpp`, `rso_parser.cpp`, `rxo_parser.cpp` and their C# sides | none between calls | parse lines into a struct | a wrong line makes zeros of the whole file; fields of absent keys |
| shell and session: `ReconSageShell.cs`, `Reco_Shell/*` | three slots, each a model or null; the command table | loads and the other commands | a flag that says something was parsed, not what; files of several targets under one path, or under two names |
| terminal output, header disguise, records and interfaces, empty TLS files | none of interest | | |

How they interact: the shell runs one command at a time and awaits it. A scan
command makes, for each word, a native engine, calls it through P/Invoke with a
pointer to a flag, turns its struct into a row, and destroys it; the rows of a
list go to a JSON file at its end. `transfer_json_to_db` copies one JSON file
into the table in one transaction, `compile_*` reads the table in chunks and
hands each to the native compiler, which writes the stash; training and
prediction read the stash. Engines share nothing but the process's
descriptors; commands share only files.

What makes each right: engines give back what they acquired, exactly once, on
every path; a row says what the last answered query said; calls end; a
resolver's answer is one of the reply's addresses; the table holds whole
transfers; the stash holds what the filter matched; a prediction compares with
values of one training; a walk through a tree ends; what a command reads is of
the target it is asked about. `PROJECT.json` lists the 40 places where this is at
risk, and the properties that bear on each.

## 2. The modules

| module | models | checked by |
|---|---|---|
| `Transport` | the connection variables and `interface_scan`, shared by the engines | through its users |
| `TorScan` (extends `Transport`) | the Tor engine and the delivery of its row | `MCTorScan` |
| `ScanContract` | what a list expects of one call of an engine: abstract | refined by `TorScan` and, but for one step, by `ProxyScan` |
| `TorScanProofs` | theorems about `TorScan` | TLAPS |
| `SocksTunnel` | `SockTunnel` and its proxy, byte by byte | `MCSocksTunnel` |
| `DnsResolver` | the two resolvers and their server | `MCDnsResolver` |
| `DirectScan` (extends `Transport`) | a whole list of direct scans | `MCDirectScan` |
| `ProxyScan` (extends `Transport`) | both proxy engines | `MCProxyScan` |
| `BodyCapture` (extends `Transport`) | a capture run and its report | `MCBodyCapture` |
| `Pipeline` | JSON files, table, stash, training and prediction | `MCPipeline` |
| `LatencyForest` | training of the isolation trees, their file, a prediction from it | `MCLatencyForest` |
| `LatencyForestProofs` | theorems about `LatencyForest` | TLAPS |
| `ConfigFiles` | the three parsers, and what a file means | `MCSession` |
| `CaptureReport` | the report of a capture, written and read back; what is a soft 404 | `MCSession` |
| `Session` (extends the last two) | slots, commands, and the files of several targets | `MCSession` |
| `TunnelResolverProofs` | theorems about `SocksTunnel` and `DnsResolver` | TLAPS |
| `DirectScanProofs`, `ProxyScanProofs`, `BodyCaptureProofs`, `PipelineProofs`, `SessionProofs` | theorems about the module each is named for | TLAPS |

**Control.** An engine's call is a walk over control points (`pc`); each
blocking library call is one step with an action per outcome, and everything up
to the next blocking call or check of the flag belongs to that step. `Cancel`
may happen between any two steps.

**Handles.** `sock` and `ssl` are the engine's variables; `fds` and `tls` say
what the kernel and OpenSSL have really handed out. `Release` and its parts do
what `close`, `SSL_shutdown` and `SSL_free` do with a variable that names
something, nothing, or something given back already, and note the misuse in
`faults` ("nullTls", "badTls", "staleFd"). A descriptor closed and opened again by another call
gets the same name, so that a second close is seen to hit the wrong one.

**Data.** A reply is what the code tells apart: a status code, `Unknown` (no code
found; also headers that never ended or did not fit their field), or `Foreign`
(no "HTTP/" at all, on which `strchr(NULL)` ends the process: `pc = "dead"`). The
65535 bytes of the buffer are `BufUnits` receive units. `SocksTunnel` and
`DnsResolver` do keep bytes, because which byte is read is their subject.
What makes a sequence of bytes an owner name is `IsName`, without recursion: a set of
places, each holding a zero, a pointer, or the length of a label that leads to another.
`BodyCapture` cuts a reply into units: the halves of "HTTP/1.1 ", a code, the
blank line, and text.

**Uninitialised memory.** The status of a struct `DirectScan` returns unwritten is any
code or none, the one before it included; its kind, "junk", is what tells a row made
of it from an answer, which the row itself does not. The stack arrays of `SockTunnel` and
a prediction's unset fields take every value the model has for them as well, and the SSL
member of the proxy engine ("wild") is misused in whichever way. The junk
structs of `ProxyScan` and `BodyCapture` are markers, and no property reads what is in
them.

**Cancellation.** The engines' interface promises to look at `*cancel_flag`.
`TorScan`, `ProxyScan` and `BodyCapture` model that interface: the cell may
change at any time. `DirectScan` models the C# side as well, where the `ref
bool` is marshalled as a copy, so that the engine's cell does not change during
the call (`direct_flag`). No command of the shell calls `cts.Cancel()` today;
the properties that start from a cancel say what the code would do.

**Pipeline.** A command is one or more steps, with `Crash` between them: memory
is lost, files stay as they are, SQLite rolls its transaction back. A file being
written when the process dies is `Torn` (written at once otherwise, as a stream
of this size is flushed when closed). The stash may be longer than the stream's
buffer and is cut at any byte (`Cut`): after some lines, after some numbers of a line,
or inside a number, which is then read as one of fewer digits (`Readings`: 0.5512
as 0.551, 0.55, 0.5 or 0). `stashCut` notes that the stash is what a crash has left of
one, until the next chunk is saved, and a training copies the note to its files (`cut`);
the program knows neither. One JSON path per session, as the configuration has one. A
character c is stored as c / 127.0 to four digits, which the model keeps as a
number of ten-thousandths (`Printed`).
Deviations are computed exactly: the training sets what is below `EPSILON` =
1e-12 to zero, which is all that rounding leaves of equal samples. Codes that
share a token (404 and 444, 422 and 407, 429 and 499) share it in the model.
A compilation that matches nothing leaves the old stash. Both compile commands
run the status filter (`Reco_Shell_Commands_Registry.cs:126`), so that a stash
has one code.

**Latency forest.** A step of a training is one call of `buildTreeRecursive`,
of a prediction one of `pathLength`; `todo` is the recursion's stack. `CutKept`
is the conversion of the cut to the `int` of `iTreeNodes`. The code
links a node to its children when both are finished; the model links each child
as it is made, which nothing can tell, as a tree is read when it is done.
`CrashWriting` leaves any prefix of the file's fields, and `Partial` is what
`operator>>` leaves in a node then: defaults, or junk where `iTreeNodes` has
none. A number of that file cut to fewer digits is left out; every property of a walk
is about files that were written whole. A walk that goes to child 0 is at the root again and ends with the stack
(`pc = "dead"`). Scores are kept as path lengths: the class of 2 ^ -(mean / c)
is decided by comparing the sum of the lengths with n * c, with c in
ten-thousandths.

**Session.** A command is one step, since the shell awaits it; what goes on
inside is the other modules'. `Load` puts `Parse(kind, file)` into a slot
whether or not the file was refused. `Needs` has the slots a command asks for;
`Unready`, `Wordless` and `Unreadable` are the commands that end with a warning
or an exception. A scan is its number and its target; `json` has the files
`path`, `path(1)`, ... of one path as a sequence, `db` a table and its key per
host. File names are built as the code builds them, so that the stash saved
(`StashSaved`) and the stash sought (`StashSought`) may differ. A captured row has
a body of lines of six forms, and `CaptureReport` writes and reads lines.

**Mutants.** A definition whose comment begins "Mutant of" or "Of a program" stands beside the
definition it alters. No specification uses it; it is there to show that the
property named with it in `PROJECT.json` fails when the code is wrong that way.

## 3. What is checked

| run | bounds | properties |
|---|---|---|
| `tor_scan` | two calls, two descriptors, two receive units, codes 100, 200, 403, 404 | `AllReleased`, `NoStaleHandle`, `RowHonest`, `NamelessMeansCancelled`; `Returns` (cancelled or not); `ImplementsContract` |
| `socks` | each byte zero or not | `HeldIffReturned`, `WholeReplies`, `TunnelReturns` |
| `dns` | replies of up to two records, four forms of names, four kinds of records | `WalkIsRight`, `CutIsHarmless`, `Returns` (with the descriptor closed) |
| `direct` | a list of three words, two descriptors | `LeaksPerQuery` (and engines freed), `AnswersBounded`, `ListEnds` |
| `proxy` | two calls, two descriptors, either engine | `AllReleased`, `MisuseConfined`, `ResultMeansSent`; `Returns` (and at once after a cancel); `ImplementsContract` (the SOCKS engine but for `BlindRow`) |
| `capture` | one word, two runs, five replies, a body field of three units | `AllReleased`, `CaptureIsReplys`, `FieldsFilled`, `Returns` |
| `pipeline` | two words, two scans, two transfers, two trainings, four of these in all; a phrase of one character or none, two codes; chunks of three; factor 0 | `WholeTransfers`, `StashIsLastChunk`, `EndsAgree`, `BaselineIsFlat`, `InBounds` |
| `forest` | no row, one, two equal, or three; four units to a millisecond; no tree, one or two; sizes 0, 3 and 7; one training | `EndlessOnlyIfCut`, `WalksInside`, `StraysRightOnly`, `RowsKept`, `SmallSubSampleIsBlind` |
| `session` | seven configuration files, two hosts of which one has a scheme, two words, three kinds of replies and a failure; two scans, one transfer, one capture, three of these in all | `LoadedIsMeaning`, `FirstScanWins`, `ReportReadBack`, `SchemeLosesStash`, `VerdictIsSoft404Only` |

The type invariants stand with the proofs (in `TorScan` beside its properties). The comment above each property states it in words.

Why the bounds are enough. The engines keep nothing from one call to the next
but descriptors, so that two calls show what one leaves to another; two
descriptors make the process's limit bind and a stale name collide. In the Tor
engine the codes are one from each class it tells apart (below 200, accepted,
blocked, 404). `direct` has one word more than descriptors, so that the words
after the limit exist. A transfer inserts each answer once per word, so that
one puts four rows in the table and two put eight: with chunks of three, one
full chunk and a rest, or two and a rest. With factor 0 any deviation at all is
flagged, so that none escapes the run. Files of two trainings mix when one dies
among the files of the other; four commands scan, transfer and train twice, with
a compilation before either training, or scan twice and show which file a
transfer takes. A phrase of one character gives the row a column that a cut
takes away, or reads as a smaller number; an empty one gives a row with
none. Compilations and predictions are not counted, and neither are crashes. In `capture` the body
field is shorter than the longest reply, so that the cap bites. In `forest` three rows are more than a sub-sample of two and make trees of
five nodes; with rows at whole and half milliseconds a cut falls on a row,
between two, and above a row of its own millisecond; size 0 is what a refused
`.rxo` file gives, 7 the largest that is blind. In `session` the `.rso` and
`.rxo` slots may be empty, good or zero, and the former junk in part; two captured words are what it takes to make a verdict, and for one
row of a report to run into the next.

Three runs expect a violation; each is a place where a comment in the code and
the code disagree.

* `socks_granted`: "Returns the active socket descriptor on success, or -1 on
  any failure" (`N/Generic_Module/SocksModule.cpp:84`), but the reply field is not
  looked at: the byte tested is the first of the bound address. Tor reports
  0.0.0.0, which is why scans over Tor work.
* `direct_flag`: "Shared cancellation state across managed/unmanaged boundary"
  (`Fingerprinter/Warmup.cs:60`), but the cell is a copy.
* `capture_report`: "Construct a completely unique new name"
  (`Wire/FileWires.cs:141`), but the text goes to the old one.

Met on the way and without a run (`findings` in `PROJECT.json` quotes the lines):

* the re-run of a blocked query over Tor goes ahead without a tunnel when the
  second one could not be opened (`N/TorScan/tor_scan.cpp:183`). The row then
  has status -1; `RowHonest` still holds;
* `N/ReconDNS/DomainStack.cpp:89` speaks of a timeout where none is set (the lost
  datagram is the exception in `Returns` of `DnsResolver` and in `ListEnds`);
* the structs the `.rfo` and `.rso` files are read into are not zeroed, although a
  comment says so, and the manual names two keys the parsers do not know; a
  refused file is not reported, although a comment promises a code for it;
* the stash of a target with a scheme is saved and sought under different names;
* the latency compilation runs the status filter;
* a training of trees says "Model written to disk." when nothing was;
* a body with an empty line takes the reader of the report out of step;
* `reco_gan_catch_waf` warns of unloaded data and goes on, to an exception; the
  command `clear` of the manual does not exist.

Worth knowing about what holds. `LeaksPerQuery` and `AnswersBounded` hold and
are no comfort: they bound a leak the direct engine has, one descriptor and SSL
object per answered query, after which a list gets no more answers; its rows may
show a status all the same, of memory nobody wrote.
`MisuseConfined` likewise says where two wrong uses of a handle are, and that
they are nowhere else. `WholeTransfers` says that only the first scan of a
session is ever transferred, and `BaselineIsFlat` that a trained baseline has no
spread: what a prediction flags comes of a missing or torn file, of a stash a crash has
cut, or of a comparison with other codes and rows, never of a deviation. `FirstScanWins`, `SchemeLosesStash` and
`VerdictIsSoft404Only` hold too, and say what the commands cannot do: import a
later scan, train for a target written with a scheme, or tell a slow target from
a quick one. `StraysRightOnly` says in which direction alone the whole-millisecond
cuts mislead a walk, and `SmallSubSampleIsBlind` below which size a prediction
cannot find anything.

### Fairness

Weak fairness of the program's own steps: a blocking call returns, because
`SO_RCVTIMEO` is set (a timeout of zero in the configuration would mean none,
and is not modelled) or because TCP gives up. The calls for which nothing in the
code says so are left out of the fairness: the TLS retry loop of
`interface_scan` against a peer that stays silent (`SilentTlsPeer`) and the
read from the Tor control port (`pc = "control"`). In `DnsResolver` the server's
step is fair and its reply may be lost; `recvfrom` then never returns. No
fairness is put on `Cancel` or `Crash`. `Pipeline`, `LatencyForest` and `Session`
have no liveness property: their commands are loops over finite data. That a walk
ends is a safety property there: its depth is bounded (`WalksInside`).

`Finished`, where a module has it, stutters when the list is done or the process
dead, so that TLC's deadlock check stays on for every other state.

## 4. What is proved

Each module of proofs has an inductive invariant `Inv`, the theorem that every
step keeps it (`InvHolds`; `InductiveInvariant` for the forest), and theorems that
state the properties of a run. They hold for every value of the constants that
the `ASSUME` named with each allows; TLC checks every `ASSUME` on the instances of
section 3. An action property (`LoadedIsMeaning`, `SchemeLosesStash`, `VerdictIsSoft404Only`,
`SmallSubSampleIsBlind`) is shown of every step from a state that satisfies `Inv`.

All safety properties of the passing runs are proved.

| module | theorems | assumptions |
|---|---|---|
| `TorScanProofs` | `TypeCorrect`, `ReleaseCorrect`, `HandleCorrect`, `RowCorrect`, `NamelessCorrect`, `RefinesContract` | `TransportAssumption` (-1 is no descriptor, codes are at most three digits, the buffer is not empty), `TorScanAssumption` |
| `ProxyScanProofs` | `TypeCorrect`, `ReleaseCorrect`, `MisuseCorrect`, `ResultCorrect`, `RefinesContract`, `HttpRefinesContract` | `TransportAssumption`, `ProxyScanAssumption` |
| `DirectScanProofs` | `TypeCorrect`, `LeakBounded`, `AnswersLimited` | the same, and `DirectScanAssumption`: a process has finitely many descriptors |
| `TunnelResolverProofs` | of the tunnel `TypeCorrect`, `ReturnCorrect`, `WholeCorrect`; of the resolvers `ResolverTypeCorrect`, `WalkCorrect`, `CutCorrect` | `SocksAssumption`: the constants are bytes; `DnsAssumption`: owner names have the form of an encoded name, a record's data and a reply's answers are fewer than 256 |
| `BodyCaptureProofs` | `TypeCorrect`, `ReleaseCorrect`, `FieldsCorrect`, `CaptureCorrect` | `TransportAssumption`, `BodyCaptureAssumption` |
| `PipelineProofs` | `TypeCorrect`, `TransfersCorrect`, `StashCorrect`, `EndsCorrect`, `BaselineCorrect`, `BoundsCorrect` | `PipelineAssumption`: chunks are not empty, characters are in ASCII, no file and a torn file are no summaries |
| `LatencyForestProofs` | `EndlessTheorem`, `InsideTheorem`, `StraysTheorem`, `RowsTheorem`, `BlindTheorem` | `LatencyForestAssumption` (latencies are natural numbers, junk is no Boolean and no integer); for `BlindTheorem` also `FewRowsAssumption` |
| `SessionProofs` | `TypeCorrect`, `LoadCorrect`, `FirstScanCorrect`, `ReportCorrect`, `SchemeCorrect`, `VerdictCorrect` | `SessionAssumption`: lines and bodies are sequences, every `.rfo` file names a target |

`FewRowsAssumption` is a bound of the model, not of the code: `C` has the values of
c(m) for up to 8 rows, so that theorem is about sub-samples of at most 8. The
others are about sub-samples of any size.

### The engines

Whether everything is given back at delivery depends on what each earlier point
may hold, and whether a row is honest on what each has seen; so no property is
inductive by itself.

* `TorScan`. `Ledger`: the variables name exactly what has been acquired,
  whatever the control point (`fds = {sock, ctrl} \ {NoFd}`, and `tls` is 1 or 0 as
  `ssl` is live or null). `Holds`: what may be held at each point. `History`: how
  many answers precede each point, and what is known of them. `Released`, `Bare` and
  `NoFault` say what `Release` does where `Ledger` holds. The refinement needs `Inv`
  at `Deliver` (nothing held) and at the answers and the new circuit (how many
  there were); all other steps change only what is held, or stutter.
* `ProxyScan`. The engines release in six places and keep the names in five, and
  before `SSL_new` the SSL member is whatever the constructor left. `Ledger` says for
  each point what is held beside what the names say; `MisuseConfined` is part of
  the invariant, as a handle once misused stays noted; `History` says of a query
  whether it was sent and what its row can be, in cancelled calls too. For the
  refinement a query is the contract's `Query` when it comes back, and a result is a
  row that was scanned. A death amid a release may take the descriptor with it. The one
  step left over is `BlindRow`: the SOCKS engine looks at its descriptor before the query
  and not after, and so makes a result of a query that could not be sent. The HTTP
  engine never takes that step (`HttpRefinesContract`).
* `DirectScan`. Both properties count descriptors over a list of any length; a row
  is an answer by its kind, since its status may be junk.
  `Counts` keeps, at every point, the number of descriptors against queries, SSL
  objects and rows, corrected by one for the call in progress (`Unasked`, `Plain`,
  `Unrowed`): it is paid for by a query that is yet to be sent, or by a row yet to be
  written.
* `SocksTunnel`. `Stream` says which bytes are on the wire at each point while no
  read came short, down to where in the rest the first byte of the bound address
  stands; `Descriptor` when the descriptor is open.
* `DnsResolver`. Its invariant is `ResolverInv`. `Received`: the bytes received are the first
  of the reply's, and until the walk nothing is walked. `Walking`: the records behind the walk have
  no address, and there is a table `at` of the places where the records of the reply
  begin, such that the walk stands at `at[index]`, or past all that was received when that
  record begins there too (`Reached`). `ReplyBytes` proves that `Encode` has such a table
  for every reply. `SkipTable` proves that the recursion of `SkipName` has a solution
  whatever the bytes, since each label leads further on, and `SkipIs` that from the first
  byte of a name it comes to the byte behind it, or to the end of what was received. So the
  walk either reads the fields of the next record where they are (`RecordFound`)
  or finds too few bytes and ends; a label whose bytes were cut leads past the end and
  never back into a record. `WalkIsRight` and `CutIsHarmless` are part of `ResolverInv`, for the
  last step of the walk. One module holds both proofs, as `resolvede` asks over a
  `SockTunnel`.
* `BodyCapture`. `Ledger` as above. `Reading` and `Finishing` say what is known after
  each segment: `head` is where the headers end in all that was received, and the
  status is the one read from some earlier part that had it (`Seen`). `HeadStable` and
  `StatusStable` say that neither changes as more segments come, which is why it does not
  matter how a reply is cut.

### Files and commands

* `Pipeline`. `Transferred`: the table is a number of copies of the first file, and a
  transfer in progress has a prefix of one. `Compiled`: the rows saved so far are a
  multiple of the chunk and the stash is the last of them. `Stashed`: the lines have one
  code and, unless a crash has cut them, agree in every character and in their number
  (`Regular`); a cut is a stash of one code still (`CutIs`), whatever its numbers.
  `Summaries` and `InTraining`: the same of what the files hold, and how far the
  present training has come. `Ordered`: a
  file is never older than one saved after it, and newer when one between them
  is torn; `EndsAgree` follows from it, but is not kept without it, since a crash
  leaves a torn file between two whole ones. `Reporting`: a report stands only while no
  command runs, so that the stash and the files are still those it was made of; each
  flag of `BaselineIsFlat` is then a lemma (`CodeZIs` and the three after it) on samples
  without a deviation. `InBounds` is a property of steps: only `StartTrain` reads a row
  too short, and only of a stash that is not `Regular`.
* `Session`. `Slots`: a slot holds what some file means. `Numbered` and `FirstScans`:
  the scans of a path are in order, and a table's rows are of the first. `Plain`: no
  stash has a name with a scheme. `Reported`: a report is of the rows captured for
  it. Two lemmas carry most of it: `ParseIsMeaning` (each of the three parsers, a
  loop over lines, gives what the file means, whatever the order of the lines and the
  junk among them) and `ReadBackIs` (the reader of a report returns one row for each captured one,
  and where an empty line takes it out of step).

### The forest

Four invariants, each proved with the ones before it:

* `Inv`. `Growing`: of a tree half built, each branch has both children linked to
  nodes numbered above it and one level down, or a call to come that will link them.
  `Sound`: the same of a finished tree, with no node below the last level. `FileOK`:
  the trees of a whole file are `Sound` for its size. `Walking`: `depth` is the level of the
  node the walk is at. A child is numbered above its parent, so that it is never the
  root, and a branch at the last level cannot exist: `EndlessTheorem` and
  `InsideTheorem`.
* `Places`, for `RowsTheorem` and `StraysTheorem`. `Kept`: each row of a tree is in one
  leaf or in one call. `Linking`: each node but the root is the child of one node at
  one side, and each link to come is one call's. `HandedOn`: a branch has handed each
  of its rows to a side, and left if the row is below the cut that was kept.
  `LeftFirst`: what went left is dealt with before what went right, so that a leaf on
  the left has a lower number than the right child. A walk for a row therefore
  stands where the row is, or already above its leaf (`Following`): the kept cut is
  never above the one that was drawn (`CutIsLowered`), so it goes wrong to the
  right only.
* `Sizes`, for `BlindTheorem`: how many rows a tree was grown from, that one row is a leaf,
  and how long the paths walked so far must be (`Scoring`).

`Replaces` puts in one formula what a call of `buildTreeRecursive` does to the tree
and the calls to come; `GrownReplaces` shows that `Leaf` and `Split` do that, and the
lemmas ending in `Moves` show for each part of `Places` that it is kept.

### Induction over data, and what is left to TLC

The library's induction theorems need an operator as a parameter, which the
installed provers cannot instantiate. Where a proof needs induction over the positions
of a sequence it takes the least counterexample of a set of indices instead
(`Least`, `Upto`; `Flattened` for the bytes of a reply). The loops of `Pipeline`, `ConfigFiles` and `CaptureReport` are folds
of the community modules; `FoldExists` proves that the table of a fold
exists, `FoldTable` and `FoldRuns` that the fold follows it step by step. `SelectSeq` is built into
the prover without a definition, so these modules filter with folds.

Only model-checked:

* liveness (`Returns`, `TunnelReturns`, `ListEnds`): fairness and ENABLED
  are outside the prover's reach;
* the three runs that expect a violation.

## 5. What is not modelled

* Terminal output, header disguise, declarations and the empty TLS files: no
  behaviour to speak of. Of the shell: `help`, `banner`, `exec`, `shell` and the
  passthrough to the host's shell, which touch no state of the program.
* The latency filter of a compilation (`LatencyBasedFilterCompile`), which no command calls.
* Lengths of requests and headers against the buffers they are printed into;
  malformed DNS replies; the text of a proxy's CONNECT answer.
* The delay and the early return of `SendAsync` before the engine exists, except
  in `DirectScan`, where the delay lies between the engine's creation and its use.
* Latency in the stash and in the first model (`Pipeline`): measured, stored,
  averaged and compared as the status code is. In `LatencyForest` it is a small
  integer, and the doubles' rounding is left out.
* The texts of the 404 signatures and the lengths of names in configuration
  files, which are forms of values; the cap of 4095 characters in the reader of
  the report, which no captured body exceeds.
* Proxy scans over a tunnel's bytes: `SocksTunnel` is not composed with the
  engines, which take its outcome as given.

## 6. Plan

Done, in this order: `Transport` and `TorScan` with `ScanContract` (the longest
path through the program, with retry, cancel and release), its proofs,
`SocksTunnel`, `DnsResolver`, `DirectScan`, `ProxyScan`, `Pipeline`,
`BodyCapture`; then `LatencyForest` and its proofs, `ConfigFiles`,
`CaptureReport` and `Session`.

Then the refinement of `ScanContract` by `ProxyScan` and the proofs of `DnsResolver`.

What could follow:

1. `DirectScan` against a contract that lets a call keep what it opened;
2. `Session` over `Pipeline`: the commands' files with the crashes inside them,
   for more than one target;
3. one home for the lemmas on folds and least indices that the modules of proofs share.

## 7. Running

    tlc -config MCTorScan.cfg MCTorScan      # and so for each run of PROJECT.json
    tlapm TorScanProofs.tla                 # and so for each of the eight *Proofs modules
