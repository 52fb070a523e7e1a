---------------------------- MODULE CaptureReport ----------------------------
(***************************************************************************)
(* The text report of a body capture, as WriteTextResBody writes it and as *)
(* Soft_404_Catcher.cpp reads it back, and what the latter takes for a     *)
(* soft 404.                                                               *)
(*                                                                         *)
(* A row is [target, status, body], its body a sequence of lines.  A line  *)
(* is a tuple that begins with its form: <<"blank">>, <<"rule">> (it holds *)
(* "---"), <<"code", n>> (stoi reads n), <<"signature">> (one of the       *)
(* phrases of an error page), <<"name", target>> or <<"text">>.            *)
(***************************************************************************)
EXTENDS Integers, SequencesExt

Blank == <<"blank">>
Rule == <<"rule">>
Warn == <<"text">>     \* "[WARN] Response body was empty or unreachable."

(***************************************************************************)
(* Writing.                                                                *)
(***************************************************************************)

\* The body as it is written.
Printed(row) == IF row.body = <<>> THEN <<Warn>> ELSE row.body
\* A row of the report: target, status and body, then a blank line.
Block(row) ==
    <<row.target, Rule, <<"code", row.status>>, Rule>> \o Printed(row) \o <<Blank>>
Report(rows) == FlattenSeq([i \in DOMAIN rows |-> Block(rows[i])]) \o <<Blank>>

(***************************************************************************)
(* Reading: step is what the next line is taken for.                       *)
(***************************************************************************)

Code(line) == IF line[1] = "code" THEN line[2] ELSE 0
Nothing == [target |-> Blank, status |-> 0, body |-> <<>>]

ReadTarget(acc, line) ==
    IF line = Blank THEN acc
    ELSE [acc EXCEPT !.step = "rule", !.record = [Nothing EXCEPT !.target = line]]

\* A line that is no "---" is lost, and a new block begins after it.
ReadRule(acc, line, next) ==
    IF line = Rule THEN [acc EXCEPT !.step = next]
    ELSE [acc EXCEPT !.step = "target"]

ReadStatus(acc, line) == [acc EXCEPT !.record.status = Code(line), !.step = "second_rule"]

Push(acc) == [acc EXCEPT !.records = Append(@, acc.record), !.step = "target"]

\* Of a program that takes the blank lines of a body with it.
EndsBodyNever(line) == FALSE
\* An empty line ends the body and with it the block.
EndsBody(line) == line = Blank
ReadBody(acc, line) ==
    IF EndsBody(line) THEN Push(acc) ELSE [acc EXCEPT !.record.body = Append(@, line)]

ReadLine(acc, line) ==
    CASE acc.step = "target"      -> ReadTarget(acc, line)
      [] acc.step = "rule"        -> ReadRule(acc, line, "status")
      [] acc.step = "status"      -> ReadStatus(acc, line)
      [] acc.step = "second_rule" -> ReadRule(acc, line, "body")
      [] acc.step = "body"        -> ReadBody(acc, line)

\* mainResponseBodyParser.
Start == [step |-> "target", record |-> Nothing, records |-> <<>>]
ReadAll(text) == FoldLeft(LAMBDA acc, line : ReadLine(acc, line), Start, text)

\* A body the end of the file cuts off counts.
Records(text) ==
    LET end == ReadAll(text)
    IN  IF end.step = "body" THEN Push(end).records ELSE end.records

\* isItSoft404: an error page under a status that says all is well.
IsSoft404(record) ==
    record.status \in {200, 203, 206} /\ <<"signature">> \in {record.body[i] : i \in DOMAIN record.body}
Soft404s(text) ==
    Cardinality({i \in DOMAIN Records(text) : IsSoft404(Records(text)[i])})

(***************************************************************************)
(* What reading back a report should give.                                 *)
(***************************************************************************)

\* The lines of a row up to its first blank one.
FirstParagraph(row) ==
    LET lines == Printed(row)
        ends == {i \in DOMAIN lines : lines[i] = Blank}
    IN  SubSeq(lines, 1, IF ends = {} THEN Len(lines) ELSE Min(ends) - 1)
AsRead(row) == [target |-> row.target, status |-> row.status, body |-> FirstParagraph(row)]

\* What is read back of the rows: those with a target, as far as they go.  The
\* block of a row without one is skipped line by line.
ReadBack(rows) ==
    FoldLeft(LAMBDA read, r : IF r.target = Blank THEN read ELSE Append(read, AsRead(r)),
             <<>>, rows)

\* No row has a "---" below the first paragraph of its body.
Clean(rows) ==
    \A i \in DOMAIN rows : \A j \in DOMAIN rows[i].body :
        rows[i].body[j] = Rule => j <= Len(FirstParagraph(rows[i]))
==============================================================================
