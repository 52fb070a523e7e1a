----------------------------- MODULE ConfigFiles -----------------------------
(***************************************************************************)
(* The three configuration formats, .rfo, .rso and .rxo, and the parsers   *)
(* that read a file line by line into a struct: parser.cpp, rso_parser.cpp *)
(* and rxo_parser.cpp.  A field of a struct is named by the key that sets  *)
(* it.                                                                     *)
(*                                                                         *)
(* A value is a tuple that begins with its form:                           *)
(*   <<"number", n>>         <<"ip", address>>      <<"long">>             *)
(*   <<"file", name, ext>>   <<"text", host>>       <<"url", host>>        *)
(*   <<"spaced", text>>                                                    *)
(* A number is any text that begins with its digits, since stoi and stod   *)
(* look no further; other texts start with no digit, and no address is     *)
(* given to a key that takes a number.  A long text exceeds every field; a *)
(* url is a host after a scheme.                                           *)
(***************************************************************************)
EXTENDS Integers, SequencesExt

\* A line that sets nothing: empty, a [section], without "=" or with nothing
\* after it.
Skipped == [key |-> "", value |-> <<"none">>]

Keys(kind) ==
    CASE kind = "rfo" -> {"target", "tor_ip", "password", "cp_port", "tor_port",
                          "proto_port", "dns_server"}
      [] kind = "rso" -> {"timeout", "delay", "wordlist_path", "json_file_path",
                          "headers_file", "html_file_save"}
      [] kind = "rxo" -> {"db_password", "k_factor", "num_trees", "sub_sample_size",
                          "status_code", "latency"}

Ports == {"cp_port", "tor_port"}
Waits == {"timeout", "delay"}
Tunings == {"k_factor", "latency", "num_trees", "sub_sample_size"}
Texts == {"wordlist_path", "headers_file", "html_file_save"}

\* What each key takes.
Accepts(key, v) ==
    CASE key \in Ports          -> v[1] = "number" /\ v[2] \in 1..65535
      [] key \in Waits          -> v[1] = "number" /\ v[2] \in 0..2147483647
      [] key = "status_code"    -> v[1] = "number" /\ v[2] >= 100
      [] key \in Tunings        -> v[1] = "number"
      [] key \in Texts          -> v[1] = "file" /\ v[3] = ".txt"
      [] key = "json_file_path" -> v[1] = "file" /\ v[3] = ".json"
      [] key = "tor_ip"         -> v[1] = "ip"
      [] key = "target"         -> v[1] \notin {"spaced", "long"}
      [] OTHER                  -> v[1] # "long"

\* parser(), parserModel(), RxoStruct(): every field zero.
Zero(key) == IF key \in Ports \cup Waits \cup Tunings \cup {"status_code"}
             THEN <<"number", 0>> ELSE <<"text", "">>
Zeroed(kind) == [k \in Keys(kind) |-> Zero(k)]

\* The struct the lines are read into: declared without an initialiser but
\* for the .rxo one, whose members have theirs.
Junk == <<"junk">>
Fresh(kind) == IF kind = "rxo" THEN Zeroed(kind) ELSE [k \in Keys(kind) |-> Junk]

\* One turn of the loop.  An unknown key is passed over in an .rfo and an
\* .rso file; in an .rxo file it ends the parse.
Turn(kind, acc, line) ==
    IF acc.refused \/ line = Skipped THEN acc
    ELSE IF line.key \notin Keys(kind) THEN [acc EXCEPT !.refused = (kind = "rxo")]
    ELSE IF Accepts(line.key, line.value) THEN [acc EXCEPT !.out[line.key] = line.value]
    ELSE [acc EXCEPT !.refused = TRUE]

\* Of a program that returns what it has read so far when a line is refused.
RefusedPartly(kind, acc) == acc.out
\* What a refused line makes of all the others: a zero struct is returned.
Refused(kind, acc) == Zeroed(kind)

Opens(kind, file) == file.ext = kind /\ file.exists

\* What the loop makes of the lines.
Loop(kind, file) ==
    FoldLeft(LAMBDA acc, line : Turn(kind, acc, line),
             [refused |-> FALSE, out |-> Fresh(kind)], file.lines)

Parse(kind, file) ==
    LET end == Loop(kind, file)
    IN  IF ~Opens(kind, file) THEN Zeroed(kind)
        ELSE IF end.refused THEN Refused(kind, end) ELSE end.out

(***************************************************************************)
(* The same without a loop: what a file means.                             *)
(***************************************************************************)

Wrong(kind, line) ==
    /\ line # Skipped
    /\ IF line.key \in Keys(kind) THEN ~Accepts(line.key, line.value) ELSE kind = "rxo"

\* A file that cannot be read, or has one wrong line, means all zeros.  Any
\* other sets each key to the last value it gives it; a key it does not have
\* is zero in an .rxo file and uninitialised in the others.
Meaning(kind, file) ==
    LET sets(k) == {i \in DOMAIN file.lines : file.lines[i].key = k}
    IN  IF ~Opens(kind, file) \/ \E i \in DOMAIN file.lines : Wrong(kind, file.lines[i])
        THEN Zeroed(kind)
        ELSE [k \in Keys(kind) |->
                IF sets(k) = {} THEN Fresh(kind)[k] ELSE file.lines[Max(sets(k))].value]
==============================================================================
