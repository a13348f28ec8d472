------------------------------- MODULE Output -------------------------------
(***************************************************************************)
(* subunit-output: programs that share a stream run it to report on tests  *)
(* and to attach files, and may print to the stream themselves. The        *)
(* packets of one run come one by one, with those of the others in         *)
(* between; each is whole (V2Stream says what becomes of torn ones).       *)
(***************************************************************************)
EXTENDS Dict, Naturals

CONSTANTS
    Scripts,        \* what the programs do: program -> sequence of runs and texts
    ChunkSize,      \* how much of a file one packet takes
    MayDie          \* the programs whose runs may be killed

None == "none"
Final == {"exists", "fail", "skip", "success", "uxsuccess", "xfail"}

(* The names on a path, one at least.                                       *)
Paths == Seq(STRING) \ {<<>>}

(* A run of subunit-output has any of the options; a program may also print.*)
Runs ==
    {o \in [statuses : Seq([action : Final \cup {"inprogress"}, id : Seq(STRING)]),
            attach : {None, "-", "file", "missing"}, path : Seq(STRING), content : Seq(Nat),
            file_name : Seq(Paths), mimetype : Seq(STRING), tags : SUBSET STRING] :
       o.attach = "file" => o.path # <<>>}
Prints == [text : Seq(Nat)]

ASSUME ScriptsAssumption ==
    \A s \in Scripts : \A p \in DOMAIN s : s[p] \in Seq(Runs \cup Prints)

VARIABLES
    script,         \* what each program still has to do
    job,            \* the run each program is in, or <<>>
    begun,          \* history: the options of the runs that were begun
    stream          \* the packets; `from` is history: the number of the run
outputVars == <<script, job, begun, stream>>

OutputInit ==
    /\ script \in Scripts
    /\ job = [p \in DOMAIN script |-> <<>>]
    /\ begun = <<>> /\ stream = <<>>

Running(p) == job[p] # <<>>

(* A call of status(). An optional field is <<>> or <<value>>; times count  *)
(* the packets, 0 for none; the id of a test and the name of a file are     *)
(* split at the slashes.                                                    *)
Event(id, status, tags, time, file, eof, from) ==
    [id |-> id, status |-> status, tags |-> tags, time |-> time,
     file |-> file, eof |-> eof, from |-> from]
Now == Len(stream) + 1

(* Text comes out of the reader as a file without a test.                   *)
TextEvent(bytes) ==
    Event(<<>>, None, <<>>, 0, <<[name |-> <<"stdout">>, bytes |-> bytes]>>, FALSE, 0)

-----------------------------------------------------------------------------
(* The command line: `statuses` are the status options, `attach` says what  *)
(* --attach-file is, `file_name` and `mimetype` are <<>> when not given.    *)

(* Refused by parse_arguments, or raised: with --file-name the "-" that     *)
(* stands for the standard input is not replaced by it, and has no read().  *)
Refused(o) ==
    \/ Len(o.statuses) > 1 \/ \E i \in DOMAIN o.statuses : o.statuses[i].id = <<>>
    \/ o.attach = None /\ o.mimetype \o o.file_name # <<>>
    \/ o.attach = "missing"
    \/ o.attach = "-" /\ o.file_name # <<>>

Action(o) == IF o.statuses = <<>> THEN None ELSE o.statuses[1].action
TestId(o) == IF o.statuses = <<>> THEN <<>> ELSE o.statuses[1].id
FileName(o) ==
    IF o.file_name # <<>> THEN o.file_name[1] ELSE IF o.attach = "-" THEN <<"stdin">> ELSE o.path

Begin(p) ==
    /\ ~Running(p) /\ script[p] # <<>>
    /\ script' = [script EXCEPT ![p] = Tail(@)]
    /\ LET do == Head(script[p]) IN
         CASE "text" \in DOMAIN do ->
                stream' = Append(stream, TextEvent(do.text)) /\ UNCHANGED <<job, begun>>
           [] "statuses" \in DOMAIN do /\ Refused(do) -> UNCHANGED <<job, begun, stream>>
           [] OTHER ->
                /\ begun' = Append(begun, do)
                /\ job' = [job EXCEPT ![p] =
                             [number |-> Len(begun'), options |-> do, first |-> TRUE, left |-> do.content]]
                /\ UNCHANGED stream

-----------------------------------------------------------------------------
(* generate_stream_results.                                                 *)

Hunk(bytes) == SubSeq(bytes, 1, Min({ChunkSize, Len(bytes)}))
Rest(bytes) == SubSeq(bytes, Len(Hunk(bytes)) + 1, Len(bytes))

(* Mutant of StatusOf: a final status goes first.                           *)
StatusOfFirst(j, last) == IF j.first THEN Action(j.options) ELSE None

(* A final status comes with the last packet, another one with the first.   *)
StatusOf(j, last) ==
    IF (Action(j.options) \in Final /\ last) \/ (Action(j.options) \notin Final /\ j.first)
      THEN Action(j.options) ELSE None

(* The tags and the time (and the mime type, left out here) are in the first*)
(* packet; the file, and the test, in every one. The reader is a hunk ahead,*)
(* so that the last one is known.                                           *)
Packet(j) ==
    LET o    == j.options
        last == Rest(j.left) = <<>>
        file == IF o.attach = None THEN <<>> ELSE <<[name |-> FileName(o), bytes |-> Hunk(j.left)]>>
    IN  Event(TestId(o), StatusOf(j, last), IF j.first /\ o.tags # {} THEN <<o.tags>> ELSE <<>>,
              IF j.first THEN Now ELSE 0, file, last /\ file # <<>>, j.number)

Send(p) ==
    /\ Running(p)
    /\ stream' = Append(stream, Packet(job[p]))
    /\ LET rest == Rest(job[p].left) IN
         job' = [job EXCEPT ![p] = IF rest = <<>> THEN <<>>
                                   ELSE [@ EXCEPT !.first = FALSE, !.left = rest]]
    /\ UNCHANGED <<script, begun>>

Kill(p) ==
    /\ Running(p) /\ p \in MayDie
    /\ job' = [job EXCEPT ![p] = <<>>]
    /\ UNCHANGED <<script, begun, stream>>

OutputNext == \E p \in DOMAIN script : Begin(p) \/ Send(p) \/ Kill(p)

(* What a run says of its test is said once, with its last packet, and so   *)
(* is the end of its file: no packet of the run comes after a final status  *)
(* or after the eof, although the file is sent in pieces.                   *)
EndedOnce ==
    \A m, n \in DOMAIN stream :
      m < n /\ stream[m].from = stream[n].from /\ stream[m].from # 0 =>
        stream[m].status \notin Final /\ ~stream[m].eof

Written == \A p \in DOMAIN script : ~Running(p) /\ script[p] = <<>>
=============================================================================
