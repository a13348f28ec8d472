------------------------------ MODULE TestDict ------------------------------
(***************************************************************************)
(* StreamToDict of testtools, on which the commands rely: it gathers the   *)
(* packets of a test and hands the test out at its end, or at the end of   *)
(* the run. The state is a dictionary of the tests under way.              *)
(***************************************************************************)
EXTENDS Dict

Interim == {"none", "inprogress"}

Unknown(e) ==
    [id |-> e.id, status |-> "unknown", tags |-> {}, details |-> NoItems,
     start |-> e.time, stop |-> 0, from |-> {}]

Attach(details, file) ==
    Put(details, file.name,
        (IF Has(details, file.name) THEN details.value[file.name] ELSE <<>>) \o file.bytes)

(* The test of a packet with the packet in it. Tags replace those before.   *)
Noted(tests, e) ==
    LET test == IF Has(tests, e.id) THEN tests.value[e.id] ELSE Unknown(e)
    IN  [test EXCEPT
          !.status  = IF e.status = "none" THEN @ ELSE e.status,
          !.stop    = e.time,
          !.details = IF e.file = <<>> THEN @ ELSE Attach(@, e.file[1]),
          !.tags    = IF e.tags = <<>> THEN @ ELSE e.tags[1],
          !.from    = @ \cup {e.from}]

(* The state after a packet, and the tests handed out at it.                *)
Gather(tests, e) ==
    IF e.id = <<>> THEN tests
    ELSE IF e.status \in Interim THEN Put(tests, e.id, Noted(tests, e))
    ELSE Drop(tests, e.id)
HandOut(tests, e) ==
    IF e.id = <<>> \/ e.status \in Interim THEN <<>> ELSE <<Noted(tests, e)>>

(* At the end of the run, the last first.                                   *)
Leftovers(tests) ==
    Reverse([i \in DOMAIN tests.keys |-> [tests.value[tests.keys[i]] EXCEPT !.stop = 0]])
=============================================================================
