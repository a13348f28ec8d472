--------------------------- MODULE CommandsProofs ---------------------------
(***************************************************************************)
(* For all scripts, sizes of chunks, options and files on the disk: a run  *)
(* of subunit-output says once, and last, how its test ended; what a filter*)
(* script writes is what was asked for; tests are exported with the tags   *)
(* asked for; subunit-ls knows when a test began that it was told of; an   *)
(* export changes no file that is there; and the commands agree on the     *)
(* tests.                                                                  *)
(***************************************************************************)
EXTENDS Commands, FiniteSetTheorems, SequenceTheorems, TLAPS

(* Induction over the numbers.                                              *)
Numbers == INSTANCE FoldProofs WITH Step <- \o

(* A sequence, whatever its elements are, and one element more.             *)
IsSeq(s) == \E S : s \in Seq(S)

LEMMA SeqShape == ASSUME NEW s, IsSeq(s) PROVE Len(s) \in Nat /\ DOMAIN s = 1..Len(s)
BY DEF IsSeq

LEMMA AppendShape ==
  ASSUME NEW s, IsSeq(s), NEW e
  PROVE  /\ IsSeq(Append(s, e)) /\ Len(Append(s, e)) = Len(s) + 1
         /\ DOMAIN Append(s, e) = 1 .. Len(s) + 1
         /\ \A n \in 1..Len(s) : Append(s, e)[n] = s[n]
         /\ Append(s, e)[Len(s) + 1] = e
<1>1. PICK S : s \in Seq(S) BY DEF IsSeq
<1> DEFINE T == S \cup {e}
<1>2. s \in Seq(T) /\ e \in T BY <1>1
<1> HIDE DEF T
<1>3. Append(s, e) \in Seq(T) BY <1>2, AppendProperties
<1>4. /\ Len(Append(s, e)) = Len(s) + 1
      /\ \A n \in 1..Len(s) : Append(s, e)[n] = s[n]
      /\ Append(s, e)[Len(s) + 1] = e
  BY <1>2, AppendProperties
<1>5. DOMAIN Append(s, e) = 1 .. Len(s) + 1 BY <1>3, <1>4
<1> QED BY <1>3, <1>4, <1>5 DEF IsSeq

-----------------------------------------------------------------------------
(* The runs. A run that goes on has said nothing of the end, and no two     *)
(* have the same number.                                                    *)

JobOK(j) ==
    /\ DOMAIN j = {"number", "options", "first", "left"}
    /\ j.number \in 1..Len(begun)
Open(n) == stream[n].status \notin Final /\ ~stream[n].eof

RunsInv ==
    /\ IsSeq(begun) /\ IsSeq(stream)
    /\ DOMAIN job = DOMAIN script
    /\ \A p \in DOMAIN job : Running(p) => JobOK(job[p])
    /\ \A p, q \in DOMAIN job :
         Running(p) /\ Running(q) /\ job[p].number = job[q].number => p = q
    /\ \A n \in DOMAIN stream : stream[n].from \in 0..Len(begun)
    /\ \A p \in DOMAIN job : \A n \in DOMAIN stream :
         Running(p) /\ stream[n].from = job[p].number => Open(n)
    /\ EndedOnce

(* A packet that is not the last leaves the end open.                       *)
LEMMA PacketFields ==
  ASSUME NEW j
  PROVE  /\ Packet(j).from = j.number
         /\ Rest(j.left) # <<>> => Packet(j).status \notin Final /\ ~Packet(j).eof
<1>1. Packet(j).from = j.number BY DEF Packet, Event
<1>2. Packet(j).status = StatusOf(j, Rest(j.left) = <<>>) BY DEF Packet, Event
<1>3. Rest(j.left) # <<>> => ~Packet(j).eof BY DEF Packet, Event
<1>4. StatusOf(j, FALSE) \notin Final BY DEF StatusOf, Final, None
<1>5. Rest(j.left) # <<>> => Packet(j).status \notin Final BY <1>2, <1>4
<1> QED BY <1>1, <1>3, <1>5

(* A packet of the run that p is in, which may be its last.                 *)
LEMMA SendKeeps ==
  ASSUME RunsInv, NEW p \in DOMAIN script, Send(p) PROVE RunsInv'
<1> DEFINE e == Packet(job[p])
           k == job[p].number
           rest == Rest(job[p].left)
<1>1. /\ IsSeq(begun) /\ IsSeq(stream) /\ p \in DOMAIN job
      /\ Running(p) /\ JobOK(job[p]) /\ Len(begun) \in Nat
  BY SeqShape DEF RunsInv, Send
<1>2. stream' = Append(stream, e) /\ script' = script /\ begun' = begun BY DEF Send
<1>3. e.from = k /\ (rest # <<>> => e.status \notin Final /\ ~e.eof) BY PacketFields
<1>4. DOMAIN job' = DOMAIN job BY DEF Send
<1>5. \A q \in DOMAIN job : q # p => job'[q] = job[q] BY DEF Send
<1>6. rest = <<>> => job'[p] = <<>> BY <1>1 DEF Send
<1>7. rest # <<>> => job'[p] = [job[p] EXCEPT !.first = FALSE, !.left = rest]
  BY <1>1 DEF Send
<1>8. rest # <<>> => DOMAIN job'[p] = DOMAIN job[p] /\ job'[p].number = k
  BY <1>1, <1>7 DEF JobOK
<1> HIDE DEF e, rest
<1>9. /\ IsSeq(stream') /\ Len(stream) \in Nat /\ DOMAIN stream = 1..Len(stream)
      /\ DOMAIN stream' = 1 .. Len(stream) + 1
      /\ \A n \in 1..Len(stream) : stream'[n] = stream[n]
      /\ stream'[Len(stream) + 1] = e
  BY <1>1, <1>2, AppendShape, SeqShape
<1>10. \A q \in DOMAIN job : Running(q)' => Running(q) /\ job'[q].number = job[q].number
  BY <1>1, <1>5, <1>6, <1>8 DEF Running
<1>11. Running(p)' => rest # <<>> BY <1>6 DEF Running
<1>12. \A q \in DOMAIN job : Running(q)' => JobOK(job[q])'
  <2> SUFFICES ASSUME NEW q \in DOMAIN job, Running(q)' PROVE JobOK(job[q])'
    OBVIOUS
  <2>1. JobOK(job[q]) BY <1>10 DEF RunsInv
  <2>2. CASE q = p BY <1>1, <1>2, <1>8, <1>11, <2>2 DEF JobOK
  <2>3. CASE q # p BY <1>2, <1>5, <2>1, <2>3 DEF JobOK
  <2> QED BY <2>2, <2>3
<1>13. \A q, r \in DOMAIN job :
         Running(q)' /\ Running(r)' /\ job'[q].number = job'[r].number => q = r
  BY <1>10 DEF RunsInv
<1>14. \A n \in DOMAIN stream' : stream'[n].from \in 0..Len(begun)
  BY <1>1, <1>3, <1>9 DEF RunsInv, JobOK
<1>15. ASSUME NEW q \in DOMAIN job, NEW n \in DOMAIN stream',
              Running(q)', stream'[n].from = job'[q].number
       PROVE  Open(n)'
  <2>1. CASE n \in 1..Len(stream)
    <3>1. stream'[n] = stream[n] BY <1>9, <2>1
    <3>2. Open(n) BY <1>9, <1>10, <1>15, <2>1, <3>1 DEF RunsInv
    <3> QED BY <3>1, <3>2 DEF Open
  <2>2. CASE n = Len(stream) + 1
    <3>1. stream'[n] = e BY <1>9, <2>2
    <3>2. q = p BY <1>1, <1>3, <1>10, <1>15, <3>1 DEF RunsInv
    <3> QED BY <1>3, <1>11, <1>15, <3>1, <3>2 DEF Open
  <2> QED BY <1>9, <2>1, <2>2
<1>16. EndedOnce'
  <2> SUFFICES ASSUME NEW m \in DOMAIN stream', NEW n \in DOMAIN stream', m < n,
                      stream'[m].from = stream'[n].from, stream'[m].from # 0
               PROVE  stream'[m].status \notin Final /\ ~stream'[m].eof
    BY DEF EndedOnce
  <2>1. m \in 1..Len(stream) /\ stream'[m] = stream[m] BY <1>9
  <2>2. CASE n \in 1..Len(stream)
    <3>1. stream'[n] = stream[n] BY <1>9, <2>2
    <3> QED BY <1>9, <2>1, <2>2, <3>1 DEF RunsInv, EndedOnce
  <2>3. CASE n = Len(stream) + 1
    <3>1. stream[m].from = job[p].number BY <1>3, <1>9, <2>1, <2>3
    <3>2. Open(m) BY <1>1, <1>9, <2>1, <3>1 DEF RunsInv
    <3> QED BY <2>1, <3>2 DEF Open
  <2> QED BY <1>9, <2>2, <2>3
<1> QED BY <1>1, <1>2, <1>4, <1>9, <1>12, <1>13, <1>14, <1>15, <1>16 DEF RunsInv

(* A run that begins has a number of its own; a text has none.              *)
LEMMA BeginKeeps ==
  ASSUME RunsInv, NEW p \in DOMAIN script, Begin(p) PROVE RunsInv'
<1> DEFINE do == Head(script[p])
           text == TextEvent(do.text)
           new == [number |-> Len(begun'), options |-> do, first |-> TRUE, left |-> do.content]
<1>1. /\ IsSeq(begun) /\ IsSeq(stream) /\ p \in DOMAIN job /\ ~Running(p)
      /\ Len(begun) \in Nat /\ DOMAIN stream = 1..Len(stream) /\ Len(stream) \in Nat
  BY SeqShape DEF RunsInv, Begin
<1>2. \/ stream' = Append(stream, text) /\ UNCHANGED <<job, begun>>
      \/ UNCHANGED <<job, begun, stream>>
      \/ /\ begun' = Append(begun, do) /\ job' = [job EXCEPT ![p] = new]
         /\ UNCHANGED stream
  BY DEF Begin
<1>3. DOMAIN script' = DOMAIN script BY DEF Begin
<1>4. CASE stream' = Append(stream, text) /\ UNCHANGED <<job, begun>>
  <2>1. text.from = 0 /\ text.status \notin Final /\ ~text.eof
    BY DEF TextEvent, Event, Final, None
  <2> HIDE DEF text
  <2>2. /\ IsSeq(stream') /\ DOMAIN stream' = 1 .. Len(stream) + 1
        /\ \A n \in 1..Len(stream) : stream'[n] = stream[n]
        /\ stream'[Len(stream) + 1] = text
    BY <1>1, <1>4, AppendShape
  <2>3. \A n \in DOMAIN stream' : stream'[n].from \in 0..Len(begun)
    BY <1>1, <2>1, <2>2 DEF RunsInv
  <2>4. \A q \in DOMAIN job : Running(q) => job[q].number # 0
    BY DEF RunsInv, JobOK
  <2>5. ASSUME NEW q \in DOMAIN job, NEW n \in DOMAIN stream',
               Running(q), stream'[n].from = job[q].number
        PROVE  Open(n)'
    <3>1. n \in 1..Len(stream) /\ stream'[n] = stream[n]
      BY <1>1, <2>1, <2>2, <2>4, <2>5
    <3>2. Open(n) BY <1>1, <2>5, <3>1 DEF RunsInv
    <3> QED BY <3>1, <3>2 DEF Open
  <2>6. EndedOnce'
    <3> SUFFICES ASSUME NEW m \in DOMAIN stream', NEW n \in DOMAIN stream', m < n,
                        stream'[m].from = stream'[n].from, stream'[m].from # 0
                 PROVE  stream'[m].status \notin Final /\ ~stream'[m].eof
      BY DEF EndedOnce
    <3>1. m \in 1..Len(stream) /\ stream'[m] = stream[m] BY <1>1, <2>2
    <3>2. n \in 1..Len(stream) /\ stream'[n] = stream[n] BY <1>1, <2>1, <2>2
    <3> QED BY <1>1, <3>1, <3>2 DEF RunsInv, EndedOnce
  <2>7. \A q \in DOMAIN job : Running(q)' <=> Running(q) BY <1>4 DEF Running
  <2>8. \A q \in DOMAIN job : JobOK(job[q])' <=> JobOK(job[q]) BY <1>4 DEF JobOK
  <2> QED BY <1>3, <1>4, <2>2, <2>3, <2>5, <2>6, <2>7, <2>8 DEF RunsInv
<1>5. CASE UNCHANGED <<job, begun, stream>>
  <2>1. \A q \in DOMAIN job : Running(q)' <=> Running(q) BY <1>5 DEF Running
  <2>2. \A q \in DOMAIN job : JobOK(job[q])' <=> JobOK(job[q]) BY <1>5 DEF JobOK
  <2>3. \A n \in DOMAIN stream : Open(n)' <=> Open(n) BY <1>5 DEF Open
  <2>4. EndedOnce' <=> EndedOnce BY <1>5 DEF EndedOnce
  <2> QED BY <1>3, <1>5, <2>1, <2>2, <2>3, <2>4 DEF RunsInv
<1>6. CASE begun' = Append(begun, do) /\ job' = [job EXCEPT ![p] = new] /\ UNCHANGED stream
  <2> HIDE DEF do
  <2>1. IsSeq(begun') /\ Len(begun') = Len(begun) + 1 BY <1>1, <1>6, AppendShape
  <2>2. /\ DOMAIN new = {"number", "options", "first", "left"}
        /\ new.number = Len(begun) + 1
    BY <2>1
  <2> HIDE DEF new
  <2>3. /\ DOMAIN job' = DOMAIN job /\ job'[p] = new
        /\ \A q \in DOMAIN job : q # p => job'[q] = job[q]
    BY <1>1, <1>6
  <2>4. \A q \in DOMAIN job : q # p => (Running(q)' <=> Running(q))
    BY <2>3 DEF Running
  <2>5. \A q \in DOMAIN job : q # p /\ Running(q) =>
          JobOK(job[q])' /\ job[q].number \in 1..Len(begun)
    BY <1>1, <2>1, <2>3 DEF RunsInv, JobOK
  <2>6. JobOK(job[p])' BY <1>1, <2>1, <2>2, <2>3 DEF JobOK
  <2>7. \A q, r \in DOMAIN job :
          Running(q)' /\ Running(r)' /\ job'[q].number = job'[r].number => q = r
    BY <1>1, <2>2, <2>3, <2>4, <2>5 DEF RunsInv
  <2>8. \A n \in DOMAIN stream : stream[n].from \in 0..Len(begun) BY DEF RunsInv
  <2>9. ASSUME NEW q \in DOMAIN job, NEW n \in DOMAIN stream,
               Running(q)', stream[n].from = job'[q].number
        PROVE  Open(n)
    <3>1. q # p BY <1>1, <2>2, <2>3, <2>8, <2>9
    <3> QED BY <2>3, <2>4, <2>9, <3>1 DEF RunsInv
  <2>10. \A n \in DOMAIN stream : Open(n)' <=> Open(n) BY <1>6 DEF Open
  <2>11. EndedOnce' BY <1>6 DEF RunsInv, EndedOnce
  <2>12. \A n \in DOMAIN stream : stream[n].from \in 0..Len(begun')
    BY <1>1, <2>1, <2>8
  <2> QED BY <1>1, <1>3, <1>6, <2>1, <2>3, <2>4, <2>5, <2>6, <2>7, <2>9, <2>10, <2>11, <2>12
          DEF RunsInv
<1> QED BY <1>2, <1>4, <1>5, <1>6

LEMMA KillKeeps ==
  ASSUME RunsInv, NEW p \in DOMAIN script, Kill(p) PROVE RunsInv'
<1>1. /\ DOMAIN job' = DOMAIN job /\ UNCHANGED <<script, begun, stream>>
      /\ \A q \in DOMAIN job : job'[q] = job[q] \/ job'[q] = <<>>
  BY DEF Kill
<1>2. \A q \in DOMAIN job : Running(q)' => Running(q) /\ job'[q] = job[q]
  BY <1>1 DEF Running
<1>3. \A q \in DOMAIN job : Running(q)' => JobOK(job[q])'
  BY <1>1, <1>2 DEF RunsInv, JobOK
<1>4. \A n \in DOMAIN stream : Open(n)' <=> Open(n) BY <1>1 DEF Open
<1>5. EndedOnce' BY <1>1 DEF RunsInv, EndedOnce
<1> QED BY <1>1, <1>2, <1>3, <1>4, <1>5 DEF RunsInv

LEMMA RunsKept == ASSUME RunsInv, [Next]_vars PROVE RunsInv'
<1>1. CASE OutputNext
  BY <1>1, BeginKeeps, SendKeeps, KillKeeps DEF OutputNext
<1>2. CASE UNCHANGED outputVars
  <2>1. UNCHANGED <<script, job, begun, stream>> BY <1>2 DEF outputVars
  <2>2. \A q \in DOMAIN job : Running(q)' <=> Running(q) BY <2>1 DEF Running
  <2>3. \A q \in DOMAIN job : JobOK(job[q])' <=> JobOK(job[q]) BY <2>1 DEF JobOK
  <2>4. \A n \in DOMAIN stream : Open(n)' <=> Open(n) BY <2>1 DEF Open
  <2>5. EndedOnce' <=> EndedOnce BY <2>1 DEF EndedOnce
  <2> QED BY <2>1, <2>2, <2>3, <2>4, <2>5 DEF RunsInv
<1> QED BY <1>1, <1>2 DEF Next, Program, Read, Stop, vars

LEMMA RunsStart == Init => RunsInv
<1> SUFFICES ASSUME Init PROVE RunsInv OBVIOUS
<1>1. /\ DOMAIN job = DOMAIN script /\ begun = <<>> /\ stream = <<>>
      /\ \A p \in DOMAIN job : ~Running(p)
  BY DEF Init, OutputInit, Running
<1>2. IsSeq(<<>>)
  <2>1. <<>> \in Seq({}) OBVIOUS
  <2> QED BY <2>1 DEF IsSeq
<1>3. DOMAIN stream = {} BY <1>1
<1> QED BY <1>1, <1>2, <1>3 DEF RunsInv, EndedOnce

(* Whatever programs run subunit-output at a time, on whatever files, and   *)
(* whichever are killed: no packet of a run comes after the one that says   *)
(* how the test ended, or that the file is complete.                        *)
THEOREM EndIsLast == Spec => []EndedOnce
<1>1. Init => RunsInv BY RunsStart
<1>2. RunsInv /\ [Next]_vars => RunsInv' BY RunsKept
<1>3. RunsInv => EndedOnce BY DEF RunsInv
<1> QED BY <1>1, <1>2, <1>3, PTL DEF Spec

-----------------------------------------------------------------------------
(* The standard output of a filter script. Each thing on it stands for one  *)
(* of the packets read; a text has no test and is a file.                   *)

EventOK(e) ==
    /\ {"id", "status", "tags", "time", "file"} \subseteq DOMAIN e
    /\ (e.from = 0 => e.id = <<>> /\ e.file # <<>>)
Of(item) == IF "packet" \in DOMAIN item THEN item.packet ELSE item.bytes
ItemOK(item) ==
    \E n \in 1..at :
      item = [packet |-> n] \/ (item = [bytes |-> n] /\ options.unwrap /\ ~options.forward)
Shows(n) == \E i \in DOMAIN stdout : Of(stdout[i]) = n
Asked(n) ==
    /\ stream[n].id # <<>> => (Shows(n) <=> options.forward)
    /\ stream[n].from = 0 => (Shows(n) <=> options.passthrough)

RouteInv ==
    /\ RunsInv /\ IsSeq(stdout)
    /\ options \in Setups
    /\ at \in 0..Len(stream)
    /\ \A n \in DOMAIN stream : EventOK(stream[n])
    /\ \A i \in DOMAIN stdout : ItemOK(stdout[i])
    /\ \A i, j \in DOMAIN stdout : i < j => Of(stdout[i]) < Of(stdout[j])
    /\ \A n \in 1..at : Asked(n)

(* What is on the stream stays, and what comes is an event.                 *)
LEMMA StreamGrows ==
  ASSUME RunsInv, OutputNext
  PROVE  stream' = stream \/ \E e : stream' = Append(stream, e) /\ EventOK(e)
<1>1. PICK p \in DOMAIN script : Begin(p) \/ Send(p) \/ Kill(p) BY DEF OutputNext
<1>2. CASE Begin(p)
  <2> DEFINE text == TextEvent(Head(script[p]).text)
  <2>1. EventOK(text) BY DEF TextEvent, Event, EventOK
  <2>2. stream' = Append(stream, text) \/ stream' = stream BY <1>2 DEF Begin
  <2> QED BY <2>1, <2>2
<1>3. CASE Send(p)
  <2>1. job[p].number # 0 BY <1>1, <1>3 DEF Send, RunsInv, JobOK
  <2>2. EventOK(Packet(job[p])) BY <2>1 DEF Packet, Event, EventOK
  <2> QED BY <1>3, <2>2 DEF Send
<1>4. CASE Kill(p) BY <1>4 DEF Kill
<1> QED BY <1>1, <1>2, <1>3, <1>4

(* Tags do not change where an event goes; one that is shown is shown once. *)
LEMMA RoutedShape ==
  ASSUME NEW n, NEW e, EventOK(e), options \in Setups
  PROVE  \/ /\ Routed(n, Tagged(e)) = <<>>
            /\ e.id # <<>> => ~options.forward
            /\ e.from = 0 => ~options.passthrough
         \/ \E x : /\ Routed(n, Tagged(e)) = <<x>>
                   /\ \/ x = [packet |-> n]
                      \/ x = [bytes |-> n] /\ options.unwrap /\ ~options.forward
                   /\ e.id # <<>> => options.forward
                   /\ e.from = 0 => options.passthrough
<1>1. Tagged(e).id = e.id /\ Tagged(e).file = e.file BY DEF Tagged, EventOK
<1>2. {options.passthrough, options.forward, options.unwrap} \subseteq BOOLEAN
  BY SetupsAssumption
<1> QED BY <1>1, <1>2 DEF Routed, EventOK

(* At a packet that is read, and what it puts on the output.                *)
LEMMA ReadKeeps == ASSUME RouteInv, RunsInv', Read PROVE RouteInv'
<1>0. PICK k : k = at + 1 OBVIOUS
<1> DEFINE e == stream[k]
           out == Routed(k, Tagged(e))
<1>1. /\ at \in Nat /\ Len(stream) \in Nat /\ DOMAIN stream = 1..Len(stream)
      /\ at < Len(stream) /\ at' = k /\ k = at + 1 /\ UNCHANGED <<stream, options>>
      /\ stdout' = stdout \o out
  BY <1>0, SeqShape DEF RouteInv, RunsInv, Read, outputVars
<1>2. EventOK(e) /\ options \in Setups BY <1>1 DEF RouteInv
<1>3. at' \in 0..Len(stream') /\ options' \in Setups BY <1>1 DEF RouteInv
<1>4. \A n \in DOMAIN stream' : EventOK(stream'[n]) BY <1>1 DEF RouteInv
<1>5. \A item : ItemOK(item) => ItemOK(item)' BY <1>1 DEF ItemOK
<1>6. \A n : Of([packet |-> n]) = n /\ Of([bytes |-> n]) = n BY DEF Of
<1>7. \A item : ItemOK(item) => Of(item) \in 1..at BY <1>6 DEF ItemOK
<1>8. CASE /\ out = <<>>
           /\ e.id # <<>> => ~options.forward
           /\ e.from = 0 => ~options.passthrough
  <2>1. stdout' = stdout
    <3>1. PICK S : stdout \in Seq(S) BY DEF RouteInv, IsSeq
    <3> QED BY <1>1, <1>8, <3>1
  <2>2. \A n \in 1..at : Asked(n)' BY <1>1, <2>1 DEF RouteInv, Asked, Shows
  <2>3. ~Shows(k) BY <1>1, <1>7 DEF RouteInv, Shows
  <2>4. Asked(k)' BY <1>1, <1>8, <2>1, <2>3 DEF Asked, Shows
  <2>5. ASSUME NEW n \in 1..at' PROVE Asked(n)'
    <3>1. n \in 1..at \/ n = k BY <1>1
    <3> QED BY <2>2, <2>4, <3>1
  <2> QED BY <1>3, <1>4, <1>5, <2>1, <2>5 DEF RouteInv
<1>9. ASSUME NEW x, out = <<x>>,
             \/ x = [packet |-> k]
             \/ x = [bytes |-> k] /\ options.unwrap /\ ~options.forward,
             e.id # <<>> => options.forward, e.from = 0 => options.passthrough
      PROVE  RouteInv'
  <2>1. stdout' = Append(stdout, x)
    <3>1. PICK S : stdout \in Seq(S) BY DEF RouteInv, IsSeq
    <3> DEFINE T == S \cup {x}
    <3>2. stdout \in Seq(T) /\ x \in T BY <3>1
    <3> HIDE DEF T
    <3>3. Append(stdout, x) = stdout \o <<x>> BY <3>2, AppendIsConcat
    <3> QED BY <1>1, <1>9, <3>3
  <2>2. /\ IsSeq(stdout) /\ IsSeq(stdout') /\ Len(stdout) \in Nat
        /\ DOMAIN stdout = 1..Len(stdout) /\ DOMAIN stdout' = 1 .. Len(stdout) + 1
        /\ \A i \in 1..Len(stdout) : stdout'[i] = stdout[i]
        /\ stdout'[Len(stdout) + 1] = x
    BY <2>1, SeqShape, AppendShape DEF RouteInv
  <2>3. Of(x) = k BY <1>6, <1>9
  <2>4. ItemOK(x)' BY <1>1, <1>9 DEF ItemOK
  <2>5. ASSUME NEW i \in DOMAIN stdout' PROVE ItemOK(stdout[i])'
    <3>1. CASE i \in 1..Len(stdout) BY <1>5, <2>2, <3>1 DEF RouteInv, ItemOK
    <3>2. CASE i = Len(stdout) + 1 BY <2>2, <2>4, <3>2 DEF ItemOK
    <3> QED BY <2>2, <3>1, <3>2
  <2>6. \A i \in 1..Len(stdout) : Of(stdout'[i]) = Of(stdout[i]) /\ Of(stdout[i]) \in 1..at
    BY <1>7, <2>2 DEF RouteInv
  <2>7. \A i, j \in DOMAIN stdout' : i < j => Of(stdout'[i]) < Of(stdout'[j])
    <3> SUFFICES ASSUME NEW i \in DOMAIN stdout', NEW j \in DOMAIN stdout', i < j
                 PROVE  Of(stdout'[i]) < Of(stdout'[j])
      OBVIOUS
    <3>1. CASE j \in 1..Len(stdout) BY <2>2, <2>6, <3>1 DEF RouteInv
    <3>2. CASE j = Len(stdout) + 1
      <4>1. i \in 1..Len(stdout) BY <2>2, <3>2
      <4>2. Of(stdout'[j]) = k BY <2>2, <2>3, <3>2
      <4> QED BY <1>1, <2>6, <4>1, <4>2
    <3> QED BY <2>2, <3>1, <3>2
  <2>8. ASSUME NEW n \in 1..at PROVE Shows(n)' <=> Shows(n)
    <3>1. n # k BY <1>1
    <3>2. \A i \in DOMAIN stdout' :
            Of(stdout'[i]) = n <=> i \in DOMAIN stdout /\ Of(stdout[i]) = n
      BY <2>2, <2>3, <2>6, <3>1
    <3> QED BY <2>2, <3>2 DEF Shows
  <2>9. \A n \in 1..at : Asked(n)' BY <1>1, <2>8 DEF RouteInv, Asked
  <2>10. Shows(k)' BY <2>2, <2>3 DEF Shows
  <2>11. Asked(k)' BY <1>1, <1>9, <2>10 DEF Asked
  <2>12. ASSUME NEW n \in 1..at' PROVE Asked(n)'
    <3>1. n \in 1..at \/ n = k BY <1>1
    <3> QED BY <2>9, <2>11, <3>1
  <2> QED BY <1>3, <1>4, <2>2, <2>5, <2>7, <2>12 DEF RouteInv
<1>10. \/ out = <<>> /\ (e.id # <<>> => ~options.forward) /\ (e.from = 0 => ~options.passthrough)
       \/ \E x : /\ out = <<x>>
                 /\ \/ x = [packet |-> k]
                    \/ x = [bytes |-> k] /\ options.unwrap /\ ~options.forward
                 /\ e.id # <<>> => options.forward
                 /\ e.from = 0 => options.passthrough
  BY <1>2, RoutedShape
<1> HIDE DEF out
<1> QED BY <1>8, <1>9, <1>10

LEMMA RouteKept == ASSUME RouteInv, [Next]_vars PROVE RouteInv'
<1>1. RunsInv' BY RunsKept DEF RouteInv
<1>2. CASE Read BY <1>1, <1>2, ReadKeeps
<1>3. CASE UNCHANGED <<options, at, stdout>>
  <2>1. /\ IsSeq(stream) /\ Len(stream) \in Nat /\ DOMAIN stream = 1..Len(stream)
        /\ at \in 0..Len(stream)
    BY SeqShape DEF RouteInv, RunsInv
  <2>2. \A n : Shows(n)' <=> Shows(n) BY <1>3 DEF Shows
  <2>3. \A item : ItemOK(item)' <=> ItemOK(item) BY <1>3 DEF ItemOK
  <2>4. ASSUME DOMAIN stream' = 1..Len(stream'), Len(stream') \in Nat, Len(stream) <= Len(stream'),
               \A n \in 1..Len(stream) : stream'[n] = stream[n],
               \A n \in DOMAIN stream' : EventOK(stream'[n])
        PROVE  RouteInv'
    <3>1. \A n \in 1..at : Asked(n)' BY <1>3, <2>1, <2>2, <2>4 DEF RouteInv, Asked
    <3> QED BY <1>1, <1>3, <2>1, <2>3, <2>4, <3>1 DEF RouteInv
  <2>5. CASE stream' = stream BY <2>1, <2>4, <2>5 DEF RouteInv
  <2>6. ASSUME NEW e, stream' = Append(stream, e), EventOK(e) PROVE RouteInv'
    BY <2>1, <2>4, <2>6, AppendShape DEF RouteInv
  <2>7. stream' = stream \/ OutputNext BY DEF Next, Program, Read, Stop, vars, outputVars
  <2> QED BY <2>5, <2>6, <2>7, StreamGrows DEF RouteInv
<1> QED BY <1>2, <1>3 DEF Next, Program, Stop, vars

LEMMA RouteStart == Init => RouteInv
<1> SUFFICES ASSUME Init PROVE RouteInv OBVIOUS
<1>1. RunsInv BY RunsStart
<1>2. stream = <<>> /\ stdout = <<>> /\ at = 0 /\ options \in Setups BY DEF Init, OutputInit
<1>3. <<>> \in Seq({}) OBVIOUS
<1>4. IsSeq(stdout) BY <1>2, <1>3 DEF IsSeq
<1> QED BY <1>1, <1>2, <1>4 DEF RouteInv

(* Whatever is on the stream and whatever tags are added to it: a filter    *)
(* script writes, in order and once each, the packets of the tests with     *)
(* --forward, and the text unless it was told --no-passthrough.             *)
THEOREM WritesWhatIsAsked == Spec => []RoutedAsAsked
<1>1. Init => RouteInv BY RouteStart
<1>2. RouteInv /\ [Next]_vars => RouteInv' BY RouteKept
<1>3. RouteInv => RoutedAsAsked
  <2> SUFFICES ASSUME RouteInv PROVE RoutedAsAsked OBVIOUS
  <2>1. \A i, j \in DOMAIN stdout : i < j => Of(stdout[i]) < Of(stdout[j]) BY DEF RouteInv
  <2>2. \A n \in 1..at : Asked(n) BY DEF RouteInv
  <2>3. \A i \in DOMAIN stdout : "bytes" \in DOMAIN stdout[i] => options.unwrap /\ ~options.forward
    BY DEF RouteInv, ItemOK
  <2> QED BY <2>1, <2>2, <2>3 DEF RoutedAsAsked, Of, Asked, Shows
<1> QED BY <1>1, <1>2, <1>3, PTL DEF Spec

-----------------------------------------------------------------------------
(* Dictionaries of Python.                                                  *)

(* A dictionary has each of its keys once.                                  *)
DictOK(dict) ==
    /\ dict = [keys |-> dict.keys, value |-> dict.value]
    /\ IsSeq(dict.keys)
    /\ \A i \in 1..Len(dict.keys) : dict.keys[i] \in DOMAIN dict.value
    /\ \A i, j \in 1..Len(dict.keys) : dict.keys[i] = dict.keys[j] => i = j
    /\ \A k \in DOMAIN dict.value : \E i \in 1..Len(dict.keys) : dict.keys[i] = k

LEMMA EmptyDict == DictOK(NoItems) /\ DOMAIN NoItems.value = {}
<1>1. NoItems.keys = <<>> /\ NoItems.value = <<>> /\ NoItems = [keys |-> <<>>, value |-> <<>>]
  BY DEF NoItems
<1>2. <<>> \in Seq({}) /\ DOMAIN <<>> = {} /\ Len(<<>>) = 0 OBVIOUS
<1>3. IsSeq(<<>>) BY <1>2 DEF IsSeq
<1> QED BY <1>1, <1>2, <1>3 DEF DictOK

LEMMA PutIs ==
  ASSUME NEW d, DictOK(d), NEW k, NEW v
  PROVE  /\ DictOK(Put(d, k, v))
         /\ DOMAIN Put(d, k, v).value = DOMAIN d.value \cup {k}
         /\ Put(d, k, v).value[k] = v
         /\ \A j \in DOMAIN d.value : j # k => Put(d, k, v).value[j] = d.value[j]
<1>1. PICK p : p = Put(d, k, v) OBVIOUS
<1>2. /\ p.value = Updated(d.value, k, v)
      /\ p.keys = IF Has(d, k) THEN d.keys ELSE Append(d.keys, k)
      /\ p = [keys |-> p.keys, value |-> p.value]
  BY <1>1 DEF Put
<1>3. /\ DOMAIN p.value = DOMAIN d.value \cup {k} /\ p.value[k] = v
      /\ \A j \in DOMAIN d.value : j # k => p.value[j] = d.value[j]
  <2>1. PICK u : u = Updated(d.value, k, v) OBVIOUS
  <2>2. /\ DOMAIN u = DOMAIN d.value \cup {k} /\ u[k] = v
        /\ \A j \in DOMAIN d.value : j # k => u[j] = d.value[j]
    BY <2>1 DEF Updated
  <2>3. p.value = u BY <1>2, <2>1
  <2> QED BY <2>2, <2>3
<1>4. IsSeq(d.keys) /\ Len(d.keys) \in Nat BY SeqShape DEF DictOK
<1>5. DictOK(p)
  <2>1. CASE k \in DOMAIN d.value
    <3>1. p.keys = d.keys BY <1>2, <2>1 DEF Has
    <3> QED BY <1>2, <1>3, <2>1, <3>1 DEF DictOK
  <2>2. CASE k \notin DOMAIN d.value
    <3>1. p.keys = Append(d.keys, k) BY <1>2, <2>2 DEF Has
    <3>2. /\ IsSeq(p.keys) /\ Len(p.keys) = Len(d.keys) + 1
          /\ \A n \in 1..Len(d.keys) : p.keys[n] = d.keys[n]
          /\ p.keys[Len(d.keys) + 1] = k
      BY <1>4, <3>1, AppendShape
    <3>3. \A i \in 1..Len(p.keys) : i \in 1..Len(d.keys) \/ i = Len(d.keys) + 1 BY <1>4, <3>2
    <3>4. \A i \in 1..Len(p.keys) : p.keys[i] \in DOMAIN p.value
      BY <1>3, <3>2, <3>3 DEF DictOK
    <3>5. \A i, j \in 1..Len(p.keys) : p.keys[i] = p.keys[j] => i = j
      BY <2>2, <3>2, <3>3 DEF DictOK
    <3>6. \A j \in DOMAIN p.value : \E i \in 1..Len(p.keys) : p.keys[i] = j
      BY <1>3, <1>4, <3>2 DEF DictOK
    <3> QED BY <1>2, <3>2, <3>4, <3>5, <3>6 DEF DictOK
  <2> QED BY <2>1, <2>2
<1> QED BY <1>1, <1>3, <1>5

LEMMA RemoveAtIs ==
  ASSUME NEW s, IsSeq(s), NEW c \in 1..Len(s)
  PROVE  /\ IsSeq(RemoveAt(s, c)) /\ Len(RemoveAt(s, c)) = Len(s) - 1
         /\ \A i \in 1..Len(s) - 1 : RemoveAt(s, c)[i] = IF i < c THEN s[i] ELSE s[i + 1]
<1>1. PICK S : s \in Seq(S) BY DEF IsSeq
<1>2. Len(s) \in Nat /\ \A i \in 1..Len(s) : s[i] \in S BY <1>1
<1>3. PICK x : x = SubSeq(s, 1, c - 1) OBVIOUS
<1>4. PICK y : y = SubSeq(s, c + 1, Len(s)) OBVIOUS
<1>5. /\ x \in Seq(S) /\ Len(x) = c - 1
      /\ \A i \in 1..c - 1 : x[i] = s[i]
  <2>1. \A i \in 1..c - 1 : s[i] \in S BY <1>2
  <2>2. 1 \in Int /\ c - 1 \in Int BY <1>2
  <2>3. /\ x \in Seq(S) /\ Len(x) = IF 1 <= c - 1 THEN c - 1 - 1 + 1 ELSE 0
        /\ \A i \in 1..c - 1 - 1 + 1 : x[i] = s[1 + i - 1]
    BY <1>3, <2>1, <2>2, SubSeqProperties
  <2> QED BY <1>2, <2>3
<1>6. /\ y \in Seq(S) /\ Len(y) = Len(s) - c
      /\ \A i \in 1..Len(s) - c : y[i] = s[c + i]
  <2>1. \A i \in c + 1..Len(s) : s[i] \in S BY <1>2
  <2>2. c + 1 \in Int /\ Len(s) \in Int BY <1>2
  <2>3. /\ y \in Seq(S) /\ Len(y) = IF c + 1 <= Len(s) THEN Len(s) - (c + 1) + 1 ELSE 0
        /\ \A i \in 1..Len(s) - (c + 1) + 1 : y[i] = s[c + 1 + i - 1]
    BY <1>4, <2>1, <2>2, SubSeqProperties
  <2> QED BY <1>2, <2>3
<1>7. PICK t : t = x \o y OBVIOUS
<1>8. /\ t \in Seq(S) /\ Len(t) = Len(x) + Len(y)
      /\ \A i \in 1..Len(x) + Len(y) : t[i] = IF i <= Len(x) THEN x[i] ELSE y[i - Len(x)]
  BY <1>5, <1>6, <1>7, ConcatProperties
<1>9. RemoveAt(s, c) = t BY <1>3, <1>4, <1>7 DEF RemoveAt
<1>10. ASSUME NEW i \in 1..Len(s) - 1 PROVE t[i] = IF i < c THEN s[i] ELSE s[i + 1]
  <2>1. CASE i < c BY <1>2, <1>5, <1>6, <1>8, <2>1
  <2>2. CASE ~(i < c)
    <3>1. i - (c - 1) \in 1..Len(s) - c BY <1>2, <2>2
    <3>2. t[i] = y[i - (c - 1)]
      <4>1. i \in 1..Len(x) + Len(y) /\ ~(i <= Len(x)) BY <1>2, <1>5, <1>6, <2>2
      <4>2. t[i] = y[i - Len(x)] BY <1>8, <4>1
      <4> QED BY <1>5, <4>2
    <3>3. c + (i - (c - 1)) = i + 1 BY <1>2
    <3> QED BY <1>6, <2>2, <3>1, <3>2, <3>3
  <2> QED BY <2>1, <2>2
<1>11. IsSeq(t) BY <1>8 DEF IsSeq
<1>12. Len(t) = Len(s) - 1 BY <1>2, <1>5, <1>6, <1>8
<1> QED BY <1>9, <1>10, <1>11, <1>12

LEMMA DropIs ==
  ASSUME NEW d, DictOK(d), NEW k
  PROVE  /\ DictOK(Drop(d, k))
         /\ DOMAIN Drop(d, k).value = DOMAIN d.value \ {k}
         /\ \A j \in DOMAIN d.value : j # k => Drop(d, k).value[j] = d.value[j]
<1>1. PICK p : p = Drop(d, k) OBVIOUS
<1>2. /\ p.value = [j \in DOMAIN d.value \ {k} |-> d.value[j]]
      /\ p.keys = RemoveFirst(d.keys, k)
      /\ p = [keys |-> p.keys, value |-> p.value]
  BY <1>1 DEF Drop
<1>3. /\ DOMAIN p.value = DOMAIN d.value \ {k}
      /\ \A j \in DOMAIN d.value : j # k => p.value[j] = d.value[j]
  BY <1>2
<1>4. IsSeq(d.keys) /\ Len(d.keys) \in Nat BY SeqShape DEF DictOK
<1>5. CASE k \notin DOMAIN d.value
  <2>1. ~ \E i \in 1..Len(d.keys) : d.keys[i] = k BY <1>5 DEF DictOK
  <2>2. p.keys = d.keys BY <1>2, <2>1, Zenon DEF RemoveFirst
  <2>3. DictOK(p) BY <1>2, <1>3, <1>5, <2>2 DEF DictOK
  <2> QED BY <1>1, <1>3, <2>3
<1>6. CASE k \in DOMAIN d.value
  <2>1. PICK c \in 1..Len(d.keys) : d.keys[c] = k BY <1>6 DEF DictOK
  <2>2. \A i \in 1..Len(d.keys) : d.keys[i] = k => i = c BY <2>1 DEF DictOK
  <2>3. {i \in 1..Len(d.keys) : d.keys[i] = k} = {c} BY <2>1, <2>2
  <2>4. Min({c}) = c BY <1>4, <2>1 DEF Min
  <2>5. SelectInSeq(d.keys, LAMBDA v : v = k) = c
    BY <2>3, <2>4, Zenon DEF SelectInSeq
  <2>6. p.keys = RemoveAt(d.keys, c) BY <1>2, <2>1, <2>5, Zenon DEF RemoveFirst
  <2>7. /\ IsSeq(p.keys) /\ Len(p.keys) = Len(d.keys) - 1
        /\ \A i \in 1..Len(d.keys) - 1 :
             p.keys[i] = IF i < c THEN d.keys[i] ELSE d.keys[i + 1]
    BY <1>4, <2>6, RemoveAtIs
  <2> DEFINE From(i) == IF i < c THEN i ELSE i + 1
  <2>8. \A i \in 1..Len(p.keys) :
          From(i) \in 1..Len(d.keys) /\ From(i) # c /\ p.keys[i] = d.keys[From(i)]
    BY <1>4, <2>7
  <2>9. \A i, j \in 1..Len(p.keys) : From(i) = From(j) => i = j BY <1>4, <2>7
  <2>10. \A i \in 1..Len(d.keys) : i # c => \E j \in 1..Len(p.keys) : From(j) = i
    <3> SUFFICES ASSUME NEW i \in 1..Len(d.keys), i # c
                 PROVE  \E j \in 1..Len(p.keys) : From(j) = i
      OBVIOUS
    <3>1. CASE i < c
      <4>1. i \in 1..Len(p.keys) /\ From(i) = i BY <1>4, <2>7, <3>1
      <4> QED BY <4>1
    <3>2. CASE i > c
      <4>1. i - 1 \in 1..Len(p.keys) /\ From(i - 1) = i BY <1>4, <2>7, <3>2
      <4> QED BY <4>1
    <3> QED BY <1>4, <3>1, <3>2
  <2> HIDE DEF From
  <2>11. \A i \in 1..Len(p.keys) : p.keys[i] \in DOMAIN p.value
    BY <1>3, <2>2, <2>8 DEF DictOK
  <2>12. \A i, j \in 1..Len(p.keys) : p.keys[i] = p.keys[j] => i = j
    BY <2>8, <2>9 DEF DictOK
  <2>13. ASSUME NEW j \in DOMAIN p.value PROVE \E i \in 1..Len(p.keys) : p.keys[i] = j
    <3>1. j \in DOMAIN d.value /\ j # k BY <1>3
    <3>2. PICK i \in 1..Len(d.keys) : d.keys[i] = j BY <3>1 DEF DictOK
    <3>3. PICK l \in 1..Len(p.keys) : From(l) = i BY <2>1, <2>10, <3>1, <3>2
    <3> QED BY <2>8, <3>2, <3>3
  <2>14. DictOK(p) BY <1>2, <2>7, <2>11, <2>12, <2>13 DEF DictOK
  <2> QED BY <1>1, <1>3, <2>14
<1> QED BY <1>5, <1>6

-----------------------------------------------------------------------------
(* The tags of the tests that subunit2disk exports.                         *)

RightTags(test) ==
    /\ {"tags", "stop"} \subseteq DOMAIN test
    /\ (options.new \ options.gone) \subseteq test.tags /\ options.gone \cap test.tags = {}

TagsInv ==
    /\ DictOK(tests) /\ \A k \in DOMAIN tests.value : RightTags(tests.value[k])
    /\ IsSeq(exported)
    /\ \A i \in DOMAIN exported : RightTags(exported[i].test)

(* With the packet that came through subunit-tags.                          *)
LEMMA NotedTags ==
  ASSUME TagsInv, NEW e, "tags" \in DOMAIN e
  PROVE  RightTags(Noted(tests, Tagged(e)))
<1>1. PICK d : d = Tagged(e) OBVIOUS
<1>2. \/ d.tags = <<>> /\ options.new \ options.gone = {}
      \/ \E T : d.tags = <<T>> /\ (options.new \ options.gone) \subseteq T /\ options.gone \cap T = {}
  <2>1. PICK U : U = UNION ToSet(e.tags) OBVIOUS
  <2>2. PICK new : new = options.new OBVIOUS
  <2>3. PICK gone : gone = options.gone OBVIOUS
  <2>4. PICK T : T = (U \cup new) \ gone OBVIOUS
  <2>5. d.tags = IF T = {} THEN <<>> ELSE <<T>>
    <3>1. T = ((UNION ToSet(e.tags)) \cup options.new) \ options.gone
      BY <2>1, <2>2, <2>3, <2>4
    <3>2. d = [e EXCEPT !.tags = IF T = {} THEN <<>> ELSE <<T>>]
      BY <1>1, <3>1, Zenon DEF Tagged
    <3> QED BY <3>2
  <2>6. (new \ gone) \subseteq T /\ gone \cap T = {} BY <2>4
  <2>7. T = {} => new \ gone = {} BY <2>6
  <2> QED BY <2>2, <2>3, <2>5, <2>6, <2>7
<1>3. PICK t : t = IF Has(tests, d.id) THEN tests.value[d.id] ELSE Unknown(d) OBVIOUS
<1>4. /\ {"tags", "stop"} \subseteq DOMAIN t
      /\ \/ t.tags = {}
         \/ (options.new \ options.gone) \subseteq t.tags
      /\ options.gone \cap t.tags = {}
  <2>1. CASE Has(tests, d.id) BY <1>3, <2>1 DEF TagsInv, Has, RightTags
  <2>2. CASE ~Has(tests, d.id) BY <1>3, <2>2 DEF Unknown
  <2> QED BY <2>1, <2>2
<1>5. PICK n : n = Noted(tests, d) OBVIOUS
<1>6. /\ DOMAIN n = DOMAIN t
      /\ n.tags = IF d.tags = <<>> THEN t.tags ELSE d.tags[1]
  BY <1>3, <1>4, <1>5 DEF Noted
<1>7. RightTags(n) BY <1>2, <1>4, <1>6 DEF RightTags
<1> QED BY <1>1, <1>5, <1>7

Exports == INSTANCE FoldProofs WITH Step <- ExportOne

(* The variables of Disk as one record, and after the tests are exported.   *)
Stored == [files |-> files, exported |-> exported, broken |-> broken]

LEMMA ExportIs ==
  ASSUME NEW s, IsSeq(s), Export(s)
  PROVE  \E f : /\ Exports!Folds(f, Stored, s)
                /\ files' = f[Len(s)].files /\ exported' = f[Len(s)].exported
                /\ broken' = f[Len(s)].broken
<1>1. Len(s) \in Nat /\ DOMAIN s = 1..Len(s) BY SeqShape
<1>2. PICK f : Exports!Folds(f, Stored, s) /\ Exports!Fold(Stored, s) = f[Len(s)]
  BY <1>1, Exports!FoldLeftSteps
<1>3. PICK all : all = Exports!Fold(Stored, s) OBVIOUS
<1>4. files' = all.files /\ exported' = all.exported /\ broken' = all.broken
  BY <1>3, Zenon DEF Export, Stored, Exports!Fold, Exports!FoldLeft, Exports!MapThenFoldSet,
     Exports!Max, FoldLeft, MapThenFoldSet, Max
<1> QED BY <1>2, <1>3, <1>4

(* Tests with the right tags leave others with them.                        *)
TaggedDisk(disk) ==
    /\ DOMAIN disk = {"files", "exported", "broken"}
    /\ IsSeq(disk.exported)
    /\ \A i \in DOMAIN disk.exported : RightTags(disk.exported[i].test)

LEMMA ExportOneTags ==
  ASSUME NEW disk, TaggedDisk(disk), NEW test, RightTags(test)
  PROVE  TaggedDisk(ExportOne(disk, test))
<1>1. PICK d : d = ExportOne(disk, test) OBVIOUS
<1>2. CASE disk.broken BY <1>1, <1>2 DEF ExportOne
<1>3. CASE ~disk.broken /\ Endless(Directory, test.id)
  <2>1. d = [disk EXCEPT !.broken = TRUE] BY <1>1, <1>3 DEF ExportOne
  <2> QED BY <1>1, <2>1 DEF TaggedDisk
<1>4. CASE ~disk.broken /\ ~Endless(Directory, test.id)
  <2>1. PICK made : made = Made(disk.files, test) OBVIOUS
  <2>2. PICK x : x = [test |-> test, paths |-> made.paths] OBVIOUS
  <2>3. d = [files |-> made.files, broken |-> made.broken,
             exported |-> IF made.broken THEN disk.exported ELSE Append(disk.exported, x)]
    BY <1>1, <1>4, <2>1, <2>2, Zenon DEF ExportOne
  <2>4. DOMAIN d = {"files", "exported", "broken"} BY <2>3
  <2>5. d.exported = disk.exported \/ d.exported = Append(disk.exported, x) BY <2>3
  <2>6. IsSeq(disk.exported) BY DEF TaggedDisk
  <2>7. /\ IsSeq(Append(disk.exported, x)) /\ Len(disk.exported) \in Nat
        /\ DOMAIN disk.exported = 1..Len(disk.exported)
        /\ DOMAIN Append(disk.exported, x) = 1..Len(disk.exported) + 1
        /\ \A n \in 1..Len(disk.exported) : Append(disk.exported, x)[n] = disk.exported[n]
        /\ Append(disk.exported, x)[Len(disk.exported) + 1] = x
    BY <2>6, AppendShape, SeqShape
  <2>8. RightTags(x.test) BY <2>2
  <2>9. CASE d.exported = disk.exported BY <1>1, <2>4, <2>9 DEF TaggedDisk
  <2>10. CASE d.exported = Append(disk.exported, x)
    <3>1. \A i \in DOMAIN d.exported :
            \/ i \in DOMAIN disk.exported /\ d.exported[i] = disk.exported[i]
            \/ d.exported[i] = x
      BY <2>7, <2>10
    <3>2. \A i \in DOMAIN d.exported : RightTags(d.exported[i].test)
      BY <2>8, <3>1 DEF TaggedDisk
    <3> QED BY <1>1, <2>4, <2>7, <2>10, <3>2 DEF TaggedDisk
  <2> QED BY <2>5, <2>9, <2>10
<1> QED BY <1>2, <1>3, <1>4

LEMMA ExportTags ==
  ASSUME NEW s, IsSeq(s), Export(s), TaggedDisk(Stored),
         \A i \in 1..Len(s) : RightTags(s[i])
  PROVE  IsSeq(exported') /\ \A i \in DOMAIN exported' : RightTags(exported'[i].test)
<1>1. Len(s) \in Nat BY SeqShape
<1>2. PICK f : Exports!Folds(f, Stored, s) /\ exported' = f[Len(s)].exported BY ExportIs
<1> DEFINE A == {i \in 0..Len(s) : TaggedDisk(f[i])}
<1>3. 0 \in A BY <1>1, <1>2 DEF Exports!Folds
<1>4. ASSUME NEW i \in 1..Len(s), i - 1 \in A PROVE i \in A
  <2>1. f[i] = ExportOne(f[i - 1], s[i]) BY <1>2 DEF Exports!Folds
  <2>2. TaggedDisk(f[i - 1]) BY <1>4
  <2>3. TaggedDisk(ExportOne(f[i - 1], s[i])) BY <2>2, ExportOneTags
  <2> QED BY <1>1, <2>1, <2>3
<1>5. Len(s) \in A
  <2> HIDE DEF A
  <2> QED BY <1>1, <1>3, <1>4, Numbers!Upto
<1> QED BY <1>2, <1>5 DEF TaggedDisk

(* The tests at the end of the run, the last first.                         *)
Backwards(dict, l) ==
    /\ IsSeq(l) /\ Len(l) = Len(dict.keys)
    /\ \A i \in 1..Len(l) :
         /\ dict.keys[(Len(l) - i) + 1] \in DOMAIN dict.value
         /\ l[i] = [dict.value[dict.keys[(Len(l) - i) + 1]] EXCEPT !.stop = 0]

LEMMA LeftoversList == ASSUME NEW dict, DictOK(dict) PROVE Backwards(dict, Leftovers(dict))
<1> DEFINE one(i) == [dict.value[dict.keys[i]] EXCEPT !.stop = 0]
<1>1. IsSeq(dict.keys) /\ Len(dict.keys) \in Nat /\ DOMAIN dict.keys = 1..Len(dict.keys)
  BY SeqShape DEF DictOK
<1>2. PICK n : n = Len(dict.keys) OBVIOUS
<1>3. PICK t : t = [i \in DOMAIN dict.keys |-> one(i)] OBVIOUS
<1>4. PICK S : S = {one(i) : i \in 1..n} OBVIOUS
<1>5. t \in Seq(S) /\ Len(t) = n /\ \A i \in 1..n : t[i] = one(i) BY <1>1, <1>2, <1>3, <1>4
<1>6. PICK l : l = Reverse(t) OBVIOUS
<1>7. l = [i \in 1..n |-> t[(n - i) + 1]] BY <1>5, <1>6 DEF Reverse
<1>8. \A i \in 1..n : (n - i) + 1 \in 1..n BY <1>1, <1>2
<1>9. l \in Seq(S) /\ Len(l) = n BY <1>1, <1>2, <1>5, <1>7, <1>8
<1>10. ASSUME NEW i \in 1..n
       PROVE  /\ dict.keys[(n - i) + 1] \in DOMAIN dict.value
              /\ l[i] = one((n - i) + 1)
  <2>1. PICK j \in 1..n : j = (n - i) + 1 BY <1>8
  <2>2. l[i] = one(j) BY <1>5, <1>7, <2>1
  <2>3. dict.keys[j] \in DOMAIN dict.value BY <1>2 DEF DictOK
  <2> QED BY <2>1, <2>2, <2>3
<1>11. Leftovers(dict) = l BY <1>3, <1>6 DEF Leftovers
<1>12. IsSeq(l) BY <1>9 DEF IsSeq
<1> QED BY <1>2, <1>9, <1>10, <1>11, <1>12 DEF Backwards

LEMMA LeftoversAre ==
  ASSUME NEW dict, DictOK(dict)
  PROVE  /\ IsSeq(Leftovers(dict))
         /\ \A i \in 1..Len(Leftovers(dict)) : \E k \in DOMAIN dict.value :
              Leftovers(dict)[i] = [dict.value[k] EXCEPT !.stop = 0]
<1>1. PICK l : l = Leftovers(dict) OBVIOUS
<1>2. Backwards(dict, l) BY <1>1, LeftoversList
<1> QED BY <1>1, <1>2 DEF Backwards

LEMMA ReadTags ==
  ASSUME TagsInv, Read, "tags" \in DOMAIN stream[at'] PROVE TagsInv'
<1>1. PICK e : e = Tagged(stream[at']) OBVIOUS
<1>2. tests' = Gather(tests, e) /\ Export(HandOut(tests, e)) /\ options' = options
  BY <1>1 DEF Read
<1>3. PICK t : t = Noted(tests, e) OBVIOUS
<1>4. RightTags(t) BY <1>1, <1>3, NotedTags
<1>5. \A x : RightTags(x)' <=> RightTags(x) BY <1>2 DEF RightTags
<1>6. DictOK(tests') /\ \A k \in DOMAIN tests'.value : RightTags(tests'.value[k])
  <2>1. CASE e.id = <<>> BY <1>2, <2>1 DEF Gather, TagsInv
  <2>2. CASE e.id # <<>> /\ e.status \in Interim
    <3>1. tests' = Put(tests, e.id, t) BY <1>2, <1>3, <2>2 DEF Gather
    <3> QED BY <1>4, <3>1, PutIs DEF TagsInv
  <2>3. CASE e.id # <<>> /\ e.status \notin Interim
    <3>1. tests' = Drop(tests, e.id) BY <1>2, <2>3 DEF Gather
    <3> QED BY <3>1, DropIs DEF TagsInv
  <2> QED BY <2>1, <2>2, <2>3
<1>7. PICK s : s = HandOut(tests, e) OBVIOUS
<1>8. IsSeq(s) /\ \A i \in 1..Len(s) : RightTags(s[i])
  <2>1. s = <<>> \/ s = <<t>> BY <1>3, <1>7 DEF HandOut
  <2>2. /\ <<>> \in Seq({}) /\ Len(<<>>) = 0
        /\ <<t>> \in Seq({t}) /\ Len(<<t>>) = 1 /\ <<t>>[1] = t
    OBVIOUS
  <2>3. IsSeq(<<>>) /\ IsSeq(<<t>>) BY <2>2 DEF IsSeq
  <2>4. CASE s = <<>> BY <2>2, <2>3, <2>4
  <2>5. CASE s = <<t>>
    <3>1. \A i \in 1..Len(s) : s[i] = t BY <2>2, <2>5
    <3> QED BY <1>4, <2>3, <2>5, <3>1
  <2> QED BY <2>1, <2>4, <2>5
<1>9. TaggedDisk(Stored) BY DEF TaggedDisk, Stored, TagsInv
<1>10. IsSeq(exported') /\ \A i \in DOMAIN exported' : RightTags(exported'[i].test)
  BY <1>2, <1>7, <1>8, <1>9, ExportTags
<1> QED BY <1>5, <1>6, <1>10 DEF TagsInv

LEMMA StopTags == ASSUME TagsInv, Stop PROVE TagsInv'
<1>1. tests' = NoItems /\ Export(Leftovers(tests)) /\ options' = options BY DEF Stop
<1>2. \A x : RightTags(x)' <=> RightTags(x) BY <1>1 DEF RightTags
<1>3. PICK s : s = Leftovers(tests) OBVIOUS
<1>4. /\ IsSeq(s)
      /\ \A i \in 1..Len(s) : \E k \in DOMAIN tests.value :
           s[i] = [tests.value[k] EXCEPT !.stop = 0]
  BY <1>3, LeftoversAre DEF TagsInv
<1>5. ASSUME NEW i \in 1..Len(s) PROVE RightTags(s[i])
  <2>1. PICK k \in DOMAIN tests.value : s[i] = [tests.value[k] EXCEPT !.stop = 0] BY <1>4
  <2>2. RightTags(tests.value[k]) BY DEF TagsInv
  <2> QED BY <2>1, <2>2 DEF RightTags
<1>6. TaggedDisk(Stored) BY DEF TaggedDisk, Stored, TagsInv
<1>7. IsSeq(exported') /\ \A i \in DOMAIN exported' : RightTags(exported'[i].test)
  BY <1>1, <1>3, <1>4, <1>5, <1>6, ExportTags
<1>8. DictOK(tests') /\ DOMAIN tests'.value = {} BY <1>1, EmptyDict
<1> QED BY <1>2, <1>7, <1>8 DEF TagsInv

LEMMA TagsKept == ASSUME RouteInv, TagsInv, [Next]_vars PROVE TagsInv'
<1>1. CASE Read
  <2>1. at' \in DOMAIN stream BY <1>1, SeqShape DEF RouteInv, RunsInv, Read
  <2>2. "tags" \in DOMAIN stream[at'] BY <2>1 DEF RouteInv, EventOK
  <2> QED BY <1>1, <2>2, ReadTags
<1>2. CASE Stop BY <1>2, StopTags
<1>3. CASE UNCHANGED <<options, tests, exported>>
  <2>1. \A x : RightTags(x)' <=> RightTags(x) BY <1>3 DEF RightTags
  <2> QED BY <1>3, <2>1 DEF TagsInv
<1> QED BY <1>1, <1>2, <1>3 DEF Next, Program, vars, diskVars

LEMMA TagsStart == Init => TagsInv
<1> SUFFICES ASSUME Init PROVE TagsInv OBVIOUS
<1>1. tests = NoItems /\ exported = <<>> BY DEF Init, DiskInit
<1>2. <<>> \in Seq({}) /\ DOMAIN <<>> = {} OBVIOUS
<1>3. IsSeq(exported) BY <1>1, <1>2 DEF IsSeq
<1> QED BY <1>1, <1>2, <1>3, EmptyDict DEF TagsInv

(* Whatever tags the packets of a test have: what goes through subunit-tags *)
(* is exported with the tags that were asked for and none that was to go.   *)
THEOREM TagsAreAdded == Spec => []AddedTagsStay
<1>1. Init => RouteInv /\ TagsInv BY RouteStart, TagsStart
<1>2. RouteInv /\ TagsInv /\ [Next]_vars => (RouteInv /\ TagsInv)' BY RouteKept, TagsKept
<1>3. RouteInv /\ TagsInv => AddedTagsStay BY DEF TagsInv, AddedTagsStay, RightTags, ToSet
<1> QED BY <1>1, <1>2, <1>3, PTL DEF Spec

-----------------------------------------------------------------------------
(* What was written. A program goes on with what its script says; the first *)
(* packet of a run has a time, so that a test has been timed before any of  *)
(* it comes without.                                                        *)
Tasks == Runs \cup Prints
Timed(m) == stream[m].id # <<>> /\ stream[m].time # 0
Going(j) ==
    /\ DOMAIN j = {"number", "options", "first", "left"}
    /\ j.options \in Runs
    /\ ~j.first /\ TestId(j.options) # <<>> => \E m \in DOMAIN stream : Timed(m)
WrittenInv ==
    /\ IsSeq(stream)
    /\ DOMAIN job = DOMAIN script
    /\ \A p \in DOMAIN script : script[p] \in Seq(Tasks)
    /\ \A p \in DOMAIN job : Running(p) => Going(job[p])
    /\ \A n \in DOMAIN stream :
         /\ stream[n].status \in Final \cup Interim
         /\ stream[n].id # <<>> => \E m \in 1..n : Timed(m)

LEMMA ActionOf ==
  ASSUME NEW o \in Runs PROVE Action(o) \in Final \cup Interim
<1>1. o.statuses \in Seq([action : Final \cup {"inprogress"}, id : Seq(STRING)]) BY DEF Runs
<1>2. CASE o.statuses = <<>> BY <1>2 DEF Action, None, Interim
<1>3. CASE o.statuses # <<>>
  <2>1. o.statuses[1] \in [action : Final \cup {"inprogress"}, id : Seq(STRING)]
    <3>1. PICK S : S = [action : Final \cup {"inprogress"}, id : Seq(STRING)] OBVIOUS
    <3>2. o.statuses \in Seq(S) BY <1>1, <3>1
    <3>3. o.statuses[1] \in S BY <1>3, <3>2
    <3> QED BY <3>1, <3>3
  <2>2. Action(o) = o.statuses[1].action BY <1>3 DEF Action
  <2> QED BY <2>1, <2>2 DEF Interim
<1> QED BY <1>2, <1>3

LEMMA PacketIs ==
  ASSUME NEW j, Going(j)
  PROVE  /\ Packet(j).id = TestId(j.options)
         /\ Packet(j).status \in Final \cup Interim
         /\ j.first => Packet(j).time = Len(stream) + 1
<1>1. Packet(j).id = TestId(j.options) BY DEF Packet, Event
<1>2. Packet(j).status = StatusOf(j, Rest(j.left) = <<>>) BY DEF Packet, Event
<1>3. j.first => Packet(j).time = Len(stream) + 1 BY DEF Packet, Event, Now
<1>4. Action(j.options) \in Final \cup Interim BY ActionOf DEF Going
<1>5. \A last : StatusOf(j, last) = Action(j.options) \/ StatusOf(j, last) = None
  BY DEF StatusOf
<1> QED BY <1>1, <1>2, <1>3, <1>4, <1>5 DEF None, Interim

(* One packet more.                                                         *)
LEMMA WrittenMore ==
  ASSUME WrittenInv, NEW e, stream' = Append(stream, e),
         e.status \in Final \cup Interim,
         e.id # <<>> /\ e.time = 0 => \E m \in DOMAIN stream : Timed(m)
  PROVE  /\ IsSeq(stream')
         /\ \A m \in DOMAIN stream : m \in DOMAIN stream' /\ (Timed(m) => Timed(m)')
         /\ \A n \in DOMAIN stream' :
              /\ stream'[n].status \in Final \cup Interim
              /\ stream'[n].id # <<>> => \E m \in 1..n : Timed(m)'
<1>1. IsSeq(stream) BY DEF WrittenInv
<1>2. /\ IsSeq(stream') /\ Len(stream) \in Nat /\ DOMAIN stream = 1..Len(stream)
      /\ DOMAIN stream' = 1..Len(stream) + 1
      /\ \A n \in 1..Len(stream) : stream'[n] = stream[n]
      /\ stream'[Len(stream) + 1] = e
  BY <1>1, AppendShape, SeqShape
<1>3. \A m \in DOMAIN stream : m \in DOMAIN stream' /\ (Timed(m) => Timed(m)')
  BY <1>2 DEF Timed
<1>4. ASSUME NEW n \in DOMAIN stream'
      PROVE  /\ stream'[n].status \in Final \cup Interim
             /\ stream'[n].id # <<>> => \E m \in 1..n : Timed(m)'
  <2>1. CASE n \in 1..Len(stream)
    <3>1. stream'[n] = stream[n] /\ n \in DOMAIN stream BY <1>2, <2>1
    <3>2. \A m \in 1..n : m \in DOMAIN stream BY <1>2, <2>1
    <3> QED BY <1>3, <3>1, <3>2 DEF WrittenInv
  <2>2. CASE n = Len(stream) + 1
    <3>1. stream'[n] = e BY <1>2, <2>2
    <3>2. CASE e.id # <<>> /\ e.time = 0
      <4>1. PICK m \in DOMAIN stream : Timed(m) BY <3>2
      <4>2. m \in 1..n /\ Timed(m)' BY <1>2, <1>3, <2>2, <4>1
      <4> QED BY <3>1, <4>2
    <3>3. CASE e.id # <<>> /\ e.time # 0
      <4>1. Timed(n)' /\ n \in 1..n BY <1>2, <2>2, <3>1, <3>3 DEF Timed
      <4> QED BY <3>1, <4>1
    <3> QED BY <3>1, <3>2, <3>3
  <2> QED BY <1>2, <2>1, <2>2
<1> QED BY <1>2, <1>3, <1>4

LEMMA SendWritten == ASSUME WrittenInv, NEW p \in DOMAIN script, Send(p) PROVE WrittenInv'
<1> DEFINE rest == Rest(job[p].left)
<1>1. PICK j : j = job[p] OBVIOUS
<1>2. PICK e : e = Packet(j) OBVIOUS
<1>3. /\ Running(p) /\ Going(j) /\ p \in DOMAIN job
      /\ stream' = Append(stream, e) /\ script' = script
  BY <1>1, <1>2 DEF WrittenInv, Send
<1>4. e.id = TestId(j.options) /\ e.status \in Final \cup Interim
        /\ (j.first => e.time = Len(stream) + 1)
  BY <1>2, <1>3, PacketIs
<1>5. IsSeq(stream) /\ Len(stream) \in Nat BY SeqShape DEF WrittenInv
<1>6. e.id # <<>> /\ e.time = 0 => \E m \in DOMAIN stream : Timed(m)
  BY <1>3, <1>4, <1>5 DEF Going
<1>7. /\ IsSeq(stream')
      /\ \A m \in DOMAIN stream : m \in DOMAIN stream' /\ (Timed(m) => Timed(m)')
      /\ \A n \in DOMAIN stream' :
           /\ stream'[n].status \in Final \cup Interim
           /\ stream'[n].id # <<>> => \E m \in 1..n : Timed(m)'
  BY <1>3, <1>4, <1>6, WrittenMore
<1>8. /\ DOMAIN job' = DOMAIN job /\ \A q \in DOMAIN job : q # p => job'[q] = job[q]
      /\ rest = <<>> => job'[p] = <<>>
      /\ rest # <<>> => job'[p] = [j EXCEPT !.first = FALSE, !.left = rest]
  BY <1>1, <1>3 DEF Send
<1> HIDE DEF rest
<1>9. \A x : Going(x) => Going(x)' BY <1>7 DEF Going
<1>10. e.id # <<>> => \E m \in DOMAIN stream' : Timed(m)'
  <2>1. DOMAIN stream' = 1..Len(stream) + 1 /\ stream'[Len(stream) + 1] = e
    BY <1>3, <1>5, AppendShape
  <2>2. e = stream'[Len(stream) + 1] /\ Len(stream) + 1 \in DOMAIN stream' BY <1>5, <2>1
  <2>3. \A m \in 1..Len(stream) + 1 : m \in DOMAIN stream' BY <2>1
  <2> QED BY <1>7, <2>2, <2>3
<1>11. ASSUME NEW q \in DOMAIN job', Running(q)' PROVE Going(job[q])'
  <2>1. CASE q # p
    <3>1. job'[q] = job[q] /\ Running(q) BY <1>8, <1>11, <2>1 DEF Running
    <3>2. Going(job[q]) BY <1>8, <3>1 DEF WrittenInv
    <3> QED BY <1>9, <3>1, <3>2
  <2>2. CASE q = p
    <3>1. rest # <<>> BY <1>8, <1>11, <2>2 DEF Running
    <3>2. PICK k : k = job'[p] OBVIOUS
    <3>3. k = [j EXCEPT !.first = FALSE, !.left = rest] BY <1>8, <3>1, <3>2
    <3>4. DOMAIN k = DOMAIN j /\ k.options = j.options BY <1>3, <3>3 DEF Going
    <3>5. Going(k)' BY <1>3, <1>4, <1>10, <3>4 DEF Going
    <3> QED BY <2>2, <3>2, <3>5
  <2> QED BY <2>1, <2>2
<1> QED BY <1>3, <1>7, <1>8, <1>11 DEF WrittenInv

LEMMA BeginWritten == ASSUME WrittenInv, NEW p \in DOMAIN script, Begin(p) PROVE WrittenInv'
<1>1. PICK do : do = Head(script[p]) OBVIOUS
<1>2. script[p] \in Seq(Tasks) /\ script[p] # <<>> BY DEF Begin, WrittenInv
<1>3. do \in Tasks /\ Tail(script[p]) \in Seq(Tasks) BY <1>1, <1>2, HeadTailProperties
<1>4. DOMAIN script' = DOMAIN script /\ \A q \in DOMAIN script' : script'[q] \in Seq(Tasks)
  BY <1>2, <1>3 DEF Begin, WrittenInv
<1>5. PICK e : e = TextEvent(do.text) OBVIOUS
<1>6. e.id = <<>> /\ e.status \in Final \cup Interim BY <1>5 DEF TextEvent, Event, None, Interim
<1>7. CASE UNCHANGED <<job, stream>>
  <2>1. \A m : Timed(m)' <=> Timed(m) BY <1>7 DEF Timed
  <2>2. \A x : Going(x)' <=> Going(x) BY <1>7, <2>1 DEF Going
  <2>3. \A q : Running(q)' <=> Running(q) BY <1>7 DEF Running
  <2> QED BY <1>4, <1>7, <2>1, <2>2, <2>3 DEF WrittenInv
<1>8. CASE stream' = Append(stream, e) /\ UNCHANGED job
  <2>1. /\ IsSeq(stream')
        /\ \A m \in DOMAIN stream : m \in DOMAIN stream' /\ (Timed(m) => Timed(m)')
        /\ \A n \in DOMAIN stream' :
             /\ stream'[n].status \in Final \cup Interim
             /\ stream'[n].id # <<>> => \E m \in 1..n : Timed(m)'
    BY <1>6, <1>8, WrittenMore
  <2>2. \A x : Going(x) => Going(x)' BY <2>1 DEF Going
  <2>3. \A q : Running(q)' <=> Running(q) BY <1>8 DEF Running
  <2> QED BY <1>4, <1>8, <2>1, <2>2, <2>3 DEF WrittenInv
<1>9. CASE /\ "text" \notin DOMAIN do /\ UNCHANGED stream
           /\ \E k : job' = [job EXCEPT ![p] = [number |-> k, options |-> do, first |-> TRUE,
                                               left |-> do.content]]
  <2>1. PICK k : job' = [job EXCEPT ![p] = [number |-> k, options |-> do, first |-> TRUE,
                                            left |-> do.content]]
    BY <1>9
  <2>2. PICK j : j = [number |-> k, options |-> do, first |-> TRUE, left |-> do.content] OBVIOUS
  <2>3. do \in Runs BY <1>3, <1>9 DEF Tasks, Prints
  <2>4. Going(j)' BY <2>2, <2>3 DEF Going
  <2>5. \A m : Timed(m)' <=> Timed(m) BY <1>9 DEF Timed
  <2>6. \A x : Going(x)' <=> Going(x) BY <1>9, <2>5 DEF Going
  <2>7. DOMAIN job' = DOMAIN job /\ \A q \in DOMAIN job : job'[q] = IF q = p THEN j ELSE job[q]
    BY <2>1, <2>2
  <2>8. \A q \in DOMAIN job' : Running(q)' => Going(job[q])'
    BY <2>4, <2>6, <2>7 DEF WrittenInv, Running
  <2> QED BY <1>4, <1>9, <2>5, <2>7, <2>8 DEF WrittenInv
<1>10. \/ UNCHANGED <<job, stream>>
       \/ stream' = Append(stream, e) /\ UNCHANGED job
       \/ /\ "text" \notin DOMAIN do /\ UNCHANGED stream
          /\ \E k : job' = [job EXCEPT ![p] = [number |-> k, options |-> do, first |-> TRUE,
                                              left |-> do.content]]
  <2>1. CASE "text" \in DOMAIN do BY <1>1, <1>5, <2>1 DEF Begin
  <2>2. CASE "text" \notin DOMAIN do /\ "statuses" \in DOMAIN do /\ Refused(do)
    BY <1>1, <2>2 DEF Begin
  <2>3. CASE "text" \notin DOMAIN do /\ ~("statuses" \in DOMAIN do /\ Refused(do))
    BY <1>1, <2>3 DEF Begin
  <2> QED BY <2>1, <2>2, <2>3
<1> QED BY <1>7, <1>8, <1>9, <1>10

LEMMA WrittenKept == ASSUME WrittenInv, [Next]_vars PROVE WrittenInv'
<1>1. CASE UNCHANGED outputVars
  <2>1. \A m : Timed(m)' <=> Timed(m) BY <1>1 DEF Timed, outputVars
  <2>2. \A x : Going(x)' <=> Going(x) BY <1>1, <2>1 DEF Going, outputVars
  <2>3. \A q : Running(q)' <=> Running(q) BY <1>1 DEF Running, outputVars
  <2> QED BY <1>1, <2>1, <2>2, <2>3 DEF WrittenInv, outputVars
<1>2. CASE OutputNext
  <2>1. PICK p \in DOMAIN script : Begin(p) \/ Send(p) \/ Kill(p) BY <1>2 DEF OutputNext
  <2>2. CASE Begin(p) BY <2>2, BeginWritten
  <2>3. CASE Send(p) BY <2>3, SendWritten
  <2>4. CASE Kill(p)
    <3>1. UNCHANGED <<script, stream>> /\ DOMAIN job' = DOMAIN job
            /\ job'[p] = <<>> /\ \A q \in DOMAIN job : q # p => job'[q] = job[q]
      BY <2>4 DEF Kill, WrittenInv
    <3>2. \A m : Timed(m)' <=> Timed(m) BY <3>1 DEF Timed
    <3>3. \A x : Going(x)' <=> Going(x) BY <3>1, <3>2 DEF Going
    <3>4. \A q \in DOMAIN job' : Running(q)' => Running(q) /\ job'[q] = job[q]
      BY <3>1 DEF Running
    <3> QED BY <3>1, <3>2, <3>3, <3>4 DEF WrittenInv
  <2> QED BY <2>1, <2>2, <2>3, <2>4
<1> QED BY <1>1, <1>2 DEF Next, Program, Read, Stop, vars

LEMMA WrittenStart == Init => WrittenInv
<1> SUFFICES ASSUME Init PROVE WrittenInv OBVIOUS
<1>1. script \in Scripts /\ job = [p \in DOMAIN script |-> <<>>] /\ stream = <<>>
  BY DEF Init, OutputInit
<1>2. <<>> \in Seq({}) /\ DOMAIN <<>> = {} OBVIOUS
<1>3. IsSeq(stream) BY <1>1, <1>2 DEF IsSeq
<1> QED BY <1>1, <1>2, <1>3, ScriptsAssumption DEF WrittenInv, Running, Tasks

-----------------------------------------------------------------------------
(* The listing of subunit-ls, while it has not given up: it knows when each *)
(* of the tests under way began.                                            *)
UnderWay(id) ==
    \E m \in 1..at :
      /\ stream[m].id = id /\ stream[m].status \in Interim
      /\ \A k \in m..at : stream[k].id = id => stream[k].status \in Interim \cup {"exists"}
Untimed(n) ==
    /\ stream[n].id # <<>> /\ stream[n].status \in Final
    /\ stream[n].status = "exists" \/ ~Begun(n)
ListFields == {"time", "active", "lines", "raised"}
Listing(list) ==
    /\ DictOK(list.active)
    /\ (\E m \in 1..at : Timed(m)) => list.time # 0
    /\ \A id \in DOMAIN list.active.value : list.active.value[id] # 0
    /\ \A id : id # <<>> /\ UnderWay(id) => id \in DOMAIN list.active.value
ListInv ==
    /\ DOMAIN listing = ListFields /\ listing.raised \in BOOLEAN
    /\ listing.raised => \E n \in 1..at : Untimed(n)
    /\ stopped => Written /\ at = Len(stream)
    /\ ~stopped /\ ~listing.raised => Listing(listing)

TimeAt(list, e) == IF e.time # 0 THEN e.time ELSE list.time
IsTimed(list, id) == Has(list.active, id) /\ list.active.value[id] # 0

LEMMA EndTestIs ==
  ASSUME NEW list, DOMAIN list = ListFields, list.raised = FALSE, NEW id, NEW times
  PROVE  /\ DOMAIN EndTest(list, id, times) = ListFields
         /\ EndTest(list, id, times).raised \in BOOLEAN
         /\ EndTest(list, id, times).active = Drop(list.active, id)
         /\ EndTest(list, id, times).time = list.time
         /\ EndTest(list, id, times).raised => ~IsTimed(list, id)
<1>1. PICK a : a = Drop(list.active, id) OBVIOUS
<1>2. PICK b : b = [list EXCEPT !.active = a] OBVIOUS
<1>3. /\ DOMAIN b = ListFields /\ b.active = a /\ b.time = list.time /\ b.raised = FALSE
  BY <1>2 DEF ListFields
<1>4. PICK l : l = EndTest(list, id, times) OBVIOUS
<1>5. l = ReportTest(b, id, IsTimed(list, id), times)
  BY <1>1, <1>2, <1>4, Zenon DEF EndTest, IsTimed
<1>6. CASE times /\ ~IsTimed(list, id)
  <2>1. l = [b EXCEPT !.raised = TRUE] BY <1>5, <1>6, Zenon DEF ReportTest
  <2>2. DOMAIN l = ListFields /\ l.active = a /\ l.time = list.time /\ l.raised = TRUE
    BY <1>3, <2>1 DEF ListFields
  <2> QED BY <1>1, <1>4, <1>6, <2>2
<1>7. CASE ~(times /\ ~IsTimed(list, id))
  <2>1. l = [b EXCEPT !.lines = Append(@, id)] BY <1>5, <1>7, Zenon DEF ReportTest
  <2>2. DOMAIN l = ListFields /\ l.active = a /\ l.time = list.time /\ l.raised = FALSE
    BY <1>3, <2>1 DEF ListFields
  <2> QED BY <1>1, <1>4, <2>2
<1> QED BY <1>6, <1>7

LEMMA StatusIs ==
  ASSUME NEW list, DOMAIN list = ListFields, list.raised = FALSE,
         NEW e, e.id # <<>>, e.status \in Final \cup Interim
  PROVE  LET l == Status(list, e, options)
         IN  /\ DOMAIN l = ListFields /\ l.raised \in BOOLEAN
             /\ l.time = TimeAt(list, e)
             /\ e.status = "exists" => l.active = list.active
             /\ e.status \in Interim =>
                  l.active = Put(list.active, e.id, TimeAt(list, e)) /\ ~l.raised
             /\ e.status \notin Interim \cup {"exists"} =>
                  /\ l.active = Drop(list.active, e.id)
                  /\ l.raised => ~IsTimed(list, e.id)
<1>1. PICK t : t = TimeAt(list, e) OBVIOUS
<1>2. PICK now : now = [list EXCEPT !.time = t] OBVIOUS
<1>3. /\ DOMAIN now = ListFields /\ now.time = t /\ now.active = list.active
      /\ now.raised = FALSE
  BY <1>2 DEF ListFields
<1>4. now = [list EXCEPT !.time = IF e.time # 0 THEN e.time ELSE @]
  BY <1>1, <1>2 DEF TimeAt, ListFields
<1>5. PICK l : l = Status(list, e, options) OBVIOUS
<1>6. /\ e.status = "exists" =>
           l = IF options.exists THEN ReportTest(now, e.id, FALSE, options.times) ELSE now
      /\ e.status # "exists" /\ e.status \in Interim =>
           l = [now EXCEPT !.active = Put(@, e.id, now.time)]
      /\ e.status # "exists" /\ e.status \notin Interim =>
           l = EndTest(now, e.id, options.times)
  BY <1>4, <1>5 DEF Status
<1>7. "exists" \notin Interim BY DEF Interim
<1>8. CASE e.status = "exists"
  <2>1. l = now \/ l = ReportTest(now, e.id, FALSE, options.times) BY <1>6, <1>7, <1>8
  <2>2. \/ l = now \/ l = [now EXCEPT !.raised = TRUE]
        \/ l = [now EXCEPT !.lines = Append(@, e.id)]
    BY <2>1 DEF ReportTest
  <2>3. /\ DOMAIN l = ListFields /\ l.time = t /\ l.active = list.active
        /\ l.raised \in BOOLEAN
    BY <1>3, <2>2 DEF ListFields
  <2> QED BY <1>1, <1>5, <1>7, <1>8, <2>3
<1>9. CASE e.status \in Interim
  <2>1. l = [now EXCEPT !.active = Put(@, e.id, now.time)] BY <1>6, <1>7, <1>9
  <2>2. /\ DOMAIN l = ListFields /\ l.time = t /\ l.raised = FALSE
        /\ l.active = Put(list.active, e.id, t)
    BY <1>3, <2>1 DEF ListFields
  <2> QED BY <1>1, <1>5, <1>7, <1>9, <2>2
<1>10. CASE e.status \notin Interim \cup {"exists"}
  <2>0. PICK times : times = options.times OBVIOUS
  <2>1. l = EndTest(now, e.id, times) BY <1>6, <1>10, <2>0
  <2>2. /\ DOMAIN l = ListFields /\ l.time = t /\ l.raised \in BOOLEAN
        /\ l.active = Drop(now.active, e.id)
        /\ l.raised => ~IsTimed(now, e.id)
    <3>1. PICK id : id = e.id OBVIOUS
    <3>2. DOMAIN now = ListFields /\ now.raised = FALSE /\ now.time = t BY <1>3
    <3>3. l = EndTest(now, id, times) BY <2>1, <3>1
    <3>4. /\ DOMAIN l = ListFields /\ l.time = now.time /\ l.raised \in BOOLEAN
          /\ l.active = Drop(now.active, id)
          /\ l.raised => ~IsTimed(now, id)
      BY <3>2, <3>3, EndTestIs
    <3> QED BY <3>1, <3>2, <3>4
  <2>3. IsTimed(now, e.id) <=> IsTimed(list, e.id) BY <1>3 DEF IsTimed, Has
  <2> QED BY <1>1, <1>3, <1>5, <1>10, <2>2, <2>3
<1> QED BY <1>8, <1>9, <1>10

(* A packet read.                                                           *)
LEMMA ReadList ==
  ASSUME RouteInv, WrittenInv, ListInv, Read
  PROVE  ListInv'
<1>1. PICK n : n = at + 1 OBVIOUS
<1>2. /\ at \in Nat /\ Len(stream) \in Nat /\ DOMAIN stream = 1..Len(stream)
      /\ n \in DOMAIN stream /\ at' = n /\ n \in 1..n /\ n \notin 1..at
      /\ UNCHANGED <<stream, options, stopped, script, job>>
      /\ \A k \in 1..n : k \in 1..at \/ k = n
      /\ \A k \in 1..at : k \in 1..n
  BY <1>1, SeqShape DEF RouteInv, RunsInv, Read, outputVars
<1>3. PICK e : e = Tagged(stream[n]) OBVIOUS
<1>4. listing' = Status(listing, e, options)
  BY <1>2, <1>3 DEF Read, ReadResult
<1>5. e.id = stream[n].id /\ e.status = stream[n].status /\ e.time = stream[n].time
  BY <1>2, <1>3 DEF Tagged, RouteInv, EventOK
<1>6. e.status \in Final \cup Interim /\ (e.id # <<>> => \E m \in 1..n : Timed(m))
  BY <1>2, <1>5 DEF WrittenInv
<1>7. \A k : /\ Timed(k)' <=> Timed(k)
             /\ Begun(k)' <=> Begun(k)
             /\ Untimed(k)' <=> Untimed(k)
  BY <1>2 DEF Timed, Begun, Untimed
<1>8. Written' <=> Written BY <1>2 DEF Written, Running
<1>9. ~stopped
  <2>1. at < Len(stream) BY DEF Read
  <2> QED BY <1>2, <2>1 DEF ListInv
<1>10. CASE listing.raised \/ e.id = <<>>
  <2>1. listing' = listing BY <1>4, <1>10 DEF Status
  <2>2. listing.raised => \E k \in 1..at' : Untimed(k)' BY <1>2, <1>7 DEF ListInv
  <2>3. ASSUME ~listing.raised PROVE Listing(listing)'
    <3>1. Listing(listing) BY <1>9, <2>3 DEF ListInv
    <3>2. e.id = <<>> BY <1>10, <2>3
    <3>3. (\E m \in 1..at' : Timed(m)') => \E m \in 1..at : Timed(m)
      BY <1>2, <1>5, <1>7, <3>2 DEF Timed
    <3>4. ASSUME NEW id, id # <<>>, UnderWay(id)' PROVE UnderWay(id)
      <4>1. PICK m \in 1..n :
              /\ stream[m].id = id /\ stream[m].status \in Interim
              /\ \A k \in m..n : stream[k].id = id => stream[k].status \in Interim \cup {"exists"}
        BY <1>2, <3>4 DEF UnderWay
      <4>2. m \in 1..at BY <1>2, <1>5, <3>2, <3>4, <4>1
      <4>3. \A k \in m..at : k \in m..n BY <1>1, <1>2
      <4> QED BY <4>1, <4>2, <4>3 DEF UnderWay
    <3> QED BY <2>1, <3>1, <3>3, <3>4 DEF Listing
  <2> QED BY <1>2, <1>8, <1>9, <2>1, <2>2, <2>3 DEF ListInv
<1>11. CASE ~listing.raised /\ e.id # <<>>
  <2>1. Listing(listing) /\ DOMAIN listing = ListFields /\ listing.raised = FALSE
    BY <1>9, <1>11 DEF ListInv
  <2>2. PICK list : list = listing OBVIOUS
  <2>3. PICK l : l = listing' OBVIOUS
  <2>4. PICK t : t = TimeAt(list, e) OBVIOUS
  <2>5. /\ DOMAIN l = ListFields /\ l.raised \in BOOLEAN /\ l.time = t
        /\ e.status = "exists" => l.active = list.active
        /\ e.status \in Interim => l.active = Put(list.active, e.id, t) /\ ~l.raised
        /\ e.status \notin Interim \cup {"exists"} =>
             l.active = Drop(list.active, e.id) /\ (l.raised => ~IsTimed(list, e.id))
    <3>1. DOMAIN list = ListFields /\ list.raised = FALSE BY <2>1, <2>2
    <3>2. e.status \in Final \cup Interim BY <1>6
    <3>3. l = Status(list, e, options) BY <1>4, <2>2, <2>3
    <3> QED BY <1>11, <2>4, <3>1, <3>2, <3>3, StatusIs
  <2>6. t # 0
    <3>1. PICK m \in 1..n : Timed(m) BY <1>6, <1>11
    <3>2. CASE m = n BY <1>5, <2>4, <3>1, <3>2 DEF Timed, TimeAt
    <3>3. CASE m \in 1..at
      <4>1. list.time # 0 BY <2>1, <2>2, <3>1, <3>3 DEF Listing
      <4> QED BY <2>4, <4>1 DEF TimeAt
    <3> QED BY <1>2, <3>2, <3>3
  <2>7. ASSUME NEW id, id # e.id, id # <<>>, UnderWay(id)' PROVE UnderWay(id)
    <3>1. PICK m \in 1..n :
            /\ stream[m].id = id /\ stream[m].status \in Interim
            /\ \A k \in m..n : stream[k].id = id => stream[k].status \in Interim \cup {"exists"}
      BY <1>2, <2>7 DEF UnderWay
    <3>2. m \in 1..at BY <1>2, <1>5, <2>7, <3>1
    <3>3. \A k \in m..at : k \in m..n BY <1>1, <1>2
    <3> QED BY <3>1, <3>2, <3>3 DEF UnderWay
  <2>8. DictOK(list.active) /\ \A id \in DOMAIN list.active.value : list.active.value[id] # 0
    BY <2>1, <2>2 DEF Listing
  <2>9. ASSUME ~l.raised,
               DictOK(l.active), \A id \in DOMAIN l.active.value : l.active.value[id] # 0,
               \A id \in DOMAIN list.active.value : id # e.id => id \in DOMAIN l.active.value,
               UnderWay(e.id)' => e.id \in DOMAIN l.active.value
        PROVE  ListInv'
    <3>1. ASSUME NEW id, id # <<>>, UnderWay(id)' PROVE id \in DOMAIN l.active.value
      <4>1. CASE id = e.id BY <2>9, <3>1, <4>1
      <4>2. CASE id # e.id
        <5>1. UnderWay(id) BY <2>7, <3>1, <4>2
        <5>2. id \in DOMAIN list.active.value BY <2>1, <2>2, <3>1, <5>1 DEF Listing
        <5> QED BY <2>9, <4>2, <5>2
      <4> QED BY <4>1, <4>2
    <3>2. Listing(l)' BY <2>5, <2>6, <2>9, <3>1 DEF Listing
    <3>3. Listing(listing)' BY <2>3, <3>2
    <3> QED BY <1>2, <1>9, <2>3, <2>5, <2>9, <3>3 DEF ListInv
  <2>10. ASSUME Untimed(n) PROVE \E k \in 1..at' : Untimed(k)'
    BY <1>2, <1>7, <2>10
  <2>11. CASE e.status = "exists"
    <3>1. Untimed(n) BY <1>5, <1>11, <2>11 DEF Untimed, Final
    <3>2. \E k \in 1..at' : Untimed(k)' BY <2>10, <3>1
    <3>3. CASE l.raised BY <1>2, <1>9, <2>3, <2>5, <3>2, <3>3 DEF ListInv
    <3>4. CASE ~l.raised
      <4>1. l.active = list.active BY <2>5, <2>11
      <4>2. UnderWay(e.id)' => UnderWay(e.id)
        <5> SUFFICES ASSUME UnderWay(e.id)' PROVE UnderWay(e.id) OBVIOUS
        <5>1. PICK m \in 1..n :
                /\ stream[m].id = e.id /\ stream[m].status \in Interim
                /\ \A k \in m..n :
                     stream[k].id = e.id => stream[k].status \in Interim \cup {"exists"}
          BY <1>2 DEF UnderWay
        <5>2. stream[n].status \notin Interim BY <1>5, <2>11 DEF Interim
        <5>3. m \in 1..at BY <1>2, <5>1, <5>2
        <5>4. \A k \in m..at : k \in m..n BY <1>1, <1>2
        <5> QED BY <5>1, <5>3, <5>4 DEF UnderWay
      <4>3. UnderWay(e.id)' => e.id \in DOMAIN l.active.value
        BY <1>11, <2>1, <2>2, <4>1, <4>2 DEF Listing
      <4> QED BY <2>8, <2>9, <3>4, <4>1, <4>3
    <3> QED BY <3>3, <3>4
  <2>12. CASE e.status \in Interim
    <3>1. PICK a : a = Put(list.active, e.id, t) OBVIOUS
    <3>2. /\ DictOK(a) /\ DOMAIN a.value = DOMAIN list.active.value \cup {e.id}
          /\ a.value[e.id] = t
          /\ \A id \in DOMAIN list.active.value : id # e.id => a.value[id] = list.active.value[id]
      BY <2>8, <3>1, PutIs
    <3>3. l.active = a /\ ~l.raised BY <2>5, <2>12, <3>1
    <3>4. \A id \in DOMAIN a.value : a.value[id] # 0 BY <2>6, <2>8, <3>2
    <3> QED BY <2>9, <3>2, <3>3, <3>4
  <2>13. CASE e.status \notin Interim \cup {"exists"}
    <3>1. PICK a : a = Drop(list.active, e.id) OBVIOUS
    <3>2. /\ DictOK(a) /\ DOMAIN a.value = DOMAIN list.active.value \ {e.id}
          /\ \A id \in DOMAIN list.active.value : id # e.id => a.value[id] = list.active.value[id]
      BY <2>8, <3>1, DropIs
    <3>3. l.active = a BY <2>5, <2>13, <3>1
    <3>4. ~UnderWay(e.id)'
      <4> SUFFICES ASSUME UnderWay(e.id)' PROVE FALSE OBVIOUS
      <4>1. PICK m \in 1..n :
              \A k \in m..n : stream[k].id = e.id => stream[k].status \in Interim \cup {"exists"}
        BY <1>2 DEF UnderWay
      <4>2. n \in m..n BY <1>1, <1>2
      <4> QED BY <1>5, <2>13, <4>1, <4>2
    <3>5. CASE ~l.raised
      <4>1. \A id \in DOMAIN a.value : a.value[id] # 0 BY <2>8, <3>2
      <4> QED BY <2>9, <3>2, <3>3, <3>4, <3>5, <4>1
    <3>6. CASE l.raised
      <4>1. ~IsTimed(list, e.id) BY <2>5, <2>13, <3>6
      <4>2. e.id \notin DOMAIN list.active.value BY <2>8, <4>1 DEF IsTimed, Has
      <4>3. ~UnderWay(e.id) BY <1>11, <2>1, <2>2, <4>2 DEF Listing
      <4>4. ~Begun(n)
        <5> SUFFICES ASSUME Begun(n) PROVE FALSE OBVIOUS
        <5>1. n - 1 = at BY <1>1, <1>2
        <5>2. UnderWay(e.id) BY <1>5, <5>1 DEF Begun, UnderWay
        <5> QED BY <4>3, <5>2
      <4>5. Untimed(n) BY <1>5, <1>6, <1>11, <2>13, <4>4 DEF Untimed
      <4>6. \E k \in 1..at' : Untimed(k)' BY <2>10, <4>5
      <4> QED BY <1>2, <1>9, <2>3, <2>5, <3>6, <4>6 DEF ListInv
    <3> QED BY <3>5, <3>6
  <2> QED BY <2>11, <2>12, <2>13
<1>12. listing.raised \in BOOLEAN BY DEF ListInv
<1> QED BY <1>10, <1>11

(* stopTestRun of subunit-ls: of the tests that are left it knows when they *)
(* began.                                                                   *)
EndOne(list, id) == IF list.raised THEN list ELSE EndTest(list, id, options.times)
Ends == INSTANCE FoldProofs WITH Step <- EndOne

LEMMA EndAllIs ==
  ASSUME DOMAIN listing = ListFields, listing.raised = FALSE, Listing(listing)
  PROVE  EndAll(listing, options).raised = FALSE
           /\ DOMAIN EndAll(listing, options) = ListFields
<1>1. PICK keys : keys = listing.active.keys OBVIOUS
<1>2. /\ IsSeq(keys) /\ DictOK(listing.active)
      /\ \A id \in DOMAIN listing.active.value : listing.active.value[id] # 0
  BY <1>1 DEF Listing, DictOK
<1>3. Len(keys) \in Nat /\ DOMAIN keys = 1..Len(keys) BY <1>2, SeqShape
<1>4. PICK f : Ends!Folds(f, listing, keys) /\ Ends!Fold(listing, keys) = f[Len(keys)]
  BY <1>3, Ends!FoldLeftSteps
<1>5. Ends!Fold(listing, keys) = EndAll(listing, options)
  <2>1. Ends!Fold(listing, listing.active.keys) = EndAll(listing, options)
    BY Zenon DEF EndAll, EndOne, Ends!Fold, Ends!FoldLeft, Ends!MapThenFoldSet,
       Ends!Max, FoldLeft, MapThenFoldSet, Max
  <2> QED BY <1>1, <2>1
<1> DEFINE OK(i) ==
             /\ DOMAIN f[i] = ListFields /\ f[i].raised = FALSE /\ DictOK(f[i].active)
             /\ \A id \in DOMAIN f[i].active.value : f[i].active.value[id] # 0
             /\ \A j \in i + 1..Len(keys) : keys[j] \in DOMAIN f[i].active.value
           A == {i \in 0..Len(keys) : OK(i)}
<1>6. 0 \in A
  <2>1. f[0] = listing BY <1>4 DEF Ends!Folds
  <2>2. \A j \in 1..Len(keys) : keys[j] \in DOMAIN listing.active.value BY <1>1, <1>2 DEF DictOK
  <2> QED BY <1>2, <1>3, <2>1, <2>2
<1>7. ASSUME NEW i \in 1..Len(keys), i - 1 \in A PROVE i \in A
  <2>1. PICK l : l = f[i - 1] OBVIOUS
  <2>2. PICK m : m = f[i] OBVIOUS
  <2>3. PICK id : id = keys[i] OBVIOUS
  <2>4. i - 1 \in Nat /\ (i - 1) + 1 = i BY <1>3
  <2>5. /\ DOMAIN l = ListFields /\ l.raised = FALSE /\ DictOK(l.active)
        /\ \A k \in DOMAIN l.active.value : l.active.value[k] # 0
        /\ \A j \in i..Len(keys) : keys[j] \in DOMAIN l.active.value
    BY <1>7, <2>1, <2>4
  <2>6. id \in DOMAIN l.active.value BY <1>3, <2>3, <2>5
  <2>7. PICK times : times = options.times OBVIOUS
  <2>8. m = EndTest(l, id, times)
    <3>1. m = EndOne(l, id) BY <1>4, <2>1, <2>2, <2>3 DEF Ends!Folds
    <3> QED BY <2>5, <2>7, <3>1 DEF EndOne
  <2>9. IsTimed(l, id) BY <2>5, <2>6 DEF IsTimed, Has
  <2>10. PICK a : a = Drop(l.active, id) OBVIOUS
  <2>11. DOMAIN m = ListFields /\ m.raised = FALSE /\ m.active = a
    <3>1. DOMAIN l = ListFields /\ l.raised = FALSE BY <2>5
    <3>2. /\ DOMAIN m = ListFields /\ m.raised \in BOOLEAN
          /\ m.active = Drop(l.active, id) /\ (m.raised => ~IsTimed(l, id))
      BY <2>8, <3>1, EndTestIs
    <3> QED BY <2>9, <2>10, <3>2
  <2>12. /\ DictOK(a) /\ DOMAIN a.value = DOMAIN l.active.value \ {id}
         /\ \A j \in DOMAIN l.active.value : j # id => a.value[j] = l.active.value[j]
    BY <2>5, <2>10, DropIs
  <2>13. \A j \in i + 1..Len(keys) : keys[j] \in DOMAIN a.value
    <3> SUFFICES ASSUME NEW j \in i + 1..Len(keys) PROVE keys[j] \in DOMAIN a.value OBVIOUS
    <3>1. j \in i..Len(keys) /\ j # i /\ j \in 1..Len(keys) BY <1>3
    <3>2. keys[j] # keys[i] BY <1>1, <1>2, <3>1 DEF DictOK
    <3> QED BY <2>3, <2>5, <2>12, <3>1, <3>2
  <2>14. \A k \in DOMAIN a.value : a.value[k] # 0 BY <2>5, <2>12
  <2>15. OK(i) BY <2>2, <2>11, <2>12, <2>13, <2>14
  <2> HIDE DEF OK
  <2> QED BY <1>3, <2>15
<1>8. Len(keys) \in A
  <2> HIDE DEF A
  <2> QED BY <1>3, <1>6, <1>7, Numbers!Upto
<1> QED BY <1>4, <1>5, <1>8

LEMMA StopList ==
  ASSUME RouteInv, ListInv, Stop PROVE ListInv'
<1>1. /\ UNCHANGED <<outputVars, options, at>> /\ Written /\ at = Len(stream) /\ ~stopped /\ stopped'
      /\ listing' = IF listing.raised THEN listing ELSE EndAll(listing, options)
  BY DEF Stop, StopResult
<1>2. Written' /\ at' = Len(stream') BY <1>1 DEF Written, Running, outputVars
<1>3. DOMAIN listing' = ListFields /\ listing'.raised = listing.raised
  BY <1>1, EndAllIs DEF ListInv
<1>4. \A n : Untimed(n)' <=> Untimed(n) BY <1>1 DEF Untimed, Begun, outputVars
<1> QED BY <1>1, <1>2, <1>3, <1>4 DEF ListInv

(* While packets are written none of those that were read changes.          *)
LEMMA ProgramList ==
  ASSUME RouteInv, WrittenInv, ListInv, Program PROVE ListInv'
<1>1. OutputNext /\ UNCHANGED <<listing, options, at, stopped>> BY DEF Program, resultVars
<1>2. ~Written BY <1>1 DEF OutputNext, Written, Begin, Send, Kill
<1>3. ~stopped BY <1>2 DEF ListInv
<1>4. /\ at \in Nat /\ at <= Len(stream) /\ IsSeq(stream)
      /\ Len(stream) \in Nat /\ DOMAIN stream = 1..Len(stream)
  BY SeqShape DEF RouteInv, RunsInv
<1>5. stream' = stream \/ \E e : stream' = Append(stream, e)
  BY <1>1 DEF OutputNext, Begin, Send, Kill
<1>6. \A n \in 1..at : stream'[n] = stream[n]
  <2>1. CASE stream' = stream BY <2>1
  <2>2. CASE \E e : stream' = Append(stream, e) BY <1>4, <2>2, AppendShape
  <2> QED BY <1>5, <2>1, <2>2
<1>7. \A m \in 1..at : Timed(m)' <=> Timed(m) BY <1>6 DEF Timed
<1>8. \A id : UnderWay(id)' => UnderWay(id) BY <1>1, <1>6 DEF UnderWay
<1>9. ASSUME NEW n \in 1..at PROVE Begun(n)' <=> Begun(n)
  <2>1. \A k \in 1..n : k \in 1..at BY <1>4
  <2>2. \A m \in 1..n - 1 : stream'[m] = stream[m] BY <1>4, <1>6
  <2>3. \A m \in 1..n - 1 : \A k \in m..n - 1 : stream'[k] = stream[k] BY <1>4, <1>6
  <2> QED BY <1>6, <2>2, <2>3 DEF Begun
<1>10. \A n \in 1..at : Untimed(n) => Untimed(n)' BY <1>6, <1>9 DEF Untimed
<1>11. Listing(listing) => Listing(listing)' BY <1>1, <1>7, <1>8 DEF Listing
<1> QED BY <1>1, <1>3, <1>10, <1>11 DEF ListInv

LEMMA ListKept ==
  ASSUME RouteInv, WrittenInv, ListInv, [Next]_vars PROVE ListInv'
<1>1. CASE UNCHANGED vars
  <2>1. UNCHANGED <<stream, script, job, listing, options, at, stopped>>
    BY <1>1 DEF vars, outputVars, resultVars
  <2>2. \A n : Untimed(n)' <=> Untimed(n) BY <2>1 DEF Untimed, Begun
  <2>3. Listing(listing)' <=> Listing(listing) BY <2>1 DEF Listing, UnderWay, Timed
  <2>4. Written' <=> Written BY <2>1 DEF Written, Running
  <2> QED BY <2>1, <2>2, <2>3, <2>4 DEF ListInv
<1> QED BY <1>1, ReadList, StopList, ProgramList DEF Next

LEMMA ListStart == Init => ListInv
<1> SUFFICES ASSUME Init PROVE ListInv OBVIOUS
<1>1. PICK l : l = [time |-> 0, active |-> NoItems, lines |-> <<>>, raised |-> FALSE] OBVIOUS
<1>2. listing = l /\ at = 0 /\ stopped = FALSE BY <1>1 DEF Init, ResultsInit
<1>3. DOMAIN l = ListFields /\ l.raised = FALSE /\ l.active = NoItems BY <1>1 DEF ListFields
<1>4. \A m : m \notin 1..at BY <1>2
<1>5. Listing(l) BY <1>3, <1>4, EmptyDict DEF Listing, UnderWay
<1> QED BY <1>2, <1>3, <1>5 DEF ListInv

(* Whatever comes between the packets of a test, and with whatever times:   *)
(* subunit-ls knows when a test began that it was told of.                  *)
THEOREM BegunAreTimed == Spec => []BegunTestsAreTimed
<1> DEFINE Inv == RouteInv /\ WrittenInv /\ ListInv
<1>1. Init => Inv BY RouteStart, WrittenStart, ListStart
<1>2. Inv /\ [Next]_vars => Inv' BY RouteKept, WrittenKept, ListKept
<1>3. Inv => BegunTestsAreTimed BY DEF ListInv, BegunTestsAreTimed, Untimed
<1> QED BY <1>1, <1>2, <1>3, PTL DEF Spec

-----------------------------------------------------------------------------
(* The disk. What subunit2disk writes goes where nothing is.                *)

(* Of text, which the provers know nothing of, it is only used that the     *)
(* names in the code are text, and so is what is put together of names and  *)
(* "_" or "-" and a number; that it is neither "" nor ".." with a "_"; and  *)
(* that two numbers make two names.                                         *)
TextsJoin ==
    /\ {"test.json", "stdin", "stdout"} \subseteq STRING
    /\ \A x, y \in STRING : x \o "_" \o y \in STRING \ {"", ".."}
    /\ \A x \in STRING : \A n \in Nat : Suffixed(x, n) \in STRING
    /\ \A x \in STRING : \A m, n \in Nat : Suffixed(x, m) = Suffixed(x, n) => m = n

LEMMA ProbeIs ==
  ASSUME TextsJoin, NEW path \in Paths, NEW n \in Nat
  PROVE  /\ Probe(path, n) \in Paths /\ Len(Probe(path, n)) = Len(path)
         /\ Probe(path, n)[Len(path)] = Suffixed(path[Len(path)], n)
<1>1. PICK k : k = Len(path) OBVIOUS
<1>2. path \in Seq(STRING) /\ k \in Nat \ {0} /\ \A i \in 1..k : path[i] \in STRING
  BY <1>1 DEF Paths
<1>3. PICK x : x = SubSeq(path, 1, k - 1) OBVIOUS
<1>4. x \in Seq(STRING) /\ Len(x) = k - 1
  <2>1. 1 \in Int /\ k - 1 \in Int /\ \A i \in 1..k - 1 : path[i] \in STRING BY <1>2
  <2>2. x \in Seq(STRING) /\ Len(x) = IF 1 <= k - 1 THEN k - 1 - 1 + 1 ELSE 0
    BY <1>3, <2>1, SubSeqProperties
  <2> QED BY <1>2, <2>2
<1>5. PICK t : t = Suffixed(path[k], n) OBVIOUS
<1>6. t \in STRING
  <2>1. k \in 1..k BY <1>2
  <2> QED BY <1>2, <1>5, <2>1 DEF TextsJoin
<1>7. Probe(path, n) = Append(x, t) BY <1>1, <1>3, <1>5, Zenon DEF Probe, Front, Last
<1>8. /\ Append(x, t) \in Seq(STRING) /\ Len(Append(x, t)) = k
      /\ Append(x, t)[k] = t
  <2>1. /\ Append(x, t) \in Seq(STRING) /\ Len(Append(x, t)) = Len(x) + 1
        /\ Append(x, t)[Len(x) + 1] = t
    BY <1>4, <1>6, AppendProperties
  <2> QED BY <1>2, <1>4, <2>1
<1> QED BY <1>1, <1>2, <1>5, <1>7, <1>8 DEF Paths

LEMMA FreeIsFree ==
  ASSUME TextsJoin, NEW disk, IsFiniteSet(DOMAIN disk), NEW path \in Paths
  PROVE  Free(disk, path) \in Paths /\ Free(disk, path) \notin DOMAIN disk
<1>1. PICK C : C = Cardinality(DOMAIN disk) OBVIOUS
<1>2. C \in Nat BY <1>1, FS_CardinalityType
<1>3. path \in Seq(STRING) /\ Len(path) \in Nat \ {0} /\ path[Len(path)] \in STRING
  <2>1. Len(path) \in 1..Len(path) BY DEF Paths
  <2> QED BY <2>1 DEF Paths
<1>4. PICK N : N = {n \in 0..C : ~Exists(disk, Probe(path, n))} OBVIOUS
<1>5. N # {}
  <2> SUFFICES ASSUME \A n \in 0..C : Exists(disk, Probe(path, n)) PROVE FALSE
    BY <1>4
  <2>1. PICK f : f = [n \in 0..C |-> CHOOSE p \in DOMAIN disk : IsPrefix(Probe(path, n), p)]
    OBVIOUS
  <2>2. \A n \in 0..C : f[n] \in DOMAIN disk /\ IsPrefix(Probe(path, n), f[n])
    BY <2>1 DEF Exists
  <2>3. f \in [0..C -> DOMAIN disk] BY <2>1, <2>2
  <2>4. IsFiniteSet(0..C) /\ Cardinality(0..C) = C + 1 BY <1>2, FS_Interval
  <2>5. Cardinality(DOMAIN disk) < Cardinality(0..C) BY <1>1, <1>2, <2>4
  <2>6. PICK m \in 0..C, n \in 0..C : m # n /\ f[m] = f[n]
    BY <2>3, <2>4, <2>5, FS_PigeonHole
  <2>7. m \in Nat /\ n \in Nat OBVIOUS
  <2>8. PICK p : p = Probe(path, m) OBVIOUS
  <2>9. PICK q : q = Probe(path, n) OBVIOUS
  <2>10. PICK k : k = Len(path) OBVIOUS
  <2>11. /\ p \in Seq(STRING) /\ Len(p) = k /\ p[k] = Suffixed(path[k], m)
         /\ q \in Seq(STRING) /\ Len(q) = k /\ q[k] = Suffixed(path[k], n)
    BY <2>7, <2>8, <2>9, <2>10, ProbeIs DEF Paths
  <2>12. IsPrefix(p, f[m]) /\ IsPrefix(q, f[m]) BY <2>2, <2>6, <2>8, <2>9
  <2>13. SubSeq(p, 1, k) = SubSeq(q, 1, k) BY <2>11, <2>12 DEF IsPrefix
  <2>14. SubSeq(p, 1, k) = p /\ SubSeq(q, 1, k) = q BY <2>11
  <2> QED BY <1>3, <2>6, <2>7, <2>10, <2>11, <2>13, <2>14 DEF TextsJoin
<1>6. Min(N) \in N
  <2>1. N \in SUBSET Nat BY <1>2, <1>4
  <2>2. \E n \in N : \A k \in N : n <= k BY <1>5, <2>1, Numbers!LeastNumber
  <2> QED BY <2>2, Zenon DEF Min
<1>7. PICK n \in Nat : n \in N /\ Free(disk, path) = Probe(path, n)
  <2>1. Free(disk, path) = Probe(path, Min(N)) BY <1>1, <1>4, Zenon DEF Free
  <2> QED BY <1>4, <1>6, <2>1
<1>8. PICK p : p = Probe(path, n) OBVIOUS
<1>9. p \in Paths /\ ~Exists(disk, p) BY <1>4, <1>7, <1>8, ProbeIs
<1>10. IsPrefix(p, p)
  <2>1. Len(p) \in Nat BY <1>9 DEF Paths
  <2> QED BY <2>1 DEF IsPrefix
<1> QED BY <1>7, <1>8, <1>9, <1>10 DEF Exists

-----------------------------------------------------------------------------
GoUp(real, n) ==
    IF n # ".." THEN Append(real, n) ELSE IF real = <<>> THEN real ELSE Front(real)
Reals == INSTANCE FoldProofs WITH Step <- GoUp

LEMMA RealpathFolds ==
  ASSUME NEW path PROVE Realpath(path) = Reals!Fold(<<>>, path)
BY Zenon DEF Realpath, GoUp, Reals!Fold, Reals!FoldLeft, Reals!MapThenFoldSet, Reals!Max,
   FoldLeft, MapThenFoldSet, Max

LEMMA GoUpIs ==
  ASSUME NEW real \in Seq(STRING), NEW n \in STRING PROVE GoUp(real, n) \in Seq(STRING)
<1>1. CASE n # ".." BY <1>1, AppendProperties DEF GoUp
<1>2. CASE n = ".." /\ real = <<>> BY <1>2 DEF GoUp
<1>3. CASE n = ".." /\ real # <<>>
  <2>1. Front(real) \in Seq(STRING) BY <1>3, SubSeqProperties DEF Front
  <2> QED BY <1>3, <2>1 DEF GoUp
<1> QED BY <1>1, <1>2, <1>3

LEMMA RealpathIs ==
  ASSUME NEW path \in Seq(STRING) PROVE Realpath(path) \in Seq(STRING)
<1>1. Len(path) \in Nat /\ DOMAIN path = 1..Len(path) /\ \A i \in 1..Len(path) : path[i] \in STRING
  OBVIOUS
<1>2. PICK A : A = Seq(STRING) OBVIOUS
<1>3. PICK x : x = <<>> OBVIOUS
<1>4. x \in A BY <1>2, <1>3
<1>5. \A real \in A : \A i \in 1..Len(path) : GoUp(real, path[i]) \in A BY <1>1, <1>2, GoUpIs
<1>6. Reals!Fold(x, path) \in A BY <1>1, <1>4, <1>5, Reals!FoldStays
<1> QED BY <1>2, <1>3, <1>6, RealpathFolds

(* A path that does not end with ".." leads somewhere.                      *)
LEMMA RealpathEnds ==
  ASSUME NEW path \in Paths, path[Len(path)] # ".." PROVE Realpath(path) \in Paths
<1>1. /\ Len(path) \in Nat /\ DOMAIN path = 1..Len(path) /\ path \in Seq(STRING)
      /\ Len(path) \in 1..Len(path)
  BY DEF Paths
<1>2. PICK x : x = <<>> OBVIOUS
<1>3. PICK f : Reals!Folds(f, x, path) /\ Reals!Fold(x, path) = f[Len(path)]
  BY <1>1, Reals!FoldLeftSteps
<1>4. f[Len(path)] = GoUp(f[Len(path) - 1], path[Len(path)]) BY <1>1, <1>3 DEF Reals!Folds
<1>5. f[Len(path)] = Append(f[Len(path) - 1], path[Len(path)]) BY <1>4 DEF GoUp
<1>6. Realpath(path) = Append(f[Len(path) - 1], path[Len(path)])
  BY <1>2, <1>3, <1>5, RealpathFolds
<1>7. Realpath(path) \in Seq(STRING) BY <1>1, RealpathIs
<1>8. f[Len(path) - 1] \in Seq(STRING)
  <2>1. PICK A : A = Seq(STRING) OBVIOUS
  <2>2. x \in A BY <1>2, <2>1
  <2>3. \A real \in A : \A i \in 1..Len(path) : GoUp(real, path[i]) \in A
    <3>1. \A i \in 1..Len(path) : path[i] \in STRING BY <1>1
    <3> QED BY <2>1, <3>1, GoUpIs
  <2>4. \A n \in 0..Len(path) : f[n] \in A BY <1>1, <1>3, <2>2, <2>3, Reals!FoldsStay
  <2> QED BY <1>1, <2>1, <2>4
<1>9. Realpath(path) # <<>> BY <1>6, <1>8
<1> QED BY <1>7, <1>9 DEF Paths

Underscored(text, n) == text \o "_" \o n
Joins == INSTANCE FoldProofs WITH Step <- Underscored

LEMMA SquashIs ==
  ASSUME TextsJoin, NEW sub \in Paths
  PROVE  \E x \in STRING : Squash(sub) = <<x>> /\ (Squash(sub) = sub \/ x \notin {"", ".."})
<1>1. PICK h : h = Head(sub) OBVIOUS
<1>2. PICK s : s = Tail(sub) OBVIOUS
<1>3. h \in STRING /\ s \in Seq(STRING) /\ Len(s) = Len(sub) - 1 /\ Len(sub) \in Nat \ {0}
        /\ h = sub[1]
  BY <1>1, <1>2, HeadTailProperties DEF Paths
<1>4. PICK x : x = Joins!Fold(h, s) OBVIOUS
<1>5. Squash(sub) = <<x>>
  BY <1>1, <1>2, <1>4, Zenon DEF Squash, Underscored, Joins!Fold, Joins!FoldLeft,
     Joins!MapThenFoldSet, Joins!Max, FoldLeft, MapThenFoldSet, Max
<1>6. Len(s) \in Nat /\ DOMAIN s = 1..Len(s) /\ \A i \in 1..Len(s) : s[i] \in STRING BY <1>3
<1>7. \A y \in STRING : \A i \in 1..Len(s) : Underscored(y, s[i]) \in STRING \ {"", ".."}
  BY <1>6 DEF TextsJoin, Underscored
<1>8. CASE s = <<>>
  <2>1. PICK f : Joins!Folds(f, h, s) /\ x = f[Len(s)] BY <1>4, <1>6, Joins!FoldLeftSteps
  <2>2. Len(s) = 0 /\ Len(sub) = 1 BY <1>3, <1>8
  <2>3. x = h BY <2>1, <2>2 DEF Joins!Folds
  <2>4. sub = <<h>>
    <3>1. sub \in Seq(STRING) BY DEF Paths
    <3> QED BY <1>3, <2>2, <3>1
  <2> QED BY <1>3, <1>5, <2>3, <2>4
<1>9. CASE s # <<>>
  <2>1. PICK f : Joins!Folds(f, h, s) /\ x = f[Len(s)] BY <1>4, <1>6, Joins!FoldLeftSteps
  <2>2. PICK A : A = STRING OBVIOUS
  <2>3. h \in A /\ \A y \in A : \A i \in 1..Len(s) : Underscored(y, s[i]) \in A
    BY <1>3, <1>7, <2>2
  <2>4. \A n \in 0..Len(s) : f[n] \in A BY <1>6, <2>1, <2>3, Joins!FoldsStay
  <2>5. Len(s) \in 1..Len(s) /\ Len(s) - 1 \in 0..Len(s) BY <1>3, <1>6, <1>9
  <2>6. f[Len(s)] = Underscored(f[Len(s) - 1], s[Len(s)]) BY <2>1, <2>5 DEF Joins!Folds
  <2>7. x \in STRING \ {"", ".."} BY <1>7, <2>1, <2>2, <2>4, <2>5, <2>6
  <2> QED BY <1>5, <2>7
<1> QED BY <1>8, <1>9

LEMMA JoinIs ==
  ASSUME NEW root \in Seq(STRING), NEW sub \in Paths PROVE Join(root, sub) \in Seq(STRING)
<1>1. sub \in Seq(STRING) /\ sub # <<>> BY DEF Paths
<1>2. Tail(sub) \in Seq(STRING) BY <1>1, HeadTailProperties
<1>3. root \o sub \in Seq(STRING) BY <1>1, ConcatProperties
<1> QED BY <1>2, <1>3 DEF Join

LEMMA OneIs ==
  ASSUME NEW S, NEW x \in S PROVE <<x>> \in Seq(S) /\ Len(<<x>>) = 1 /\ <<x>>[1] = x
OBVIOUS

LEMMA CandidateIs ==
  ASSUME TextsJoin, NEW root \in Paths, NEW sub \in Paths, ~Endless(root, sub)
  PROVE  Candidate(root, sub) \in Paths
<1>1. root \in Seq(STRING) /\ Len(root) \in Nat \ {0} BY DEF Paths
<1>2. CASE Inside(root, sub)
  <2>1. PICK p : p = Realpath(Join(root, sub)) OBVIOUS
  <2>2. p \in Seq(STRING) BY <1>1, <2>1, JoinIs, RealpathIs
  <2>3. Len(p) >= Len(root) BY <1>2, <2>1 DEF Inside, StartsWith
  <2>4. p # <<>> BY <1>1, <2>2, <2>3
  <2>5. Candidate(root, sub) = p BY <1>2, <2>1 DEF Candidate
  <2> QED BY <2>2, <2>4, <2>5 DEF Paths
<1>3. CASE ~Inside(root, sub)
  <2>1. PICK x \in STRING : Squash(sub) = <<x>> /\ (Squash(sub) = sub \/ x \notin {"", ".."})
    BY SquashIs
  <2>2. x \notin {"", ".."} BY <1>3, <2>1 DEF Endless
  <2>3. PICK y : y = <<x>> OBVIOUS
  <2>4. y \in Seq(STRING) /\ Len(y) = 1 /\ y[1] = x
    <3>1. <<x>> \in Seq(STRING) /\ Len(<<x>>) = 1 /\ <<x>>[1] = x BY OneIs
    <3> QED BY <2>3, <3>1
  <2>5. PICK p : p = root \o y OBVIOUS
  <2>6. /\ p \in Seq(STRING) /\ Len(p) = Len(root) + 1 /\ p[Len(root) + 1] = x
    <3>1. /\ p \in Seq(STRING) /\ Len(p) = Len(root) + Len(y)
          /\ \A i \in 1..Len(root) + Len(y) : p[i] = IF i <= Len(root) THEN root[i] ELSE y[i - Len(root)]
      BY <1>1, <2>4, <2>5, ConcatProperties
    <3>2. Len(root) + 1 \in 1..Len(root) + Len(y) /\ ~(Len(root) + 1 <= Len(root))
            /\ Len(root) + 1 - Len(root) = 1
      BY <1>1, <2>4
    <3>3. p[Len(root) + 1] = y[1] BY <3>1, <3>2
    <3> QED BY <2>4, <3>1, <3>3
  <2>7. Join(root, y) = p BY <2>2, <2>4, <2>5 DEF Join
  <2>8. Candidate(root, sub) = Realpath(p)
    <3>1. Squash(sub) = y BY <2>1, <2>3
    <3> QED BY <1>3, <2>7, <3>1 DEF Candidate
  <2>9. p \in Paths /\ p[Len(p)] # ".."
    <3>1. Len(p) # 0
      <4>1. Len(root) + 1 # 0 BY <1>1
      <4> QED BY <2>6, <4>1
    <3>2. p[Len(p)] = x BY <2>6
    <3>3. p # <<>> BY <2>6, <3>1
    <3>4. x # ".." BY <2>2
    <3> QED BY <2>6, <3>2, <3>3, <3>4 DEF Paths
  <2> QED BY <2>8, <2>9, RealpathEnds
<1> QED BY <1>2, <1>3

LEMMA AllocateIs ==
  ASSUME TextsJoin, NEW disk, IsFiniteSet(DOMAIN disk),
         NEW root \in Paths, NEW sub \in Paths, ~Endless(root, sub)
  PROVE  Allocate(disk, root, sub) \in Paths /\ Allocate(disk, root, sub) \notin DOMAIN disk
BY CandidateIs, FreeIsFree DEF Allocate

-----------------------------------------------------------------------------
(* What is in a is in b as well.                                            *)
Grows(a, b) == \A f \in DOMAIN a : f \in DOMAIN b /\ b[f] = a[f]

LEMMA UpdatedIs ==
  ASSUME NEW f, IsFiniteSet(DOMAIN f), NEW k, NEW v
  PROVE  /\ IsFiniteSet(DOMAIN Updated(f, k, v))
         /\ k \notin DOMAIN f => Grows(f, Updated(f, k, v))
<1>1. PICK u : u = Updated(f, k, v) OBVIOUS
<1>2. /\ DOMAIN u = DOMAIN f \cup {k}
      /\ \A j \in DOMAIN f : j # k => u[j] = f[j]
  BY <1>1 DEF Updated
<1>3. IsFiniteSet(DOMAIN f \cup {k}) BY FS_AddElement
<1> QED BY <1>1, <1>2, <1>3 DEF Grows

MadeOK(made) ==
    /\ DOMAIN made = {"root", "files", "paths", "broken"}
    /\ made.root \in Paths /\ IsFiniteSet(DOMAIN made.files)

LEMMA WriteIs ==
  ASSUME TextsJoin, NEW made, MadeOK(made), NEW file, file.name \in Paths
  PROVE  MadeOK(Write(made, file)) /\ Grows(made.files, Write(made, file).files)
<1>1. PICK m : m = Write(made, file) OBVIOUS
<1>2. PICK path : path = Allocate(made.files, made.root, file.name) OBVIOUS
<1>3. \/ m = [made EXCEPT !.broken = TRUE]
      \/ /\ ~Endless(made.root, file.name)
         /\ m = [made EXCEPT !.files = Updated(@, path, file.content),
                             !.paths = Updated(@, file.name, path)]
  BY <1>1, <1>2, Zenon DEF Write
<1>4. CASE m = [made EXCEPT !.broken = TRUE]
  <2>1. DOMAIN m = DOMAIN made /\ m.root = made.root /\ m.files = made.files
    BY <1>4 DEF MadeOK
  <2> QED BY <1>1, <2>1 DEF MadeOK, Grows
<1>5. CASE /\ ~Endless(made.root, file.name)
           /\ m = [made EXCEPT !.files = Updated(@, path, file.content),
                               !.paths = Updated(@, file.name, path)]
  <2>1. path \notin DOMAIN made.files BY <1>2, <1>5, AllocateIs DEF MadeOK
  <2>2. PICK u : u = Updated(made.files, path, file.content) OBVIOUS
  <2>3. PICK p : p = Updated(made.paths, file.name, path) OBVIOUS
  <2>4. m = [made EXCEPT !.files = u, !.paths = p] BY <1>5, <2>2, <2>3
  <2>5. DOMAIN m = DOMAIN made /\ m.root = made.root /\ m.files = u BY <2>4 DEF MadeOK
  <2>6. IsFiniteSet(DOMAIN u) /\ Grows(made.files, u) BY <2>1, <2>2, UpdatedIs DEF MadeOK
  <2> QED BY <1>1, <2>5, <2>6 DEF MadeOK
<1> QED BY <1>3, <1>4, <1>5

-----------------------------------------------------------------------------
TestOK(test) ==
    /\ {"id", "details", "stop"} \subseteq DOMAIN test
    /\ test.id \in Paths
    /\ DictOK(test.details) /\ \A k \in DOMAIN test.details.value : k \in Paths

LEMMA ContentsAre ==
  ASSUME TextsJoin, NEW test, TestOK(test)
  PROVE  /\ Len(Contents(test)) \in Nat /\ DOMAIN Contents(test) = 1..Len(Contents(test))
         /\ \A i \in 1..Len(Contents(test)) : Contents(test)[i].name \in Paths
<1>1. PICK keys : keys = test.details.keys OBVIOUS
<1>2. IsSeq(keys) /\ \A i \in 1..Len(keys) : keys[i] \in Paths BY <1>1 DEF TestOK, DictOK
<1>3. Len(keys) \in Nat /\ DOMAIN keys = 1..Len(keys) BY <1>2, SeqShape
<1> DEFINE item(i) == [name |-> keys[i], content |-> [bytes |-> test.details.value[keys[i]]]]
<1>4. PICK n : n = Len(keys) OBVIOUS
<1>5. PICK first : first = [name |-> <<"test.json">>, content |-> Summary(test)] OBVIOUS
<1>6. PICK s : s = [i \in 1..n |-> item(i)] OBVIOUS
<1>7. PICK S : S = {item(i) : i \in 1..n} \cup {first} OBVIOUS
<1>8. s \in Seq(S) /\ Len(s) = n /\ \A i \in 1..n : s[i] = item(i) BY <1>3, <1>4, <1>6, <1>7
<1>9. PICK f : f = <<first>> OBVIOUS
<1>10. f \in Seq(S) /\ Len(f) = 1 /\ f[1] = first BY <1>7, <1>9, OneIs
<1>11. PICK c : c = f \o s OBVIOUS
<1>12. c = Contents(test)
  <2>1. s = [i \in DOMAIN test.details.keys |->
               LET name == test.details.keys[i]
               IN  [name |-> name, content |-> [bytes |-> test.details.value[name]]]]
    BY <1>1, <1>3, <1>4, <1>6
  <2> QED BY <1>5, <1>9, <1>11, <2>1, Zenon DEF Contents
<1>13. /\ c \in Seq(S) /\ Len(c) = 1 + n
       /\ \A i \in 1..1 + n : c[i] = IF i <= 1 THEN f[i] ELSE s[i - 1]
  <2>1. /\ c \in Seq(S) /\ Len(c) = Len(f) + Len(s)
        /\ \A i \in 1..Len(f) + Len(s) : c[i] = IF i <= Len(f) THEN f[i] ELSE s[i - Len(f)]
    BY <1>8, <1>10, <1>11, ConcatProperties
  <2> QED BY <1>8, <1>10, <2>1
<1>14. ASSUME NEW i \in 1..1 + n PROVE c[i].name \in Paths
  <2>1. CASE i = 1
    <3>1. c[i].name = <<"test.json">> BY <1>3, <1>4, <1>5, <1>10, <1>13, <2>1
    <3>3. PICK t : t = "test.json" OBVIOUS
    <3>4. t \in STRING BY <3>3 DEF TextsJoin
    <3>5. <<t>> \in Seq(STRING) /\ Len(<<t>>) = 1 BY <3>4, OneIs
    <3>6. <<t>> # <<>> BY <3>5
    <3> QED BY <3>1, <3>3, <3>5, <3>6 DEF Paths
  <2>2. CASE i # 1
    <3>1. i - 1 \in 1..n /\ c[i] = s[i - 1] BY <1>3, <1>4, <1>13, <2>2
    <3>2. c[i] = item(i - 1) BY <1>8, <3>1
    <3> QED BY <1>2, <1>4, <3>1, <3>2
  <2> QED BY <2>1, <2>2
<1> QED BY <1>3, <1>4, <1>12, <1>13, <1>14

Writes == INSTANCE FoldProofs WITH Step <- Write

LEMMA MadeIs ==
  ASSUME TextsJoin, NEW disk, IsFiniteSet(DOMAIN disk), NEW test, TestOK(test),
         ~Endless(Directory, test.id)
  PROVE  IsFiniteSet(DOMAIN Made(disk, test).files) /\ Grows(disk, Made(disk, test).files)
<1>1. PICK root : root = Allocate(disk, Directory, test.id) OBVIOUS
<1>2. Directory \in Paths BY DiskAssumption DEF Paths
<1>3. root \in Paths BY <1>1, <1>2, AllocateIs DEF TestOK
<1>4. PICK none : none = [root |-> root, files |-> disk, paths |-> <<>>, broken |-> FALSE]
  OBVIOUS
<1>5. MadeOK(none) /\ none.files = disk BY <1>3, <1>4 DEF MadeOK
<1>6. PICK c : c = Contents(test) OBVIOUS
<1>7. /\ Len(c) \in Nat /\ DOMAIN c = 1..Len(c) /\ \A i \in 1..Len(c) : c[i].name \in Paths
  BY <1>6, ContentsAre
<1>8. PICK f : Writes!Folds(f, none, c) /\ Writes!Fold(none, c) = f[Len(c)]
  BY <1>7, Writes!FoldLeftSteps
<1>9. Made(disk, test) = Writes!Fold(none, c)
  BY <1>1, <1>4, <1>6, Zenon DEF Made, Writes!Fold, Writes!FoldLeft, Writes!MapThenFoldSet,
     Writes!Max, FoldLeft, MapThenFoldSet, Max
<1> DEFINE A == {i \in 0..Len(c) : MadeOK(f[i]) /\ Grows(disk, f[i].files)}
<1>10. 0 \in A BY <1>5, <1>7, <1>8 DEF Grows, Writes!Folds
<1>11. ASSUME NEW i \in 1..Len(c), i - 1 \in A PROVE i \in A
  <2>1. PICK m : m = f[i - 1] OBVIOUS
  <2>2. MadeOK(m) /\ Grows(disk, m.files) BY <1>11, <2>1
  <2>3. PICK w : w = Write(m, c[i]) OBVIOUS
  <2>4. MadeOK(w) /\ Grows(m.files, w.files) BY <1>7, <2>2, <2>3, WriteIs
  <2>5. f[i] = w BY <1>8, <2>1, <2>3 DEF Writes!Folds
  <2>6. Grows(disk, w.files) BY <2>2, <2>4 DEF Grows
  <2> QED BY <1>7, <2>4, <2>5, <2>6
<1>12. Len(c) \in A
  <2> HIDE DEF A
  <2> QED BY <1>7, <1>10, <1>11, Numbers!Upto
<1> QED BY <1>8, <1>9, <1>12 DEF MadeOK

DiskOK(disk) == DOMAIN disk = {"files", "exported", "broken"} /\ IsFiniteSet(DOMAIN disk.files)

LEMMA ExportOneGrows ==
  ASSUME TextsJoin, NEW disk, DiskOK(disk), NEW test, TestOK(test)
  PROVE  DiskOK(ExportOne(disk, test)) /\ Grows(disk.files, ExportOne(disk, test).files)
<1>1. PICK d : d = ExportOne(disk, test) OBVIOUS
<1>2. CASE disk.broken BY <1>1, <1>2 DEF ExportOne, Grows
<1>3. CASE ~disk.broken /\ Endless(Directory, test.id)
  <2>1. d = [disk EXCEPT !.broken = TRUE] BY <1>1, <1>3 DEF ExportOne
  <2>2. DOMAIN d = DOMAIN disk /\ d.files = disk.files BY <2>1 DEF DiskOK
  <2> QED BY <1>1, <2>2 DEF DiskOK, Grows
<1>4. CASE ~disk.broken /\ ~Endless(Directory, test.id)
  <2>1. PICK made : made = Made(disk.files, test) OBVIOUS
  <2>2. PICK e : e = IF made.broken THEN disk.exported
                     ELSE Append(disk.exported, [test |-> test, paths |-> made.paths])
    OBVIOUS
  <2>3. d = [files |-> made.files, broken |-> made.broken, exported |-> e]
    BY <1>1, <1>4, <2>1, <2>2, Zenon DEF ExportOne
  <2>4. DOMAIN d = {"files", "exported", "broken"} /\ d.files = made.files BY <2>3
  <2>5. IsFiniteSet(DOMAIN made.files) /\ Grows(disk.files, made.files)
    BY <1>4, <2>1, MadeIs DEF DiskOK
  <2> QED BY <1>1, <2>4, <2>5 DEF DiskOK
<1> QED BY <1>2, <1>3, <1>4

LEMMA ExportGrows ==
  ASSUME TextsJoin, NEW s, IsSeq(s), Export(s), IsFiniteSet(DOMAIN files),
         \A i \in 1..Len(s) : TestOK(s[i])
  PROVE  IsFiniteSet(DOMAIN files') /\ Grows(files, files')
<1>1. Len(s) \in Nat BY SeqShape
<1>2. PICK f : Exports!Folds(f, Stored, s) /\ files' = f[Len(s)].files BY ExportIs
<1>3. DiskOK(Stored) /\ Stored.files = files BY DEF DiskOK, Stored
<1> DEFINE A == {i \in 0..Len(s) : DiskOK(f[i]) /\ Grows(files, f[i].files)}
<1>4. 0 \in A BY <1>1, <1>2, <1>3 DEF Grows, Exports!Folds
<1>5. ASSUME NEW i \in 1..Len(s), i - 1 \in A PROVE i \in A
  <2>1. PICK d : d = f[i - 1] OBVIOUS
  <2>2. DiskOK(d) /\ Grows(files, d.files) BY <1>5, <2>1
  <2>3. PICK e : e = ExportOne(d, s[i]) OBVIOUS
  <2>4. DiskOK(e) /\ Grows(d.files, e.files) BY <2>2, <2>3, ExportOneGrows
  <2>5. f[i] = e BY <1>2, <2>1, <2>3 DEF Exports!Folds
  <2>6. Grows(files, e.files) BY <2>2, <2>4 DEF Grows
  <2> QED BY <1>1, <2>4, <2>5, <2>6
<1>6. Len(s) \in A
  <2> HIDE DEF A
  <2> QED BY <1>1, <1>4, <1>5, Numbers!Upto
<1> QED BY <1>2, <1>6 DEF DiskOK

-----------------------------------------------------------------------------
(* What comes to the export: tests with an id, and files with names.        *)
NamedEvent(e) ==
    /\ {"id", "file"} \subseteq DOMAIN e /\ e.id \in Seq(STRING)
    /\ \/ e.file = <<>>
       \/ \E file : e.file = <<file>> /\ file.name \in Paths
NamedInv ==
    /\ \A p \in DOMAIN job : Running(p) => ~Refused(job[p].options)
    /\ \A n \in DOMAIN stream : NamedEvent(stream[n])
    /\ DictOK(tests) /\ \A k \in DOMAIN tests.value : TestOK(tests.value[k])
    /\ IsFiniteSet(DOMAIN files)

LEMMA TestIdIs == ASSUME NEW o \in Runs PROVE TestId(o) \in Seq(STRING)
<1>1. PICK S : S = [action : Final \cup {"inprogress"}, id : Seq(STRING)] OBVIOUS
<1>2. o.statuses \in Seq(S) BY <1>1 DEF Runs
<1>3. CASE o.statuses = <<>> BY <1>3 DEF TestId
<1>4. CASE o.statuses # <<>>
  <2>1. o.statuses[1] \in S BY <1>2, <1>4
  <2>2. o.statuses[1].id \in Seq(STRING) BY <1>1, <2>1
  <2> QED BY <1>4, <2>2 DEF TestId
<1> QED BY <1>3, <1>4

LEMMA FileNameIs ==
  ASSUME TextsJoin, NEW o \in Runs, ~Refused(o), o.attach # None PROVE FileName(o) \in Paths
<1>1. /\ o.attach \in {"-", "file", "missing"} /\ o.path \in Seq(STRING)
      /\ o.file_name \in Seq(Paths) /\ (o.attach = "file" => o.path # <<>>)
  BY DEF Runs
<1>2. o.attach # "missing" BY DEF Refused
<1>3. CASE o.file_name # <<>>
  <2>1. PICK S : S = Paths OBVIOUS
  <2>2. o.file_name[1] \in S BY <1>1, <1>3, <2>1
  <2> QED BY <1>3, <2>1, <2>2 DEF FileName
<1>4. CASE o.file_name = <<>> /\ o.attach = "-"
  <2>1. PICK t : t = "stdin" OBVIOUS
  <2>2. t \in STRING BY <2>1 DEF TextsJoin
  <2>3. <<t>> \in Seq(STRING) /\ Len(<<t>>) = 1 BY <2>2, OneIs
  <2>4. <<t>> # <<>> BY <2>3
  <2>5. FileName(o) = <<t>> BY <1>4, <2>1 DEF FileName
  <2> QED BY <2>3, <2>4, <2>5 DEF Paths
<1>5. CASE o.file_name = <<>> /\ o.attach = "file" BY <1>1, <1>5 DEF FileName, Paths
<1> QED BY <1>1, <1>2, <1>3, <1>4, <1>5

LEMMA PacketNamed ==
  ASSUME TextsJoin, NEW j, j.options \in Runs, ~Refused(j.options) PROVE NamedEvent(Packet(j))
<1>1. PICK e : e = Packet(j) OBVIOUS
<1>2. PICK o : o = j.options OBVIOUS
<1>3. PICK file : file = [name |-> FileName(o), bytes |-> Hunk(j.left)] OBVIOUS
<1>4. /\ {"id", "file"} \subseteq DOMAIN e /\ e.id = TestId(o)
      /\ e.file = IF o.attach = None THEN <<>> ELSE <<file>>
  BY <1>1, <1>2, <1>3 DEF Packet, Event
<1>5. o.attach # None => file.name \in Paths BY <1>2, <1>3, FileNameIs
<1>6. e.id \in Seq(STRING) BY <1>2, <1>4, TestIdIs
<1> QED BY <1>1, <1>4, <1>5, <1>6 DEF NamedEvent

LEMMA TextNamed == ASSUME TextsJoin, NEW bytes PROVE NamedEvent(TextEvent(bytes))
<1>1. PICK e : e = TextEvent(bytes) OBVIOUS
<1>2. PICK t : t = "stdout" OBVIOUS
<1>3. PICK file : file = [name |-> <<t>>, bytes |-> bytes] OBVIOUS
<1>4. {"id", "file"} \subseteq DOMAIN e /\ e.id = <<>> /\ e.file = <<file>>
  BY <1>1, <1>2, <1>3 DEF TextEvent, Event
<1>5. t \in STRING BY <1>2 DEF TextsJoin
<1>6. <<t>> \in Seq(STRING) /\ Len(<<t>>) = 1 BY <1>5, OneIs
<1>7. <<t>> # <<>> BY <1>6
<1>8. file.name \in Paths BY <1>3, <1>6, <1>7 DEF Paths
<1>9. e.id \in Seq(STRING) BY <1>4
<1> QED BY <1>1, <1>4, <1>8, <1>9 DEF NamedEvent

LEMMA NotedOK ==
  ASSUME NamedInv, NEW e, NamedEvent(e), e.id # <<>>
  PROVE  TestOK(Noted(tests, e))
<1>1. PICK t : t = IF Has(tests, e.id) THEN tests.value[e.id] ELSE Unknown(e) OBVIOUS
<1>2. TestOK(t)
  <2>1. CASE Has(tests, e.id) BY <1>1, <2>1 DEF NamedInv, Has
  <2>2. CASE ~Has(tests, e.id)
    <3>1. {"id", "details", "stop"} \subseteq DOMAIN t /\ t.id = e.id /\ t.details = NoItems
      BY <1>1, <2>2 DEF Unknown
    <3>2. e.id \in Paths BY DEF NamedEvent, Paths
    <3> QED BY <3>1, <3>2, EmptyDict DEF TestOK
  <2> QED BY <2>1, <2>2
<1>3. PICK n : n = Noted(tests, e) OBVIOUS
<1>4. /\ DOMAIN n = DOMAIN t /\ n.id = t.id
      /\ n.details = IF e.file = <<>> THEN t.details ELSE Attach(t.details, e.file[1])
  BY <1>1, <1>2, <1>3 DEF Noted, TestOK
<1>5. DictOK(n.details) /\ \A k \in DOMAIN n.details.value : k \in Paths
  <2>1. CASE e.file = <<>> BY <1>2, <1>4, <2>1 DEF TestOK
  <2>2. CASE e.file # <<>>
    <3>1. PICK file : e.file = <<file>> /\ file.name \in Paths BY <2>2 DEF NamedEvent
    <3>2. PICK d : d = t.details OBVIOUS
    <3>3. PICK v : v = (IF Has(d, file.name) THEN d.value[file.name] ELSE <<>>) \o file.bytes
      OBVIOUS
    <3>4. e.file[1] = file BY <3>1
    <3>5. n.details = Put(d, file.name, v) BY <1>4, <2>2, <3>2, <3>3, <3>4 DEF Attach
    <3> QED BY <1>2, <3>1, <3>2, <3>5, PutIs DEF TestOK
  <2> QED BY <2>1, <2>2
<1> QED BY <1>2, <1>3, <1>4, <1>5 DEF TestOK

-----------------------------------------------------------------------------
LEMMA BeginNamed ==
  ASSUME TextsJoin, RunsInv, WrittenInv, NamedInv, NEW p \in DOMAIN script, Begin(p)
  PROVE  /\ \A q \in DOMAIN job' : Running(q)' => ~Refused(job'[q].options)
         /\ \A n \in DOMAIN stream' : NamedEvent(stream'[n])
<1>1. PICK do : do = Head(script[p]) OBVIOUS
<1>2. do \in Tasks
  <2>1. script[p] \in Seq(Tasks) /\ script[p] # <<>> BY DEF Begin, WrittenInv
  <2> QED BY <1>1, <2>1, HeadTailProperties
<1>3. PICK e : e = TextEvent(do.text) OBVIOUS
<1>4. NamedEvent(e) BY <1>3, TextNamed
<1>5. CASE UNCHANGED <<job, stream>> BY <1>5 DEF NamedInv, Running
<1>6. CASE stream' = Append(stream, e) /\ UNCHANGED job
  <2>1. /\ DOMAIN stream = 1..Len(stream) /\ DOMAIN stream' = 1..Len(stream) + 1
        /\ \A n \in 1..Len(stream) : stream'[n] = stream[n]
        /\ stream'[Len(stream) + 1] = e /\ Len(stream) \in Nat
    BY <1>6, SeqShape, AppendShape DEF RunsInv
  <2>2. \A n \in DOMAIN stream' : n \in DOMAIN stream \/ n = Len(stream) + 1 BY <2>1
  <2>3. \A n \in DOMAIN stream' : NamedEvent(stream'[n])
    BY <1>4, <2>1, <2>2 DEF NamedInv
  <2>4. \A q : Running(q)' <=> Running(q) BY <1>6 DEF Running
  <2> QED BY <1>6, <2>3, <2>4 DEF NamedInv
<1>7. CASE /\ "text" \notin DOMAIN do /\ ~("statuses" \in DOMAIN do /\ Refused(do))
           /\ UNCHANGED stream
           /\ \E k : job' = [job EXCEPT ![p] = [number |-> k, options |-> do, first |-> TRUE,
                                               left |-> do.content]]
  <2>1. PICK k : job' = [job EXCEPT ![p] = [number |-> k, options |-> do, first |-> TRUE,
                                            left |-> do.content]]
    BY <1>7
  <2>2. PICK j : j = [number |-> k, options |-> do, first |-> TRUE, left |-> do.content] OBVIOUS
  <2>3. do \in Runs BY <1>2, <1>7 DEF Tasks, Prints
  <2>4. ~Refused(do) BY <1>7, <2>3 DEF Runs
  <2>5. j.options = do BY <2>2
  <2>6. DOMAIN job' = DOMAIN job /\ \A q \in DOMAIN job : job'[q] = IF q = p THEN j ELSE job[q]
    BY <2>1, <2>2
  <2>7. ASSUME NEW q \in DOMAIN job', Running(q)' PROVE ~Refused(job'[q].options)
    <3>1. CASE q = p
      <4>1. job'[q] = j BY <2>6, <3>1
      <4>2. job'[q].options = do BY <2>5, <4>1
      <4> QED BY <2>4, <4>2
    <3>2. CASE q # p
      <4>1. job'[q] = job[q] /\ Running(q) BY <2>6, <2>7, <3>2 DEF Running
      <4> QED BY <2>6, <4>1 DEF NamedInv
    <3> QED BY <3>1, <3>2
  <2> QED BY <1>7, <2>7 DEF NamedInv
<1>8. \/ UNCHANGED <<job, stream>>
      \/ stream' = Append(stream, e) /\ UNCHANGED job
      \/ /\ "text" \notin DOMAIN do /\ ~("statuses" \in DOMAIN do /\ Refused(do))
         /\ UNCHANGED stream
         /\ \E k : job' = [job EXCEPT ![p] = [number |-> k, options |-> do, first |-> TRUE,
                                             left |-> do.content]]
  <2>1. CASE "text" \in DOMAIN do BY <1>1, <1>3, <2>1 DEF Begin
  <2>2. CASE "text" \notin DOMAIN do /\ "statuses" \in DOMAIN do /\ Refused(do)
    BY <1>1, <2>2 DEF Begin
  <2>3. CASE "text" \notin DOMAIN do /\ ~("statuses" \in DOMAIN do /\ Refused(do))
    BY <1>1, <2>3 DEF Begin
  <2> QED BY <2>1, <2>2, <2>3
<1> QED BY <1>5, <1>6, <1>7, <1>8

LEMMA SendNamed ==
  ASSUME TextsJoin, RunsInv, WrittenInv, NamedInv, NEW p \in DOMAIN script, Send(p)
  PROVE  /\ \A q \in DOMAIN job' : Running(q)' => ~Refused(job'[q].options)
         /\ \A n \in DOMAIN stream' : NamedEvent(stream'[n])
<1> DEFINE rest == Rest(job[p].left)
<1>1. PICK j : j = job[p] OBVIOUS
<1>2. PICK e : e = Packet(j) OBVIOUS
<1>3. /\ Running(p) /\ Going(j) /\ p \in DOMAIN job /\ stream' = Append(stream, e)
  BY <1>1, <1>2 DEF WrittenInv, Send
<1>4. j.options \in Runs /\ ~Refused(j.options) BY <1>1, <1>3 DEF Going, NamedInv
<1>5. NamedEvent(e) BY <1>2, <1>4, PacketNamed
<1>6. /\ DOMAIN stream = 1..Len(stream) /\ DOMAIN stream' = 1..Len(stream) + 1
      /\ \A n \in 1..Len(stream) : stream'[n] = stream[n]
      /\ stream'[Len(stream) + 1] = e /\ Len(stream) \in Nat
  BY <1>3, SeqShape, AppendShape DEF RunsInv
<1>7. \A n \in DOMAIN stream' : n \in DOMAIN stream \/ n = Len(stream) + 1 BY <1>6
<1>8. \A n \in DOMAIN stream' : NamedEvent(stream'[n]) BY <1>5, <1>6, <1>7 DEF NamedInv
<1>9. /\ DOMAIN job' = DOMAIN job /\ \A q \in DOMAIN job : q # p => job'[q] = job[q]
      /\ rest = <<>> => job'[p] = <<>>
      /\ rest # <<>> => job'[p] = [j EXCEPT !.first = FALSE, !.left = rest]
  BY <1>1, <1>3 DEF Send
<1> HIDE DEF rest
<1>10. ASSUME NEW q \in DOMAIN job', Running(q)' PROVE ~Refused(job'[q].options)
  <2>1. CASE q # p
    <3>1. job'[q] = job[q] /\ Running(q) BY <1>9, <1>10, <2>1 DEF Running
    <3> QED BY <1>9, <3>1 DEF NamedInv
  <2>2. CASE q = p
    <3>1. rest # <<>> BY <1>9, <1>10, <2>2 DEF Running
    <3>2. job'[p] = [j EXCEPT !.first = FALSE, !.left = rest] BY <1>9, <3>1
    <3>3. job'[p].options = j.options BY <1>3, <3>2 DEF Going
    <3> QED BY <1>4, <2>2, <3>3
  <2> QED BY <2>1, <2>2
<1> QED BY <1>8, <1>10

LEMMA ProgramNamed ==
  ASSUME TextsJoin, RunsInv, WrittenInv, NamedInv, Program
  PROVE  NamedInv' /\ files' = files
<1>1. OutputNext /\ UNCHANGED <<files, tests>> BY DEF Program, diskVars
<1>2. PICK p \in DOMAIN script : Begin(p) \/ Send(p) \/ Kill(p) BY <1>1 DEF OutputNext
<1>3. ASSUME Kill(p)
      PROVE  /\ \A q \in DOMAIN job' : Running(q)' => ~Refused(job'[q].options)
             /\ \A n \in DOMAIN stream' : NamedEvent(stream'[n])
  <2>1. /\ UNCHANGED stream /\ DOMAIN job' = DOMAIN job /\ job'[p] = <<>>
        /\ \A q \in DOMAIN job : q # p => job'[q] = job[q]
    BY <1>3 DEF Kill, WrittenInv
  <2>2. \A q \in DOMAIN job' : Running(q)' => Running(q) /\ job'[q] = job[q]
    BY <2>1 DEF Running
  <2> QED BY <2>1, <2>2 DEF NamedInv
<1>4. /\ \A q \in DOMAIN job' : Running(q)' => ~Refused(job'[q].options)
      /\ \A n \in DOMAIN stream' : NamedEvent(stream'[n])
  BY <1>2, <1>3, BeginNamed, SendNamed
<1>5. (DictOK(tests) /\ \A k \in DOMAIN tests.value : TestOK(tests.value[k]))' BY <1>1 DEF NamedInv
<1> QED BY <1>1, <1>4, <1>5 DEF NamedInv

LEMMA ReadNamed ==
  ASSUME TextsJoin, NamedInv, Read, at' \in DOMAIN stream
  PROVE  NamedInv' /\ Grows(files, files')
<1>1. PICK s : s = stream[at'] OBVIOUS
<1>2. NamedEvent(s) BY <1>1 DEF NamedInv
<1>3. PICK e : e = Tagged(s) OBVIOUS
<1>4. DOMAIN e = DOMAIN s /\ e.id = s.id /\ e.file = s.file
  <2>1. PICK T : T = ((UNION ToSet(s.tags)) \cup options.new) \ options.gone OBVIOUS
  <2>2. e = [s EXCEPT !.tags = IF T = {} THEN <<>> ELSE <<T>>] BY <1>3, <2>1, Zenon DEF Tagged
  <2> QED BY <1>2, <2>2 DEF NamedEvent
<1>5. NamedEvent(e) BY <1>2, <1>4 DEF NamedEvent
<1>6. /\ tests' = Gather(tests, e) /\ Export(HandOut(tests, e))
      /\ UNCHANGED <<job, stream>>
  BY <1>1, <1>3 DEF Read, outputVars
<1>7. PICK t : t = Noted(tests, e) OBVIOUS
<1>8. e.id # <<>> => TestOK(t) BY <1>5, <1>7, NotedOK
<1>9. DictOK(tests') /\ \A k \in DOMAIN tests'.value : TestOK(tests'.value[k])
  <2>1. CASE e.id = <<>> BY <1>6, <2>1 DEF Gather, NamedInv
  <2>2. CASE e.id # <<>> /\ e.status \in Interim
    <3>1. tests' = Put(tests, e.id, t) BY <1>6, <1>7, <2>2 DEF Gather
    <3> QED BY <1>8, <2>2, <3>1, PutIs DEF NamedInv
  <2>3. CASE e.id # <<>> /\ e.status \notin Interim
    <3>1. tests' = Drop(tests, e.id) BY <1>6, <2>3 DEF Gather
    <3> QED BY <3>1, DropIs DEF NamedInv
  <2> QED BY <2>1, <2>2, <2>3
<1>10. PICK h : h = HandOut(tests, e) OBVIOUS
<1>11. IsSeq(h) /\ \A i \in 1..Len(h) : TestOK(h[i])
  <2>1. h = <<>> \/ (e.id # <<>> /\ h = <<t>>) BY <1>7, <1>10 DEF HandOut
  <2>2. /\ <<>> \in Seq({}) /\ Len(<<>>) = 0
        /\ <<t>> \in Seq({t}) /\ Len(<<t>>) = 1 /\ <<t>>[1] = t
    OBVIOUS
  <2>3. IsSeq(<<>>) /\ IsSeq(<<t>>) BY <2>2 DEF IsSeq
  <2>4. CASE h = <<>> BY <2>2, <2>3, <2>4
  <2>5. CASE e.id # <<>> /\ h = <<t>>
    <3>1. \A i \in 1..Len(h) : h[i] = t BY <2>2, <2>5
    <3> QED BY <1>8, <2>3, <2>5, <3>1
  <2> QED BY <2>1, <2>4, <2>5
<1>12. IsFiniteSet(DOMAIN files') /\ Grows(files, files')
  <2>1. Export(h) BY <1>6, <1>10
  <2> QED BY <1>11, <2>1, ExportGrows DEF NamedInv
<1>13. \A q : Running(q)' <=> Running(q) BY <1>6 DEF Running
<1> QED BY <1>6, <1>9, <1>12, <1>13 DEF NamedInv

LEMMA StopNamed ==
  ASSUME TextsJoin, NamedInv, Stop PROVE NamedInv' /\ Grows(files, files')
<1>1. /\ tests' = NoItems /\ Export(Leftovers(tests)) /\ UNCHANGED <<job, stream>>
  BY DEF Stop, outputVars
<1>2. PICK s : s = Leftovers(tests) OBVIOUS
<1>3. /\ IsSeq(s)
      /\ \A i \in 1..Len(s) : \E k \in DOMAIN tests.value :
           s[i] = [tests.value[k] EXCEPT !.stop = 0]
  BY <1>2, LeftoversAre DEF NamedInv
<1>4. ASSUME NEW i \in 1..Len(s) PROVE TestOK(s[i])
  <2>1. PICK k \in DOMAIN tests.value : s[i] = [tests.value[k] EXCEPT !.stop = 0] BY <1>3
  <2>2. PICK v : v = tests.value[k] OBVIOUS
  <2>3. TestOK(v) BY <2>2 DEF NamedInv
  <2>4. PICK t : t = [v EXCEPT !.stop = 0] OBVIOUS
  <2>5. DOMAIN t = DOMAIN v /\ t.id = v.id /\ t.details = v.details BY <2>3, <2>4 DEF TestOK
  <2>6. TestOK(t) BY <2>3, <2>5 DEF TestOK
  <2> QED BY <2>1, <2>2, <2>4, <2>6
<1>5. IsFiniteSet(DOMAIN files') /\ Grows(files, files')
  <2>1. Export(s) BY <1>1, <1>2
  <2> QED BY <1>3, <1>4, <2>1, ExportGrows DEF NamedInv
<1>6. DictOK(tests') /\ DOMAIN tests'.value = {} BY <1>1, EmptyDict
<1>7. \A q : Running(q)' <=> Running(q) BY <1>1 DEF Running
<1> QED BY <1>1, <1>5, <1>6, <1>7 DEF NamedInv

LEMMA NamedKept ==
  ASSUME TextsJoin, RouteInv, WrittenInv, NamedInv, [Next]_vars
  PROVE  NamedInv' /\ Grows(files, files')
<1>1. CASE Program
  <2>1. NamedInv' /\ files' = files BY <1>1, ProgramNamed DEF RouteInv
  <2> QED BY <2>1 DEF Grows
<1>2. CASE Read
  <2>1. at' \in DOMAIN stream BY <1>2, SeqShape DEF RouteInv, RunsInv, Read
  <2> QED BY <1>2, <2>1, ReadNamed
<1>3. CASE Stop BY <1>3, StopNamed
<1>4. CASE UNCHANGED vars
  <2>1. UNCHANGED <<job, stream, tests, files>> BY <1>4 DEF vars, outputVars, diskVars
  <2>2. \A q : Running(q)' <=> Running(q) BY <2>1 DEF Running
  <2> QED BY <2>1, <2>2 DEF NamedInv, Grows
<1> QED BY <1>1, <1>2, <1>3, <1>4 DEF Next

LEMMA NamedStart == Init => NamedInv
<1> SUFFICES ASSUME Init PROVE NamedInv OBVIOUS
<1>1. /\ tests = NoItems /\ files \in Existing /\ stream = <<>>
      /\ \A p \in DOMAIN job : ~Running(p)
  BY DEF Init, DiskInit, OutputInit, Running
<1>2. DOMAIN stream = {} BY <1>1
<1>3. IsFiniteSet(DOMAIN files) BY <1>1, DiskAssumption
<1> QED BY <1>1, <1>2, <1>3, EmptyDict DEF NamedInv

(* Whatever the names of tests and files are, with ".." and absolute ones   *)
(* among them, and whatever earlier runs of subunit2disk left: no step of   *)
(* an export changes or removes a file that is there.                       *)
THEOREM ExportsOverwriteNothing == ASSUME TextsJoin PROVE Spec => NothingOverwritten
<1> DEFINE Inv == RouteInv /\ WrittenInv /\ NamedInv
<1>1. Init => Inv BY RouteStart, WrittenStart, NamedStart
<1>2. Inv /\ [Next]_vars => Inv' BY RouteKept, WrittenKept, NamedKept
<1>3. Inv /\ [Next]_vars =>
        [\A f \in DOMAIN files : f \in DOMAIN files' /\ files'[f] = files[f]]_vars
  BY NamedKept DEF Grows
<1> QED BY <1>1, <1>2, <1>3, PTL DEF Spec, NothingOverwritten

-----------------------------------------------------------------------------
(* The tests that the commands have seen. Two accounts are the same when    *)
(* there is a one-to-one map between them.                                  *)

Matching(b, I, J) ==
    /\ b \in [I -> J]
    /\ \A i, j \in I : b[i] = b[j] => i = j
    /\ \A j \in J : \E i \in I : b[i] = j
Same(I, f, J, g) == \E b : Matching(b, I, J) /\ \A i \in I : f[i] = g[b[i]]

LEMMA SameCount ==
  ASSUME NEW I, NEW J, NEW b, Matching(b, I, J), IsFiniteSet(I),
         NEW A, NEW B, A \subseteq I, B \subseteq J, \A i \in I : i \in A <=> b[i] \in B
  PROVE  Cardinality(A) = Cardinality(B)
<1>1. PICK c : c = [i \in A |-> b[i]] OBVIOUS
<1>2. c \in [A -> B] BY <1>1 DEF Matching
<1>3. \A i, j \in A : c[i] = c[j] => i = j BY <1>1 DEF Matching
<1>4. \A j \in B : \E i \in A : c[i] = j BY <1>1 DEF Matching
<1>5. c \in Bijection(A, B) BY <1>2, <1>3, <1>4 DEF Bijection, Injection, Surjection, IsInjective
<1>6. IsFiniteSet(A) BY FS_Subset
<1> QED BY <1>5, <1>6, FS_Bijection DEF ExistsBijection

LEMMA SameJoins ==
  ASSUME NEW I, NEW f, NEW J, NEW g, Same(I, f, J, g),
         NEW K, NEW f2, NEW L, NEW g2, Same(K, f2, L, g2),
         I \cap K = {}, J \cap L = {},
         \A i \in I : f2[i] = f[i], \A j \in J : g2[j] = g[j]
  PROVE  Same(I \cup K, f2, J \cup L, g2)
<1>1. PICK b : Matching(b, I, J) /\ \A i \in I : f[i] = g[b[i]] BY DEF Same
<1>2. PICK c : Matching(c, K, L) /\ \A i \in K : f2[i] = g2[c[i]] BY DEF Same
<1>3. PICK d : d = [i \in I \cup K |-> IF i \in I THEN b[i] ELSE c[i]] OBVIOUS
<1>4. \A i \in I : b[i] \in J /\ d[i] = b[i] BY <1>1, <1>3 DEF Matching
<1>5. \A i \in K : c[i] \in L /\ d[i] = c[i] BY <1>2, <1>3 DEF Matching
<1>6. d \in [I \cup K -> J \cup L] BY <1>3, <1>4, <1>5
<1>7. \A i, j \in I \cup K : d[i] = d[j] => i = j
  <2> SUFFICES ASSUME NEW i \in I \cup K, NEW j \in I \cup K, d[i] = d[j] PROVE i = j OBVIOUS
  <2>1. CASE i \in I /\ j \in I BY <1>1, <1>4, <2>1 DEF Matching
  <2>2. CASE i \in K /\ j \in K BY <1>2, <1>5, <2>2 DEF Matching
  <2>3. CASE i \in I /\ j \in K BY <1>4, <1>5, <2>3
  <2>4. CASE i \in K /\ j \in I BY <1>4, <1>5, <2>4
  <2> QED BY <2>1, <2>2, <2>3, <2>4
<1>8. ASSUME NEW j \in J \cup L PROVE \E i \in I \cup K : d[i] = j
  <2>1. CASE j \in J
    <3>1. PICK i \in I : b[i] = j BY <1>1, <2>1 DEF Matching
    <3> QED BY <1>4, <3>1
  <2>2. CASE j \in L
    <3>1. PICK i \in K : c[i] = j BY <1>2, <2>2 DEF Matching
    <3> QED BY <1>5, <3>1
  <2> QED BY <2>1, <2>2
<1>9. \A i \in I \cup K : f2[i] = g2[d[i]] BY <1>1, <1>2, <1>4, <1>5
<1>10. Matching(d, I \cup K, J \cup L) BY <1>6, <1>7, <1>8 DEF Matching
<1> QED BY <1>9, <1>10 DEF Same

(* n more on both sides, in the order of p.                                 *)
LEMMA SameShifts ==
  ASSUME NEW l \in Nat, NEW m \in Nat, NEW n \in Nat, NEW f, NEW g,
         NEW p, Matching(p, 1..n, 1..n),
         \A i \in 1..n : f[l + i] = g[m + p[i]]
  PROVE  Same(l + 1 .. l + n, f, m + 1 .. m + n, g)
<1> DEFINE I == l + 1 .. l + n
           J == m + 1 .. m + n
<1>1. PICK b : b = [i \in I |-> m + p[i - l]] OBVIOUS
<1>2. \A i \in I : i - l \in 1..n /\ l + (i - l) = i OBVIOUS
<1>3. \A i \in 1..n : p[i] \in 1..n BY DEF Matching
<1>4. ASSUME NEW i \in I PROVE b[i] \in J /\ f[i] = g[b[i]]
  <2>1. PICK k \in 1..n : k = i - l /\ i = l + k BY <1>2
  <2>2. b[i] = m + p[k] /\ p[k] \in 1..n BY <1>1, <1>3, <2>1
  <2> QED BY <2>1, <2>2
<1>5. b \in [I -> J] BY <1>1, <1>4
<1>6. ASSUME NEW i \in I, NEW j \in I, b[i] = b[j] PROVE i = j
  <2>1. i - l \in 1..n /\ j - l \in 1..n BY <1>2
  <2>2. p[i - l] \in Int /\ p[j - l] \in Int BY <1>3, <2>1
  <2>3. m + p[i - l] = m + p[j - l] BY <1>1, <1>6
  <2>4. p[i - l] = p[j - l] BY <2>2, <2>3
  <2>5. i - l = j - l BY <2>1, <2>4 DEF Matching
  <2> QED BY <2>5
<1>7. ASSUME NEW j \in J PROVE \E i \in I : b[i] = j
  <2>1. j - m \in 1..n OBVIOUS
  <2>2. PICK k \in 1..n : p[k] = j - m BY <2>1 DEF Matching
  <2>3. l + k \in I /\ (l + k) - l = k OBVIOUS
  <2>4. b[l + k] = m + (j - m) BY <1>1, <2>2, <2>3
  <2> QED BY <2>3, <2>4
<1>8. Matching(b, I, J) BY <1>5, <1>6, <1>7 DEF Matching
<1> QED BY <1>4, <1>8 DEF Same

LEMMA Straight == ASSUME NEW n \in Nat PROVE \E p : Matching(p, 1..n, 1..n) /\ \A i \in 1..n : p[i] = i
<1>1. PICK p : p = [i \in 1..n |-> i] OBVIOUS
<1> QED BY <1>1 DEF Matching

LEMMA Turned ==
  ASSUME NEW n \in Nat
  PROVE  \E p : Matching(p, 1..n, 1..n) /\ \A i \in 1..n : p[i] = (n - i) + 1
<1>1. PICK p : p = [i \in 1..n |-> (n - i) + 1] OBVIOUS
<1>2. \A j \in 1..n : (n - j) + 1 \in 1..n /\ (n - ((n - j) + 1)) + 1 = j OBVIOUS
<1> QED BY <1>1, <1>2 DEF Matching

(* A sequence that has n elements more than one before it.                  *)
More(s, t, n) ==
    /\ IsSeq(t) /\ Len(t) = Len(s) + n
    /\ \A i \in 1..Len(s) : t[i] = s[i]

(* a is t and x after it.                                                   *)
OneMore(s, t, n, x, a) ==
    /\ More(s, a, n + 1)
    /\ \A i \in 1..n : a[Len(s) + i] = t[Len(s) + i]
    /\ a[Len(s) + (n + 1)] = x

LEMMA AppendMore ==
  ASSUME NEW s, IsSeq(s), NEW t, NEW n \in Nat, More(s, t, n), NEW x
  PROVE  OneMore(s, t, n, x, Append(t, x))
<1>1. PICK a : a = Append(t, x) OBVIOUS
<1>2. Len(s) \in Nat /\ Len(t) \in Nat /\ Len(t) = Len(s) + n BY SeqShape DEF More
<1>3. /\ IsSeq(a) /\ Len(a) = Len(t) + 1
      /\ \A i \in 1..Len(t) : a[i] = t[i]
      /\ a[Len(t) + 1] = x
  BY <1>1, AppendShape DEF More
<1>4. \A i \in 1..Len(s) : i \in 1..Len(t) BY <1>2
<1>5. \A i \in 1..n : Len(s) + i \in 1..Len(t) BY <1>2
<1>6. Len(t) + 1 = Len(s) + (n + 1) BY <1>2
<1>7. \A i \in 1..Len(s) : a[i] = s[i] BY <1>3, <1>4 DEF More
<1>8. More(s, a, n + 1) BY <1>2, <1>3, <1>7 DEF More
<1>9. \A i \in 1..n : a[Len(s) + i] = t[Len(s) + i] BY <1>3, <1>5
<1>10. a[Len(s) + (n + 1)] = x BY <1>3, <1>6
<1> QED BY <1>1, <1>8, <1>9, <1>10 DEF OneMore

LEMMA NoMore == ASSUME NEW s, IsSeq(s) PROVE More(s, s, 0)
<1>1. Len(s) \in Nat BY SeqShape
<1> QED BY <1>1 DEF More

(* The tests handed to subunit2disk, when no export has raised.             *)
LEMMA ExportAll ==
  ASSUME NEW s, IsSeq(s), Export(s), IsSeq(exported), ~broken'
  PROVE  /\ ~broken /\ More(exported, exported', Len(s))
         /\ \A i \in 1..Len(s) : exported'[Len(exported) + i].test = s[i]
<1>1. Len(s) \in Nat BY SeqShape
<1>2. PICK n : n = Len(s) OBVIOUS
<1>3. PICK f : /\ Exports!Folds(f, Stored, s)
               /\ exported' = f[n].exported /\ broken' = f[n].broken
  BY <1>2, ExportIs
<1> DEFINE OK(k) ==
             /\ "broken" \in DOMAIN f[k]
             /\ ~f[k].broken =>
                  /\ ~broken /\ More(exported, f[k].exported, k)
                  /\ \A i \in 1..k : f[k].exported[Len(exported) + i].test = s[i]
           A == {k \in 0..n : OK(k)}
<1>4. 0 \in A
  <2>1. f[0] = Stored BY <1>3 DEF Exports!Folds
  <2>2. f[0].exported = exported /\ f[0].broken = broken BY <2>1 DEF Stored
  <2>3. "broken" \in DOMAIN f[0] BY <2>1 DEF Stored
  <2>4. OK(0) BY <2>2, <2>3, NoMore
  <2> QED BY <1>1, <1>2, <2>4
<1>5. ASSUME NEW k \in 1..n, k - 1 \in A PROVE k \in A
  <2>0. "broken" \in DOMAIN f[k - 1] BY <1>5
  <2>1. PICK d : d = f[k - 1] OBVIOUS
  <2>2. PICK e : e = f[k] OBVIOUS
  <2>3. PICK test : test = s[k] OBVIOUS
  <2>4. e = ExportOne(d, test) BY <1>2, <1>3, <2>1, <2>2, <2>3 DEF Exports!Folds
  <2>20. "broken" \in DOMAIN e
    <3>1. CASE d.broken BY <2>0, <2>1, <2>4, <3>1 DEF ExportOne
    <3>2. CASE ~d.broken /\ Endless(Directory, test.id)
      <4>1. e = [d EXCEPT !.broken = TRUE] BY <2>4, <3>2 DEF ExportOne
      <4> QED BY <2>0, <2>1, <4>1
    <3>3. CASE ~d.broken /\ ~Endless(Directory, test.id)
      <4>1. PICK made : made = Made(d.files, test) OBVIOUS
      <4>2. PICK all : all = IF made.broken THEN d.exported
                             ELSE Append(d.exported, [test |-> test, paths |-> made.paths])
        OBVIOUS
      <4>3. e = [files |-> made.files, broken |-> made.broken, exported |-> all]
        BY <2>4, <3>3, <4>1, <4>2, Zenon DEF ExportOne
      <4> QED BY <4>3
    <3> QED BY <3>1, <3>2, <3>3
  <2>5. SUFFICES ASSUME ~e.broken PROVE OK(k) BY <1>1, <1>2, <2>2, <2>20
  <2>6. ~d.broken
    <3> SUFFICES ASSUME d.broken PROVE FALSE OBVIOUS
    <3>1. e = d BY <2>4 DEF ExportOne
    <3> QED BY <2>5, <3>1
  <2>7. /\ ~broken /\ More(exported, d.exported, k - 1)
        /\ \A i \in 1..k - 1 : d.exported[Len(exported) + i].test = s[i]
    BY <1>5, <2>1, <2>6
  <2>8. \E x : x.test = test /\ e.exported = Append(d.exported, x)
    <3>1. CASE Endless(Directory, test.id)
      <4>1. e = [d EXCEPT !.broken = TRUE] BY <2>4, <2>6, <3>1 DEF ExportOne
      <4>2. e.broken BY <2>0, <2>1, <4>1
      <4> QED BY <2>5, <4>2
    <3>2. CASE ~Endless(Directory, test.id)
      <4>1. PICK made : made = Made(d.files, test) OBVIOUS
      <4>2. PICK x : x = [test |-> test, paths |-> made.paths] OBVIOUS
      <4>3. e = [files |-> made.files, broken |-> made.broken,
                 exported |-> IF made.broken THEN d.exported ELSE Append(d.exported, x)]
        BY <2>4, <2>6, <3>2, <4>1, <4>2, Zenon DEF ExportOne
      <4>4. ~made.broken BY <2>5, <4>3
      <4>5. e.exported = Append(d.exported, x) BY <4>3, <4>4
      <4> QED BY <4>2, <4>5
    <3> QED BY <3>1, <3>2
  <2>9. PICK x : x.test = test /\ e.exported = Append(d.exported, x) BY <2>8
  <2>10. k - 1 \in Nat /\ (k - 1) + 1 = k BY <1>1, <1>2
  <2>11. /\ More(exported, e.exported, k)
         /\ \A i \in 1..k - 1 : e.exported[Len(exported) + i] = d.exported[Len(exported) + i]
         /\ e.exported[Len(exported) + k] = x
    <3>1. PICK t : t = d.exported OBVIOUS
    <3>2. PICK m \in Nat : m = k - 1 BY <2>10
    <3>3. More(exported, t, m) BY <2>7, <3>1, <3>2
    <3>4. OneMore(exported, t, m, x, Append(t, x)) BY <3>3, AppendMore
    <3>5. m + 1 = k BY <2>10, <3>2
    <3> QED BY <2>9, <3>1, <3>2, <3>4, <3>5 DEF OneMore
  <2>12. \A i \in 1..k : e.exported[Len(exported) + i].test = s[i]
    <3>1. \A i \in 1..k : i \in 1..k - 1 \/ i = k BY <1>1, <1>2
    <3> QED BY <2>3, <2>7, <2>9, <2>11, <3>1
  <2> QED BY <2>2, <2>20, <2>7, <2>11, <2>12
<1>6. n \in A
  <2> HIDE DEF A
  <2> QED BY <1>1, <1>2, <1>4, <1>5, Numbers!Upto
<1> QED BY <1>2, <1>3, <1>6

LEMMA ExportNone == ASSUME Export(<<>>) PROVE UNCHANGED <<files, exported, broken>>
<1>1. <<>> \in Seq({}) /\ Len(<<>>) = 0 OBVIOUS
<1>2. IsSeq(<<>>) BY <1>1 DEF IsSeq
<1>3. PICK f : /\ Exports!Folds(f, Stored, <<>>) /\ files' = f[0].files
               /\ exported' = f[0].exported /\ broken' = f[0].broken
  BY <1>1, <1>2, ExportIs
<1>4. f[0] = Stored BY <1>3 DEF Exports!Folds
<1> QED BY <1>3, <1>4 DEF Stored

-----------------------------------------------------------------------------
(* The tests told to subunit-stats and subunit2csv.                         *)
Tells == INSTANCE FoldProofs WITH Step <- Told

(* Those that passed are the rows that are neither failures nor skipped.    *)
PassedRows(rows) == {j \in DOMAIN rows : rows[j].status \notin {"failure", "skip"}}
TallyOK(t) ==
    /\ IsSeq(t.rows) /\ t.total \in Int /\ t.failed \in Int /\ t.skipped \in Int
    /\ t.total - t.failed - t.skipped = Cardinality(PassedRows(t.rows))

Counts(t, test, u) ==
    /\ TallyOK(u)
    /\ \E row : /\ u.rows = Append(t.rows, row)
                /\ row.id = test.id /\ row.status = Outcome(test.status)

LEMMA ToldIs == ASSUME NEW t, TallyOK(t), NEW test PROVE Counts(t, test, Told(t, test))
<1>1. PICK is : is = Outcome(test.status) OBVIOUS
<1>2. PICK u : u = Told(t, test) OBVIOUS
<1>3. /\ u.total = t.total + 1
      /\ u.failed = t.failed + (IF is = "failure" THEN 1 ELSE 0)
      /\ u.skipped = t.skipped + (IF is = "skip" THEN 1 ELSE 0)
      /\ \E start, stop : u.rows = Append(t.rows, [id |-> test.id, status |-> is, start |-> start,
                                                   stop |-> stop])
  BY <1>1, <1>2 DEF Told
<1>4. PICK start, stop : u.rows = Append(t.rows, [id |-> test.id, status |-> is, start |-> start,
                                                  stop |-> stop])
  BY <1>3
<1>5. PICK row : row = [id |-> test.id, status |-> is, start |-> start, stop |-> stop] OBVIOUS
<1>6. row.id = test.id /\ row.status = is BY <1>5
<1>7. /\ IsSeq(u.rows) /\ Len(t.rows) \in Nat /\ DOMAIN t.rows = 1..Len(t.rows)
      /\ DOMAIN u.rows = 1 .. Len(t.rows) + 1
      /\ \A j \in 1..Len(t.rows) : u.rows[j] = t.rows[j]
      /\ u.rows[Len(t.rows) + 1] = row
  BY <1>4, <1>5, AppendShape, SeqShape DEF TallyOK
<1> DEFINE new == Len(t.rows) + 1
           P == PassedRows(t.rows)
<1>8. new \notin P BY <1>7 DEF PassedRows
<1>9. IsFiniteSet(P)
  <2>1. IsFiniteSet(1..Len(t.rows)) BY <1>7, FS_Interval
  <2>2. P \subseteq 1..Len(t.rows) BY <1>7 DEF PassedRows
  <2> QED BY <2>1, <2>2, FS_Subset
<1>10. Cardinality(P) \in Nat BY <1>9, FS_CardinalityType
<1>11. CASE is \in {"failure", "skip"}
  <2>1. PassedRows(u.rows) = P BY <1>6, <1>7, <1>11 DEF PassedRows
  <2>2. u.total - u.failed - u.skipped = t.total - t.failed - t.skipped
    BY <1>3, <1>11 DEF TallyOK
  <2>3. u.total \in Int /\ u.failed \in Int /\ u.skipped \in Int BY <1>3 DEF TallyOK
  <2>4. TallyOK(u) BY <1>7, <2>1, <2>2, <2>3 DEF TallyOK
  <2> QED BY <1>1, <1>2, <1>4, <1>5, <1>6, <2>4 DEF Counts
<1>12. CASE is \notin {"failure", "skip"}
  <2>1. PassedRows(u.rows) = P \cup {new} BY <1>6, <1>7, <1>12 DEF PassedRows
  <2>2. Cardinality(PassedRows(u.rows)) = Cardinality(P) + 1 BY <1>8, <1>9, <2>1, FS_AddElement
  <2>3. u.total \in Int /\ u.failed = t.failed /\ u.skipped = t.skipped
    BY <1>3, <1>12 DEF TallyOK
  <2>0. /\ t.total \in Int /\ t.failed \in Int /\ t.skipped \in Int
        /\ u.total = t.total + 1 /\ u.failed = t.failed /\ u.skipped = t.skipped
    BY <1>3, <2>3 DEF TallyOK
  <2>4. u.total - u.failed - u.skipped = (t.total - t.failed - t.skipped) + 1 BY <2>0
  <2>5. u.total - u.failed - u.skipped = Cardinality(PassedRows(u.rows))
    BY <1>10, <2>2, <2>4 DEF TallyOK
  <2>6. TallyOK(u) BY <1>7, <2>3, <2>5 DEF TallyOK
  <2> QED BY <1>1, <1>2, <1>4, <1>5, <1>6, <2>6 DEF Counts
<1> QED BY <1>11, <1>12

LEMMA TellAll ==
  ASSUME NEW s, IsSeq(s), TallyOK(tally), tally' = FoldLeft(Told, tally, s)
  PROVE  /\ TallyOK(tally') /\ More(tally.rows, tally'.rows, Len(s))
         /\ \A i \in 1..Len(s) : /\ tally'.rows[Len(tally.rows) + i].id = s[i].id
                                 /\ tally'.rows[Len(tally.rows) + i].status = Outcome(s[i].status)
<1>1. Len(s) \in Nat /\ DOMAIN s = 1..Len(s) BY SeqShape
<1>2. PICK n : n = Len(s) OBVIOUS
<1>3. PICK f : Tells!Folds(f, tally, s) /\ Tells!Fold(tally, s) = f[n]
  BY <1>1, <1>2, Tells!FoldLeftSteps
<1>4. tally' = f[n]
  <2>1. Tells!Fold(tally, s) = FoldLeft(Told, tally, s)
    BY Zenon DEF Tells!Fold, Tells!FoldLeft, Tells!MapThenFoldSet, Tells!Max,
       FoldLeft, MapThenFoldSet, Max
  <2> QED BY <1>3, <2>1
<1>5. PICK before : before = tally.rows OBVIOUS
<1> DEFINE OK(k) ==
             /\ TallyOK(f[k]) /\ More(before, f[k].rows, k)
             /\ \A i \in 1..k : /\ f[k].rows[Len(before) + i].id = s[i].id
                                /\ f[k].rows[Len(before) + i].status = Outcome(s[i].status)
           A == {k \in 0..n : OK(k)}
<1>6. IsSeq(before) BY <1>5 DEF TallyOK
<1>7. 0 \in A
  <2>1. f[0] = tally BY <1>3 DEF Tells!Folds
  <2>2. OK(0) BY <1>5, <1>6, <2>1, NoMore
  <2> QED BY <1>1, <1>2, <2>2
<1>8. ASSUME NEW k \in 1..n, k - 1 \in A PROVE k \in A
  <2>1. PICK t : t = f[k - 1] OBVIOUS
  <2>2. PICK u : u = f[k] OBVIOUS
  <2>3. PICK test : test = s[k] OBVIOUS
  <2>4. u = Told(t, test) BY <1>2, <1>3, <2>1, <2>2, <2>3 DEF Tells!Folds
  <2>5. /\ TallyOK(t) /\ More(before, t.rows, k - 1)
        /\ \A i \in 1..k - 1 : /\ t.rows[Len(before) + i].id = s[i].id
                               /\ t.rows[Len(before) + i].status = Outcome(s[i].status)
    BY <1>8, <2>1
  <2>6. Counts(t, test, u)
    <3>1. Counts(t, test, Told(t, test)) BY <2>5, ToldIs
    <3> QED BY <2>4, <3>1
  <2>7. PICK row : u.rows = Append(t.rows, row) /\ row.id = test.id
                     /\ row.status = Outcome(test.status)
    BY <2>6 DEF Counts
  <2>8. k - 1 \in Nat /\ (k - 1) + 1 = k BY <1>1, <1>2
  <2>9. /\ More(before, u.rows, k)
        /\ \A i \in 1..k - 1 : u.rows[Len(before) + i] = t.rows[Len(before) + i]
        /\ u.rows[Len(before) + k] = row
    <3>1. PICK r : r = t.rows OBVIOUS
    <3>2. PICK m \in Nat : m = k - 1 BY <2>8
    <3>3. More(before, r, m) BY <2>5, <3>1, <3>2
    <3>4. OneMore(before, r, m, row, Append(r, row)) BY <1>6, <3>3, AppendMore
    <3>5. m + 1 = k BY <2>8, <3>2
    <3> QED BY <2>7, <3>1, <3>2, <3>4, <3>5 DEF OneMore
  <2>10. \A i \in 1..k : i \in 1..k - 1 \/ i = k BY <1>1, <1>2
  <2>11. \A i \in 1..k : /\ u.rows[Len(before) + i].id = s[i].id
                         /\ u.rows[Len(before) + i].status = Outcome(s[i].status)
    BY <2>3, <2>5, <2>7, <2>9, <2>10
  <2>12. OK(k) BY <2>2, <2>6, <2>9, <2>11 DEF Counts
  <2> HIDE DEF OK
  <2> QED BY <1>1, <1>2, <2>12
<1>9. n \in A
  <2> HIDE DEF A
  <2> QED BY <1>1, <1>2, <1>7, <1>8, Numbers!Upto
<1> QED BY <1>2, <1>4, <1>5, <1>9

LEMMA TellNone == ASSUME tally' = FoldLeft(Told, tally, <<>>) PROVE tally' = tally
<1>1. <<>> \in Seq({}) /\ Len(<<>>) = 0 /\ DOMAIN <<>> = 1..0 OBVIOUS
<1>2. PICK f : Tells!Folds(f, tally, <<>>) /\ Tells!Fold(tally, <<>>) = f[0]
  BY <1>1, Tells!FoldLeftSteps
<1>3. Tells!Fold(tally, <<>>) = FoldLeft(Told, tally, <<>>)
  BY Zenon DEF Tells!Fold, Tells!FoldLeft, Tells!MapThenFoldSet, Tells!Max,
     FoldLeft, MapThenFoldSet, Max
<1> QED BY <1>2, <1>3 DEF Tells!Folds

-----------------------------------------------------------------------------
(* The dictionaries of the tests under way.                                 *)
Mapping(dict) == dict.value = [k \in DOMAIN dict.value |-> dict.value[k]]
SameKeys(a, b) == a.keys = b.keys /\ DOMAIN a.value = DOMAIN b.value

LEMMA PutKeys ==
  ASSUME NEW a, NEW b, SameKeys(a, b), NEW k, NEW v, NEW w
  PROVE  SameKeys(Put(a, k, v), Put(b, k, w))
<1>1. /\ Put(a, k, v).keys = IF k \in DOMAIN a.value THEN a.keys ELSE Append(a.keys, k)
      /\ Put(b, k, w).keys = IF k \in DOMAIN b.value THEN b.keys ELSE Append(b.keys, k)
      /\ DOMAIN Put(a, k, v).value = DOMAIN a.value \cup {k}
      /\ DOMAIN Put(b, k, w).value = DOMAIN b.value \cup {k}
  BY DEF Put, Has, Updated
<1> QED BY <1>1 DEF SameKeys

LEMMA DropKeys ==
  ASSUME NEW a, NEW b, SameKeys(a, b), NEW k PROVE SameKeys(Drop(a, k), Drop(b, k))
<1>1. /\ Drop(a, k).keys = RemoveFirst(a.keys, k) /\ Drop(b, k).keys = RemoveFirst(b.keys, k)
      /\ DOMAIN Drop(a, k).value = DOMAIN a.value \ {k}
      /\ DOMAIN Drop(b, k).value = DOMAIN b.value \ {k}
  BY DEF Drop
<1> QED BY <1>1 DEF SameKeys

LEMMA DropNothing ==
  ASSUME NEW d, DictOK(d), Mapping(d), NEW k, k \notin DOMAIN d.value PROVE Drop(d, k) = d
<1>1. ~ \E i \in 1..Len(d.keys) : d.keys[i] = k BY DEF DictOK
<1>2. RemoveFirst(d.keys, k) = d.keys BY <1>1, Zenon DEF RemoveFirst
<1>3. DOMAIN d.value \ {k} = DOMAIN d.value OBVIOUS
<1>4. [j \in DOMAIN d.value \ {k} |-> d.value[j]] = d.value BY <1>3 DEF Mapping
<1>5. Drop(d, k) = [keys |-> d.keys, value |-> d.value] BY <1>2, <1>4 DEF Drop
<1> QED BY <1>5 DEF DictOK

-----------------------------------------------------------------------------
(* The lines of subunit-ls, while it has not given up.                      *)
Longer(s, t, more) ==
    More(s, t, Len(more)) /\ \A i \in 1..Len(more) : t[Len(s) + i] = more[i]

LEMMA EndTestLines ==
  ASSUME NEW list, DOMAIN list = ListFields, list.raised = FALSE, NEW id, NEW times
  PROVE  \/ EndTest(list, id, times).raised
         \/ EndTest(list, id, times).lines = Append(list.lines, id)
<1>1. PICK a : a = Drop(list.active, id) OBVIOUS
<1>2. PICK b : b = [list EXCEPT !.active = a] OBVIOUS
<1>3. DOMAIN b = ListFields /\ b.lines = list.lines BY <1>2 DEF ListFields
<1>4. PICK l : l = EndTest(list, id, times) OBVIOUS
<1>5. l = ReportTest(b, id, IsTimed(list, id), times)
  BY <1>1, <1>2, <1>4, Zenon DEF EndTest, IsTimed
<1>6. l = [b EXCEPT !.raised = TRUE] \/ l = [b EXCEPT !.lines = Append(@, id)]
  BY <1>5, Zenon DEF ReportTest
<1>7. l.raised \/ l.lines = Append(list.lines, id) BY <1>3, <1>6 DEF ListFields
<1> QED BY <1>4, <1>7

LEMMA StatusLines ==
  ASSUME NEW list, DOMAIN list = ListFields, list.raised = FALSE, NEW e, e.id # <<>>
  PROVE  LET l == Status(list, e, options)
         IN  /\ e.status \in Interim => l.lines = list.lines
             /\ e.status = "exists" /\ ~options.exists => l.lines = list.lines
             /\ e.status = "exists" /\ options.exists =>
                  l.raised \/ l.lines = Append(list.lines, e.id)
             /\ e.status \notin Interim \cup {"exists"} =>
                  l.raised \/ l.lines = Append(list.lines, e.id)
<1>1. PICK t : t = TimeAt(list, e) OBVIOUS
<1>2. PICK now : now = [list EXCEPT !.time = t] OBVIOUS
<1>3. DOMAIN now = ListFields /\ now.lines = list.lines /\ now.raised = FALSE
  BY <1>2 DEF ListFields
<1>4. now = [list EXCEPT !.time = IF e.time # 0 THEN e.time ELSE @]
  BY <1>1, <1>2 DEF TimeAt, ListFields
<1>5. PICK l : l = Status(list, e, options) OBVIOUS
<1>6. /\ e.status = "exists" =>
           l = IF options.exists THEN ReportTest(now, e.id, FALSE, options.times) ELSE now
      /\ e.status # "exists" /\ e.status \in Interim =>
           l = [now EXCEPT !.active = Put(@, e.id, now.time)]
      /\ e.status # "exists" /\ e.status \notin Interim =>
           l = EndTest(now, e.id, options.times)
  BY <1>4, <1>5 DEF Status
<1>7. "exists" \notin Interim BY DEF Interim
<1>8. e.status = "exists" /\ options.exists => l.raised \/ l.lines = Append(list.lines, e.id)
  <2> SUFFICES ASSUME e.status = "exists", options.exists
               PROVE  l.raised \/ l.lines = Append(list.lines, e.id)
    OBVIOUS
  <2>1. l = ReportTest(now, e.id, FALSE, options.times) BY <1>6
  <2>2. l = [now EXCEPT !.raised = TRUE] \/ l = [now EXCEPT !.lines = Append(@, e.id)]
    BY <2>1 DEF ReportTest
  <2> QED BY <1>3, <2>2 DEF ListFields
<1>9. e.status = "exists" /\ ~options.exists => l.lines = list.lines BY <1>3, <1>6
<1>10. e.status \in Interim => l.lines = list.lines
  <2> SUFFICES ASSUME e.status \in Interim PROVE l.lines = list.lines OBVIOUS
  <2>1. PICK a : a = Put(now.active, e.id, now.time) OBVIOUS
  <2>2. l = [now EXCEPT !.active = a] BY <1>3, <1>6, <1>7, <2>1 DEF ListFields
  <2> QED BY <1>3, <2>2
<1>11. e.status \notin Interim \cup {"exists"} => l.raised \/ l.lines = Append(list.lines, e.id)
  <2> SUFFICES ASSUME e.status \notin Interim \cup {"exists"}
               PROVE  l.raised \/ l.lines = Append(list.lines, e.id)
    OBVIOUS
  <2>1. PICK times : times = options.times OBVIOUS
  <2>2. PICK id : id = e.id OBVIOUS
  <2>3. l = EndTest(now, id, times) BY <1>6, <2>1, <2>2
  <2>4. l.raised \/ l.lines = Append(now.lines, id) BY <1>3, <2>3, EndTestLines
  <2> QED BY <1>3, <2>2, <2>4
<1> QED BY <1>5, <1>8, <1>9, <1>10, <1>11

LEMMA EndLines ==
  ASSUME DOMAIN listing = ListFields, listing.raised = FALSE, IsSeq(listing.lines),
         DictOK(listing.active)
  PROVE  \/ EndAll(listing, options).raised
         \/ Longer(listing.lines, EndAll(listing, options).lines, listing.active.keys)
<1>1. PICK keys : keys = listing.active.keys OBVIOUS
<1>2. IsSeq(keys) BY <1>1 DEF DictOK
<1>3. Len(keys) \in Nat /\ DOMAIN keys = 1..Len(keys) BY <1>2, SeqShape
<1>4. PICK f : Ends!Folds(f, listing, keys) /\ Ends!Fold(listing, keys) = f[Len(keys)]
  BY <1>3, Ends!FoldLeftSteps
<1>5. Ends!Fold(listing, keys) = EndAll(listing, options)
  <2>1. Ends!Fold(listing, listing.active.keys) = EndAll(listing, options)
    BY Zenon DEF EndAll, EndOne, Ends!Fold, Ends!FoldLeft, Ends!MapThenFoldSet,
       Ends!Max, FoldLeft, MapThenFoldSet, Max
  <2> QED BY <1>1, <2>1
<1>6. PICK before : before = listing.lines OBVIOUS
<1> DEFINE OK(i) ==
             /\ DOMAIN f[i] = ListFields /\ f[i].raised \in BOOLEAN
             /\ ~f[i].raised =>
                  /\ More(before, f[i].lines, i)
                  /\ \A j \in 1..i : f[i].lines[Len(before) + j] = keys[j]
           A == {i \in 0..Len(keys) : OK(i)}
<1>7. 0 \in A
  <2>1. f[0] = listing BY <1>4 DEF Ends!Folds
  <2>2. More(before, before, 0) BY <1>6, NoMore
  <2>3. listing.raised \in BOOLEAN OBVIOUS
  <2>4. \A j \in 1..0 : before[Len(before) + j] = keys[j] OBVIOUS
  <2>5. OK(0) BY <1>6, <2>1, <2>2, <2>3, <2>4
  <2> HIDE DEF OK
  <2> QED BY <1>3, <2>5
<1>8. ASSUME NEW i \in 1..Len(keys), i - 1 \in A PROVE i \in A
  <2>1. PICK l : l = f[i - 1] OBVIOUS
  <2>2. PICK m : m = f[i] OBVIOUS
  <2>3. PICK id : id = keys[i] OBVIOUS
  <2>4. PICK k \in Nat : k = i - 1 /\ k + 1 = i /\ \A j \in 1..i : j \in 1..k \/ j = i BY <1>3
  <2>5. /\ DOMAIN l = ListFields /\ l.raised \in BOOLEAN
        /\ ~l.raised => /\ More(before, l.lines, k)
                        /\ \A j \in 1..k : l.lines[Len(before) + j] = keys[j]
    BY <1>8, <2>1, <2>4
  <2>6. m = EndOne(l, id) BY <1>4, <2>1, <2>2, <2>3 DEF Ends!Folds
  <2>7. CASE l.raised
    <3>1. m = l BY <2>6, <2>7 DEF EndOne
    <3>2. OK(i) BY <2>2, <2>5, <2>7, <3>1
    <3> HIDE DEF OK
    <3> QED BY <1>3, <3>2
  <2>8. CASE ~l.raised
    <3>1. PICK times : times = options.times OBVIOUS
    <3>2. m = EndTest(l, id, times) BY <2>6, <2>8, <3>1 DEF EndOne
    <3>3. l.raised = FALSE BY <2>5, <2>8
    <3>4. DOMAIN m = ListFields /\ m.raised \in BOOLEAN BY <2>5, <3>2, <3>3, EndTestIs
    <3>5. m.raised \/ m.lines = Append(l.lines, id) BY <2>5, <3>2, <3>3, EndTestLines
    <3>6. CASE m.raised
      <4>1. OK(i) BY <2>2, <3>4, <3>6
      <4> HIDE DEF OK
      <4> QED BY <1>3, <4>1
    <3>7. CASE ~m.raised
      <4>1. PICK r : r = l.lines OBVIOUS
      <4>2. More(before, r, k) BY <2>5, <2>8, <4>1
      <4>3. OneMore(before, r, k, id, Append(r, id)) BY <1>6, <4>2, AppendMore
      <4>4. /\ More(before, m.lines, i)
            /\ \A j \in 1..k : m.lines[Len(before) + j] = r[Len(before) + j]
            /\ m.lines[Len(before) + i] = id
        BY <2>4, <3>5, <3>7, <4>1, <4>3 DEF OneMore
      <4>5. \A j \in 1..i : m.lines[Len(before) + j] = keys[j]
        BY <2>3, <2>4, <2>5, <2>8, <4>1, <4>4
      <4>6. OK(i) BY <2>2, <3>4, <4>4, <4>5
      <4> HIDE DEF OK
      <4> QED BY <1>3, <4>6
    <3> QED BY <3>6, <3>7
  <2> QED BY <2>7, <2>8
<1>9. Len(keys) \in A
  <2> HIDE DEF A
  <2> QED BY <1>3, <1>7, <1>8, Numbers!Upto
<1> QED BY <1>1, <1>4, <1>5, <1>6, <1>9 DEF Longer

-----------------------------------------------------------------------------
(* The accounts: the tests exported (x), the rows and the lines.            *)
Ran(x) == {i \in DOMAIN x : x[i].test.status # "exists"}
Listed(x) == IF options.exists THEN DOMAIN x ELSE Ran(x)
Ids(x) == [i \in DOMAIN x |-> x[i].test.id]
EndsOf(x) == [i \in DOMAIN x |-> <<x[i].test.id, Outcome(x[i].test.status)>>]
RowsOf(rows) == [j \in DOMAIN rows |-> <<rows[j].id, rows[j].status>>]
RowsAgree(x, rows) == Same(Ran(x), EndsOf(x), DOMAIN rows, RowsOf(rows))
LinesAgree(x, lines) == Same(Listed(x), Ids(x), DOMAIN lines, lines)

(* Two accounts f and g that are the same, f2 and g2 with n more each.      *)
BothGrow(I, f, m, l, g, f2, g2, n, p) ==
    /\ l \in Nat /\ m \in Nat /\ n \in Nat /\ I \subseteq 1..m
    /\ Same(I, f, 1..l, g) /\ Matching(p, 1..n, 1..n)
    /\ \A i \in I : f2[i] = f[i]
    /\ \A j \in 1..l : g2[j] = g[j]
    /\ \A i \in 1..n : f2[m + i] = g2[l + p[i]]

LEMMA SameGrows ==
  ASSUME NEW I, NEW f, NEW m, NEW l, NEW g, NEW f2, NEW g2, NEW n, NEW p,
         BothGrow(I, f, m, l, g, f2, g2, n, p)
  PROVE  Same(I \cup (m + 1 .. m + n), f2, 1 .. l + n, g2)
<1> USE DEF BothGrow
<1>1. Same(m + 1 .. m + n, f2, l + 1 .. l + n, g2) BY SameShifts
<1>2. I \cap (m + 1 .. m + n) = {} OBVIOUS
<1>3. (1..l) \cap (l + 1 .. l + n) = {} OBVIOUS
<1>4. (1..l) \cup (l + 1 .. l + n) = 1 .. l + n OBVIOUS
<1>5. PICK K : K = m + 1 .. m + n OBVIOUS
<1>6. PICK L : L = l + 1 .. l + n OBVIOUS
<1>7. PICK J : J = 1..l OBVIOUS
<1>8. Same(I \cup K, f2, J \cup L, g2) BY <1>1, <1>2, <1>3, <1>5, <1>6, <1>7, SameJoins
<1> QED BY <1>4, <1>5, <1>6, <1>7, <1>8

LEMMA SameAgain ==
  ASSUME NEW I, NEW f, NEW J, NEW g, Same(I, f, J, g), NEW f2, \A i \in I : f2[i] = f[i]
  PROVE  Same(I, f2, J, g)
BY DEF Same

(* What more says of the old and of the new.                                *)
LEMMA MoreIs ==
  ASSUME NEW s, IsSeq(s), NEW t, NEW n \in Nat, More(s, t, n)
  PROVE  /\ Len(s) \in Nat /\ DOMAIN s = 1..Len(s) /\ IsSeq(t)
         /\ DOMAIN t = 1 .. Len(s) + n
         /\ \A i \in 1..Len(s) : t[i] = s[i]
BY SeqShape DEF More

LEMMA RanGrows ==
  ASSUME NEW x, IsSeq(x), NEW y, NEW n \in Nat, More(x, y, n),
         \A i \in 1..n : y[Len(x) + i].test.status # "exists"
  PROVE  Ran(y) = Ran(x) \cup (Len(x) + 1 .. Len(x) + n)
<1>1. /\ Len(x) \in Nat /\ DOMAIN x = 1..Len(x) /\ DOMAIN y = 1 .. Len(x) + n
      /\ \A i \in 1..Len(x) : y[i] = x[i]
  BY MoreIs
<1>2. ASSUME NEW i \in Len(x) + 1 .. Len(x) + n PROVE i \in Ran(y)
  <2>1. PICK k \in 1..n : i = Len(x) + k
    <3>1. i - Len(x) \in 1..n /\ i = Len(x) + (i - Len(x)) BY <1>1
    <3> QED BY <3>1
  <2>2. i \in DOMAIN y BY <1>1
  <2>3. y[i].test.status # "exists" BY <2>1
  <2> QED BY <2>2, <2>3 DEF Ran
<1>3. \A i \in 1 .. Len(x) + n : i \in 1..Len(x) \/ i \in Len(x) + 1 .. Len(x) + n BY <1>1
<1>4. \A i \in 1..Len(x) : i \in Ran(y) <=> i \in Ran(x) BY <1>1 DEF Ran
<1>5. Ran(x) \subseteq 1..Len(x) /\ Ran(y) \subseteq 1 .. Len(x) + n BY <1>1 DEF Ran
<1> QED BY <1>1, <1>2, <1>3, <1>4, <1>5

LEMMA RowsGrow ==
  ASSUME NEW x, IsSeq(x), NEW rows, IsSeq(rows), RowsAgree(x, rows), NEW n \in Nat,
         NEW y, More(x, y, n), NEW r, More(rows, r, n),
         \A i \in 1..n : /\ y[Len(x) + i].test.status # "exists"
                         /\ r[Len(rows) + i].id = y[Len(x) + i].test.id
                         /\ r[Len(rows) + i].status = Outcome(y[Len(x) + i].test.status)
  PROVE  RowsAgree(y, r)
<1>1. /\ Len(x) \in Nat /\ DOMAIN x = 1..Len(x) /\ DOMAIN y = 1 .. Len(x) + n
      /\ \A i \in 1..Len(x) : y[i] = x[i]
  BY MoreIs
<1>2. /\ Len(rows) \in Nat /\ DOMAIN rows = 1..Len(rows) /\ DOMAIN r = 1 .. Len(rows) + n
      /\ \A i \in 1..Len(rows) : r[i] = rows[i]
  BY MoreIs
<1>3. PICK l \in Nat : l = Len(rows) BY <1>2
<1>4. PICK m \in Nat : m = Len(x) BY <1>1
<1>5. PICK I : I = Ran(x) OBVIOUS
<1>6. PICK f2 : f2 = EndsOf(y) OBVIOUS
<1>7. PICK g2 : g2 = RowsOf(r) OBVIOUS
<1>8. I \subseteq 1..m /\ Ran(y) = I \cup (m + 1 .. m + n)
  <2>1. I \subseteq 1..m BY <1>1, <1>4, <1>5 DEF Ran
  <2> QED BY <1>4, <1>5, <2>1, RanGrows
<1>9. \A i \in I : f2[i] = EndsOf(x)[i]
  <2>1. \A i \in 1..m : i \in DOMAIN x /\ i \in DOMAIN y BY <1>1, <1>4
  <2>2. \A i \in 1..m : f2[i] = EndsOf(x)[i] BY <1>1, <1>4, <1>6, <2>1 DEF EndsOf
  <2> QED BY <1>8, <2>2
<1>10. \A j \in 1..l : g2[j] = RowsOf(rows)[j]
  <2>1. \A j \in 1..l : j \in DOMAIN rows /\ j \in DOMAIN r BY <1>2, <1>3
  <2> QED BY <1>2, <1>3, <1>7, <2>1 DEF RowsOf
<1>11. PICK p : Matching(p, 1..n, 1..n) /\ \A i \in 1..n : p[i] = i BY Straight
<1>12. ASSUME NEW i \in 1..n PROVE f2[m + i] = g2[l + p[i]]
  <2>1. m + i \in DOMAIN y /\ l + i \in DOMAIN r BY <1>1, <1>2, <1>3, <1>4
  <2>2. f2[m + i] = <<y[m + i].test.id, Outcome(y[m + i].test.status)>>
    BY <1>6, <2>1 DEF EndsOf
  <2>3. g2[l + i] = <<r[l + i].id, r[l + i].status>> BY <1>7, <2>1 DEF RowsOf
  <2> QED BY <1>3, <1>4, <1>11, <2>2, <2>3
<1>13. Same(I, EndsOf(x), 1..l, RowsOf(rows)) BY <1>2, <1>3, <1>5 DEF RowsAgree
<1>14. BothGrow(I, EndsOf(x), m, l, RowsOf(rows), f2, g2, n, p)
  BY <1>8, <1>9, <1>10, <1>11, <1>12, <1>13 DEF BothGrow
<1>15. Same(I \cup (m + 1 .. m + n), f2, 1 .. l + n, g2) BY <1>14, SameGrows
<1> QED BY <1>2, <1>3, <1>6, <1>7, <1>8, <1>15 DEF RowsAgree

(* n tests more exported, and as many lines, in the order of p.             *)
LinesMore(x, y, lines, t, n, p) ==
    /\ IsSeq(x) /\ IsSeq(lines) /\ LinesAgree(x, lines)
    /\ n \in Nat /\ More(x, y, n) /\ More(lines, t, n)
    /\ options.exists \/ \A i \in 1..n : y[Len(x) + i].test.status # "exists"
    /\ Matching(p, 1..n, 1..n)
    /\ \A i \in 1..n : t[Len(lines) + p[i]] = y[Len(x) + i].test.id

LEMMA LinesGrow ==
  ASSUME NEW x, NEW y, NEW lines, NEW t, NEW n, NEW p, LinesMore(x, y, lines, t, n, p)
  PROVE  LinesAgree(y, t)
<1> USE DEF LinesMore
<1>1. /\ Len(x) \in Nat /\ DOMAIN x = 1..Len(x) /\ DOMAIN y = 1 .. Len(x) + n
      /\ \A i \in 1..Len(x) : y[i] = x[i]
  BY MoreIs
<1>2. /\ Len(lines) \in Nat /\ DOMAIN lines = 1..Len(lines) /\ DOMAIN t = 1 .. Len(lines) + n
      /\ \A i \in 1..Len(lines) : t[i] = lines[i]
  BY MoreIs
<1>3. PICK l \in Nat : l = Len(lines) BY <1>2
<1>4. PICK m \in Nat : m = Len(x) BY <1>1
<1>5. PICK I : I = Listed(x) OBVIOUS
<1>6. PICK f2 : f2 = Ids(y) OBVIOUS
<1>7. I \subseteq 1..m /\ Listed(y) = I \cup (m + 1 .. m + n)
  <2>1. I \subseteq 1..m BY <1>1, <1>4, <1>5 DEF Listed, Ran
  <2>2. CASE options.exists
    <3>1. Listed(y) = 1 .. m + n /\ I = 1..m BY <1>1, <1>4, <1>5, <2>2 DEF Listed
    <3>2. 1 .. m + n = (1..m) \cup (m + 1 .. m + n) OBVIOUS
    <3> QED BY <2>1, <3>1, <3>2
  <2>3. CASE ~options.exists
    <3>1. Listed(y) = Ran(y) /\ I = Ran(x) BY <1>5, <2>3 DEF Listed
    <3>2. Ran(y) = Ran(x) \cup (Len(x) + 1 .. Len(x) + n) BY <2>3, RanGrows
    <3> QED BY <1>4, <2>1, <3>1, <3>2
  <2> QED BY <2>2, <2>3
<1>8. \A i \in I : f2[i] = Ids(x)[i]
  <2>1. \A i \in 1..m : i \in DOMAIN x /\ i \in DOMAIN y BY <1>1, <1>4
  <2>2. \A i \in 1..m : f2[i] = Ids(x)[i] BY <1>1, <1>4, <1>6, <2>1 DEF Ids
  <2> QED BY <1>7, <2>2
<1>9. ASSUME NEW i \in 1..n PROVE f2[m + i] = t[l + p[i]]
  <2>1. m + i \in DOMAIN y BY <1>1, <1>4
  <2>2. f2[m + i] = y[m + i].test.id BY <1>6, <2>1 DEF Ids
  <2> QED BY <1>3, <1>4, <2>2
<1>10. Same(I, Ids(x), 1..l, lines) BY <1>2, <1>3, <1>5 DEF LinesAgree
<1>11. \A j \in 1..l : t[j] = lines[j] BY <1>2, <1>3
<1>12. BothGrow(I, Ids(x), m, l, lines, f2, t, n, p)
  BY <1>7, <1>8, <1>9, <1>10, <1>11 DEF BothGrow
<1>13. Same(I \cup (m + 1 .. m + n), f2, 1 .. l + n, t) BY <1>12, SameGrows
<1> QED BY <1>2, <1>3, <1>6, <1>7, <1>13 DEF LinesAgree

LEMMA OneLine ==
  ASSUME NEW x, IsSeq(x), NEW lines, IsSeq(lines), LinesAgree(x, lines),
         NEW y, More(x, y, 1), NEW t, More(lines, t, 1),
         options.exists \/ y[Len(x) + 1].test.status # "exists",
         t[Len(lines) + 1] = y[Len(x) + 1].test.id
  PROVE  LinesAgree(y, t)
<1>1. PICK n \in Nat : n = 1 OBVIOUS
<1>2. PICK p : Matching(p, 1..n, 1..n) /\ \A i \in 1..n : p[i] = i BY Straight
<1>3. \A i \in 1..n : i = 1 BY <1>1
<1>4. More(x, y, n) /\ More(lines, t, n) BY <1>1
<1>5. options.exists \/ \A i \in 1..n : y[Len(x) + i].test.status # "exists" BY <1>3
<1>6. \A i \in 1..n : t[Len(lines) + p[i]] = y[Len(x) + i].test.id BY <1>2, <1>3
<1>7. LinesMore(x, y, lines, t, n, p) BY <1>2, <1>4, <1>5, <1>6 DEF LinesMore
<1> QED BY <1>7, LinesGrow

LEMMA OneRow ==
  ASSUME NEW x, IsSeq(x), NEW rows, IsSeq(rows), RowsAgree(x, rows),
         NEW y, More(x, y, 1), NEW r, More(rows, r, 1),
         y[Len(x) + 1].test.status # "exists",
         r[Len(rows) + 1].id = y[Len(x) + 1].test.id,
         r[Len(rows) + 1].status = Outcome(y[Len(x) + 1].test.status)
  PROVE  RowsAgree(y, r)
<1>1. PICK n \in Nat : n = 1 OBVIOUS
<1>2. \A i \in 1..n : i = 1 BY <1>1
<1>3. More(x, y, n) /\ More(rows, r, n) BY <1>1
<1>4. \A i \in 1..n : /\ y[Len(x) + i].test.status # "exists"
                      /\ r[Len(rows) + i].id = y[Len(x) + i].test.id
                      /\ r[Len(rows) + i].status = Outcome(y[Len(x) + i].test.status)
  BY <1>2
<1> QED BY <1>3, <1>4, RowsGrow

(* A test that exists only is neither among those that ran nor in the CSV.  *)
LEMMA ExistsRuns ==
  ASSUME NEW x, IsSeq(x), NEW y, More(x, y, 1), y[Len(x) + 1].test.status = "exists"
  PROVE  /\ Ran(y) = Ran(x)
         /\ \A i \in Ran(x) : EndsOf(y)[i] = EndsOf(x)[i] /\ Ids(y)[i] = Ids(x)[i]
<1>1. /\ Len(x) \in Nat /\ DOMAIN x = 1..Len(x) /\ DOMAIN y = 1 .. Len(x) + 1
      /\ \A i \in 1..Len(x) : y[i] = x[i]
  BY MoreIs
<1>2. \A i \in 1 .. Len(x) + 1 : i \in 1..Len(x) \/ i = Len(x) + 1 BY <1>1
<1>3. \A i \in 1..Len(x) : i \in 1 .. Len(x) + 1 BY <1>1
<1>4. Ran(y) = Ran(x) BY <1>1, <1>2, <1>3 DEF Ran
<1>5. \A i \in Ran(x) : i \in DOMAIN x /\ i \in DOMAIN y /\ y[i] = x[i]
  BY <1>1, <1>3 DEF Ran
<1>6. \A i \in Ran(x) : EndsOf(y)[i] = EndsOf(x)[i] /\ Ids(y)[i] = Ids(x)[i]
  BY <1>5 DEF EndsOf, Ids
<1> QED BY <1>4, <1>6

LEMMA ExistsAgrees ==
  ASSUME NEW x, IsSeq(x), NEW y, More(x, y, 1), y[Len(x) + 1].test.status = "exists"
  PROVE  /\ \A rows : RowsAgree(x, rows) => RowsAgree(y, rows)
         /\ ~options.exists => \A lines : LinesAgree(x, lines) => LinesAgree(y, lines)
<1>1. /\ Ran(y) = Ran(x)
      /\ \A i \in Ran(x) : EndsOf(y)[i] = EndsOf(x)[i] /\ Ids(y)[i] = Ids(x)[i]
  BY ExistsRuns
<1>2. ASSUME NEW rows, RowsAgree(x, rows) PROVE RowsAgree(y, rows)
  <2>1. Same(Ran(x), EndsOf(y), DOMAIN rows, RowsOf(rows))
    BY <1>1, <1>2, SameAgain DEF RowsAgree
  <2> QED BY <1>1, <2>1 DEF RowsAgree
<1>3. ASSUME ~options.exists, NEW lines, LinesAgree(x, lines) PROVE LinesAgree(y, lines)
  <2>1. Listed(x) = Ran(x) /\ Listed(y) = Ran(x) BY <1>1, <1>3 DEF Listed
  <2>2. Same(Ran(x), Ids(x), DOMAIN lines, lines) BY <1>3, <2>1 DEF LinesAgree
  <2>3. Same(Ran(x), Ids(y), DOMAIN lines, lines) BY <1>1, <2>2, SameAgain
  <2> QED BY <2>1, <2>3 DEF LinesAgree
<1> QED BY <1>2, <1>3

-----------------------------------------------------------------------------
(* A test under way is one that was reported and, as long as no test under  *)
(* way is reported to exist, all of them have it.                           *)
Left == {"unknown", "inprogress"}
KnownTest(test, id) ==
    /\ {"id", "status", "stop"} \subseteq DOMAIN test
    /\ test.id = id /\ id # <<>> /\ test.status \in Left
Known(dict) == Mapping(dict) /\ \A id \in DOMAIN dict.value : KnownTest(dict.value[id], id)
Reported(id) ==
    \E m \in 1..at :
      stream[m].id = id /\ \A k \in m..at : stream[k].id = id => stream[k].status \in Interim
Accounts ==
    /\ \A i \in DOMAIN exported : exported[i].test.status \in Final \cup Left
    /\ RowsAgree(exported, tally.rows)
    /\ listing.raised \/ LinesAgree(exported, listing.lines)
AllTold ==
    /\ TallyOK(tally) /\ (listing.raised \/ IsSeq(listing.lines))
    /\ ~stopped => cases = tests /\ (listing.raised \/ SameKeys(listing.active, tests))
    /\ ~broken => Accounts
SameInv ==
    /\ Known(tests) /\ (~stopped => \A id \in DOMAIN tests.value : Reported(id))
    /\ ~ExistsUnderWay => AllTold

LEMMA NotedIs ==
  ASSUME NEW dict, Known(dict), NEW e, e.id # <<>>, e.status \in Final \cup Interim
  PROVE  /\ Noted(dict, e).id = e.id
         /\ e.status \notin Interim => Noted(dict, e).status = e.status
         /\ e.status \in Interim => KnownTest(Noted(dict, e), e.id)
<1>1. PICK t : t = IF Has(dict, e.id) THEN dict.value[e.id] ELSE Unknown(e) OBVIOUS
<1>2. {"id", "status", "stop"} \subseteq DOMAIN t /\ t.id = e.id /\ t.status \in Left
  <2>1. CASE Has(dict, e.id) BY <1>1, <2>1 DEF Has, Known, KnownTest
  <2>2. CASE ~Has(dict, e.id) BY <1>1, <2>2 DEF Unknown, Left
  <2> QED BY <2>1, <2>2
<1>3. PICK n : n = Noted(dict, e) OBVIOUS
<1>4. DOMAIN n = DOMAIN t /\ n.id = t.id /\ n.status = IF e.status = "none" THEN t.status ELSE e.status
  BY <1>1, <1>2, <1>3 DEF Noted
<1>5. e.status \in Interim => n.status \in Left BY <1>2, <1>4 DEF Interim, Left
<1>6. e.status \notin Interim => n.status = e.status BY <1>4 DEF Interim
<1> QED BY <1>2, <1>3, <1>4, <1>5, <1>6 DEF KnownTest

LEMMA PutKnown ==
  ASSUME NEW d, DictOK(d), Known(d), NEW k, NEW v, KnownTest(v, k) PROVE Known(Put(d, k, v))
<1>1. PICK p : p = Put(d, k, v) OBVIOUS
<1>2. /\ DOMAIN p.value = DOMAIN d.value \cup {k} /\ p.value[k] = v
      /\ \A j \in DOMAIN d.value : j # k => p.value[j] = d.value[j]
  BY <1>1, PutIs
<1>3. Mapping(p) BY <1>1 DEF Mapping, Put, Updated
<1> QED BY <1>1, <1>2, <1>3 DEF Known

LEMMA DropKnown ==
  ASSUME NEW d, DictOK(d), Known(d), NEW k PROVE Known(Drop(d, k))
<1>1. PICK p : p = Drop(d, k) OBVIOUS
<1>2. /\ DOMAIN p.value = DOMAIN d.value \ {k}
      /\ \A j \in DOMAIN d.value : j # k => p.value[j] = d.value[j]
  BY <1>1, DropIs
<1>3. Mapping(p) BY <1>1 DEF Mapping, Drop
<1> QED BY <1>1, <1>2, <1>3 DEF Known

(* The step that reads the event e.                                         *)
Reads(e) ==
    /\ at \in Nat /\ at + 1 \in DOMAIN stream /\ at' = at + 1
    /\ e.id = stream[at + 1].id /\ e.status = stream[at + 1].status
    /\ e.status \in Final \cup Interim
    /\ listing' = Status(listing, e, options)
    /\ tests' = Gather(tests, e) /\ Export(HandOut(tests, e))
    /\ e.status = "exists" => UNCHANGED <<cases, tally>>
    /\ e.status # "exists" =>
         cases' = Gather(cases, e) /\ tally' = FoldLeft(Told, tally, HandOut(cases, e))
    /\ UNCHANGED <<stream, options, stopped>> /\ ~stopped

LEMMA ReadIs == ASSUME RouteInv, WrittenInv, ListInv, Read PROVE \E e : Reads(e)
<1>1. PICK n : n = at + 1 OBVIOUS
<1>2. /\ at \in Nat /\ Len(stream) \in Nat /\ DOMAIN stream = 1..Len(stream)
      /\ n \in DOMAIN stream /\ at' = n /\ UNCHANGED <<stream, options, stopped>>
  BY <1>1, SeqShape DEF RouteInv, RunsInv, Read, outputVars
<1>3. PICK e : e = Tagged(stream[n]) OBVIOUS
<1>4. e.id = stream[n].id /\ e.status = stream[n].status
  BY <1>2, <1>3 DEF Tagged, RouteInv, EventOK
<1>5. e.status \in Final \cup Interim BY <1>2, <1>4 DEF WrittenInv
<1>6. ~stopped
  <2>1. at < Len(stream) BY DEF Read
  <2>2. at \in Nat /\ Len(stream) \in Nat BY SeqShape DEF RouteInv, RunsInv
  <2>3. at # Len(stream) BY <2>1, <2>2
  <2> QED BY <2>3 DEF ListInv
<1>7. ReadResult(e, options) /\ tests' = Gather(tests, e) /\ Export(HandOut(tests, e))
  BY <1>2, <1>3 DEF Read
<1>8. Reads(e) BY <1>1, <1>2, <1>4, <1>5, <1>6, <1>7 DEF Reads, ReadResult
<1> QED BY <1>8

(* What is known of the tests under way stays true.                         *)
LEMMA ReadKnown ==
  ASSUME DictOK(tests), ListInv, SameInv, NEW e, Reads(e)
  PROVE  Known(tests') /\ \A id \in DOMAIN tests'.value : Reported(id)'
<1>1. /\ at \in Nat /\ at' = at + 1 /\ stream' = stream /\ ~stopped
      /\ e.id = stream[at + 1].id /\ e.status = stream[at + 1].status
      /\ e.status \in Final \cup Interim /\ tests' = Gather(tests, e)
  BY DEF Reads
<1>2. Known(tests) /\ \A id \in DOMAIN tests.value : Reported(id) BY <1>1 DEF SameInv
<1>3. ASSUME NEW id, Reported(id), e.id # id \/ e.status \in Interim PROVE Reported(id)'
  <2>1. PICK m \in 1..at :
          stream[m].id = id /\ \A k \in m..at : stream[k].id = id => stream[k].status \in Interim
    BY <1>3 DEF Reported
  <2>2. m \in 1 .. at + 1 /\ \A k \in m .. at + 1 : k \in m..at \/ k = at + 1 BY <1>1
  <2> QED BY <1>1, <1>3, <2>1, <2>2 DEF Reported
<1>4. CASE e.id = <<>>
  <2>1. tests' = tests BY <1>1, <1>4 DEF Gather
  <2>2. \A id \in DOMAIN tests.value : id # <<>> BY <1>2 DEF Known, KnownTest
  <2> QED BY <1>2, <1>3, <1>4, <2>1, <2>2
<1>5. CASE e.id # <<>> /\ e.status \in Interim
  <2>1. PICK t : t = Noted(tests, e) OBVIOUS
  <2>2. PICK id : id = e.id OBVIOUS
  <2>3. tests' = Put(tests, id, t) BY <1>1, <1>5, <2>1, <2>2 DEF Gather
  <2>4. KnownTest(t, id) BY <1>1, <1>2, <1>5, <2>1, <2>2, NotedIs
  <2>5. Known(tests') BY <1>2, <2>3, <2>4, PutKnown
  <2>6. DOMAIN tests'.value = DOMAIN tests.value \cup {id} BY <2>3, PutIs
  <2>7. Reported(id)'
    <3>1. at + 1 \in 1 .. at + 1 /\ \A k \in at + 1 .. at + 1 : k = at + 1 BY <1>1
    <3> QED BY <1>1, <1>5, <2>2, <3>1 DEF Reported
  <2> QED BY <1>2, <1>3, <1>5, <2>5, <2>6, <2>7
<1>6. CASE e.id # <<>> /\ e.status \notin Interim
  <2>1. PICK id : id = e.id OBVIOUS
  <2>2. tests' = Drop(tests, id) BY <1>1, <1>6, <2>1 DEF Gather
  <2>3. Known(tests') BY <1>2, <2>2, DropKnown
  <2>4. DOMAIN tests'.value = DOMAIN tests.value \ {id} BY <2>2, DropIs
  <2> QED BY <1>2, <1>3, <2>1, <2>3, <2>4
<1> QED BY <1>4, <1>5, <1>6

(* One test is handed out.                                                  *)
LEMMA OneSeq == ASSUME NEW t PROVE IsSeq(<<t>>) /\ Len(<<t>>) = 1 /\ <<t>>[1] = t
<1>1. <<t>> \in Seq({t}) OBVIOUS
<1> QED BY <1>1 DEF IsSeq

LEMMA ExportedOne ==
  ASSUME NEW t, Export(<<t>>), IsSeq(exported), ~broken'
  PROVE  /\ ~broken /\ More(exported, exported', 1)
         /\ exported'[Len(exported) + 1].test = t
<1>1. PICK s : s = <<t>> OBVIOUS
<1>2. IsSeq(s) /\ Len(s) = 1 /\ s[1] = t BY <1>1, OneSeq
<1>3. /\ ~broken /\ More(exported, exported', Len(s))
      /\ \A i \in 1..Len(s) : exported'[Len(exported) + i].test = s[i]
  BY <1>1, <1>2, ExportAll
<1> QED BY <1>2, <1>3

LEMMA ToldOne ==
  ASSUME NEW t, TallyOK(tally), tally' = FoldLeft(Told, tally, <<t>>)
  PROVE  /\ TallyOK(tally') /\ More(tally.rows, tally'.rows, 1)
         /\ tally'.rows[Len(tally.rows) + 1].id = t.id
         /\ tally'.rows[Len(tally.rows) + 1].status = Outcome(t.status)
<1>1. PICK s : s = <<t>> OBVIOUS
<1>2. IsSeq(s) /\ Len(s) = 1 /\ s[1] = t BY <1>1, OneSeq
<1>3. /\ TallyOK(tally') /\ More(tally.rows, tally'.rows, Len(s))
      /\ \A i \in 1..Len(s) : /\ tally'.rows[Len(tally.rows) + i].id = s[i].id
                              /\ tally'.rows[Len(tally.rows) + i].status = Outcome(s[i].status)
  BY <1>1, <1>2, TellAll
<1> QED BY <1>2, <1>3

LEMMA LineMore ==
  ASSUME NEW lines, IsSeq(lines), NEW id
  PROVE  /\ More(lines, Append(lines, id), 1)
         /\ Append(lines, id)[Len(lines) + 1] = id
<1>1. PICK z \in Nat : z = 0 /\ z + 1 = 1 OBVIOUS
<1>2. More(lines, lines, z) BY <1>1, NoMore
<1>3. OneMore(lines, lines, z, id, Append(lines, id)) BY <1>2, AppendMore
<1> QED BY <1>1, <1>3 DEF OneMore

(* Which tests are listed depends on the options, and these stay.           *)
LEMMA OptionsStay ==
  ASSUME UNCHANGED options, NEW x, NEW lines PROVE LinesAgree(x, lines)' <=> LinesAgree(x, lines)
BY DEF LinesAgree, Listed
(* A packet that ends no test.                                              *)
LEMMA ReadNoEnd ==
  ASSUME TagsInv, ListInv, AllTold, NEW e, Reads(e), e.id = <<>> \/ e.status \in Interim
  PROVE  AllTold'
<1>1. /\ ~stopped /\ UNCHANGED <<options, stopped>> /\ listing' = Status(listing, e, options)
      /\ tests' = Gather(tests, e) /\ Export(HandOut(tests, e))
      /\ e.status \in Final \cup Interim
  BY DEF Reads
<1>2. cases = tests /\ (listing.raised \/ SameKeys(listing.active, tests))
  BY <1>1 DEF AllTold
<1>3. HandOut(tests, e) = <<>> /\ HandOut(cases, e) = <<>> BY DEF HandOut
<1>4. UNCHANGED <<exported, broken>> BY <1>1, <1>3, ExportNone
<1>5. UNCHANGED tally
  <2>1. CASE e.status = "exists" BY <2>1 DEF Reads
  <2>2. CASE e.status # "exists" BY <1>3, <2>2, TellNone DEF Reads
  <2> QED BY <2>1, <2>2
<1>6. cases' = tests'
  <2>1. CASE e.status = "exists"
    <3>1. e.id = <<>> BY <2>1 DEF Interim
    <3>2. tests' = tests BY <1>1, <3>1 DEF Gather
    <3> QED BY <1>2, <2>1, <3>2 DEF Reads
  <2>2. CASE e.status # "exists" BY <1>1, <1>2, <2>2 DEF Reads
  <2> QED BY <2>1, <2>2
<1>7. /\ listing.raised => listing'.raised
      /\ ~listing.raised => /\ listing'.lines = listing.lines
                            /\ SameKeys(listing'.active, tests')
  <2>1. CASE listing.raised BY <1>1, <2>1 DEF Status
  <2>2. CASE ~listing.raised /\ e.id = <<>>
    <3>1. listing' = listing /\ tests' = tests BY <1>1, <2>2 DEF Status, Gather
    <3> QED BY <1>2, <2>2, <3>1
  <2>3. CASE ~listing.raised /\ e.id # <<>>
    <3>1. PICK list : list = listing OBVIOUS
    <3>2. PICK l : l = listing' OBVIOUS
    <3>3. PICK id : id = e.id OBVIOUS
    <3>4. DOMAIN list = ListFields /\ list.raised = FALSE BY <2>3, <3>1 DEF ListInv
    <3>5. l = Status(list, e, options) BY <1>1, <3>1, <3>2
    <3>6. l.lines = list.lines BY <2>3, <3>4, <3>5, StatusLines
    <3>7. l.active = Put(list.active, id, TimeAt(list, e))
      BY <1>1, <2>3, <3>3, <3>4, <3>5, StatusIs
    <3>8. tests' = Put(tests, id, Noted(tests, e)) BY <1>1, <2>3, <3>3 DEF Gather
    <3>9. SameKeys(l.active, tests') BY <1>2, <2>3, <3>1, <3>7, <3>8, PutKeys
    <3> QED BY <2>3, <3>1, <3>2, <3>6, <3>9
  <2> QED BY <2>1, <2>2, <2>3
<1>8. Accounts => Accounts' BY <1>1, <1>4, <1>5, <1>7, OptionsStay DEF Accounts
<1>9. TallyOK(tally)' /\ (listing.raised \/ IsSeq(listing.lines))'
  BY <1>5, <1>7 DEF AllTold
<1> QED BY <1>1, <1>4, <1>6, <1>7, <1>8, <1>9 DEF AllTold

(* A packet that says that a test exists which is not under way.            *)
LEMMA ReadExists ==
  ASSUME TagsInv, ListInv, AllTold, Known(tests), NEW e, Reads(e), e.id # <<>>,
         e.status = "exists", e.id \notin DOMAIN tests.value
  PROVE  AllTold'
<1>1. /\ ~stopped /\ UNCHANGED <<options, stopped, cases, tally>>
      /\ listing' = Status(listing, e, options)
      /\ tests' = Gather(tests, e) /\ Export(HandOut(tests, e))
  BY DEF Reads
<1>2. /\ cases = tests /\ (listing.raised \/ SameKeys(listing.active, tests))
      /\ (listing.raised \/ IsSeq(listing.lines)) /\ TallyOK(tally)
  BY <1>1 DEF AllTold
<1>3. e.status \notin Interim /\ e.status \in Final \cup Interim BY DEF Interim, Final
<1>4. PICK t : t = Noted(tests, e) OBVIOUS
<1>5. t.status = "exists" /\ t.id = e.id BY <1>3, <1>4, NotedIs
<1>6. HandOut(tests, e) = <<t>> BY <1>3, <1>4 DEF HandOut
<1>7. tests' = tests
  <2>1. tests' = Drop(tests, e.id) BY <1>1, <1>3 DEF Gather
  <2>2. PICK id : id = e.id OBVIOUS
  <2>3. Drop(tests, id) = tests BY <2>2, DropNothing DEF TagsInv, Known
  <2> QED BY <2>1, <2>2, <2>3
<1>8. /\ listing.raised => listing'.raised
      /\ ~listing.raised =>
           /\ listing'.active = listing.active
           /\ options.exists => listing'.raised \/ listing'.lines = Append(listing.lines, e.id)
           /\ ~options.exists => listing'.lines = listing.lines
  <2>1. CASE listing.raised BY <1>1, <2>1 DEF Status
  <2>2. CASE ~listing.raised
    <3>1. PICK list : list = listing OBVIOUS
    <3>2. PICK l : l = listing' OBVIOUS
    <3>3. PICK id : id = e.id OBVIOUS
    <3>4. DOMAIN list = ListFields /\ list.raised = FALSE BY <2>2, <3>1 DEF ListInv
    <3>5. l = Status(list, e, options) BY <1>1, <3>1, <3>2
    <3>6. l.active = list.active BY <1>3, <3>4, <3>5, StatusIs
    <3>7. /\ ~options.exists => l.lines = list.lines
          /\ options.exists => l.raised \/ l.lines = Append(list.lines, id)
      BY <3>3, <3>4, <3>5, StatusLines
    <3> QED BY <2>2, <3>1, <3>2, <3>3, <3>6, <3>7
  <2> QED BY <2>1, <2>2
<1>9. (listing.raised \/ IsSeq(listing.lines))'
  <2>1. IsSeq(listing.lines) => IsSeq(Append(listing.lines, e.id)) BY AppendShape
  <2> QED BY <1>2, <1>8, <2>1
<1>10. ASSUME ~broken' PROVE Accounts'
  <2>1. /\ ~broken /\ More(exported, exported', 1)
        /\ exported'[Len(exported) + 1].test = t
    BY <1>1, <1>6, <1>10, ExportedOne DEF TagsInv
  <2>2. Accounts BY <2>1 DEF AllTold
  <2>3. PICK x : x = exported OBVIOUS
  <2>4. PICK y : y = exported' OBVIOUS
  <2>5. IsSeq(x) /\ More(x, y, 1) /\ y[Len(x) + 1].test = t BY <2>1, <2>3, <2>4 DEF TagsInv
  <2>6. /\ Len(x) \in Nat /\ DOMAIN x = 1..Len(x) /\ DOMAIN y = 1 .. Len(x) + 1
        /\ \A i \in 1..Len(x) : y[i] = x[i]
    BY <2>5, MoreIs
  <2>7. \A i \in DOMAIN y : y[i].test.status \in Final \cup Left
    <3>1. \A i \in 1 .. Len(x) + 1 : i \in 1..Len(x) \/ i = Len(x) + 1 BY <2>6
    <3>2. t.status \in Final BY <1>5 DEF Final
    <3>3. \A i \in 1..Len(x) : x[i].test.status \in Final \cup Left
      BY <2>2, <2>3, <2>6 DEF Accounts
    <3> QED BY <2>5, <2>6, <3>1, <3>2, <3>3
  <2>8. /\ \A rows : RowsAgree(x, rows) => RowsAgree(y, rows)
        /\ ~options.exists => \A lines : LinesAgree(x, lines) => LinesAgree(y, lines)
    BY <1>5, <2>5, ExistsAgrees
  <2>9. RowsAgree(y, tally.rows) BY <2>2, <2>3, <2>8 DEF Accounts
  <2>10. ASSUME ~listing'.raised PROVE LinesAgree(y, listing'.lines)
    <3>1. ~listing.raised /\ LinesAgree(x, listing.lines) /\ IsSeq(listing.lines)
      BY <1>2, <1>8, <2>2, <2>3, <2>10 DEF Accounts
    <3>2. CASE ~options.exists BY <1>8, <2>8, <3>1, <3>2
    <3>3. CASE options.exists
      <4>1. PICK before : before = listing.lines OBVIOUS
      <4>2. PICK lines : lines = listing'.lines OBVIOUS
      <4>3. PICK id : id = e.id OBVIOUS
      <4>4. lines = Append(before, id) BY <1>8, <2>10, <3>1, <3>3, <4>1, <4>2, <4>3
      <4>5. IsSeq(before) BY <3>1, <4>1
      <4>6. More(before, lines, 1) /\ lines[Len(before) + 1] = id BY <4>4, <4>5, LineMore
      <4>9. LinesAgree(x, before) BY <3>1, <4>1
      <4>10. y[Len(x) + 1].test.id = id BY <1>5, <2>5, <4>3
      <4>11. LinesAgree(y, lines) BY <2>5, <3>3, <4>5, <4>6, <4>9, <4>10, OneLine
      <4> QED BY <4>2, <4>11
    <3> QED BY <3>2, <3>3
  <2>11. RowsAgree(exported, tally.rows)' BY <1>1, <2>4, <2>9
  <2>12. (listing.raised \/ LinesAgree(exported, listing.lines))'
    BY <1>1, <2>4, <2>10, OptionsStay DEF LinesAgree, Listed
  <2> QED BY <2>4, <2>7, <2>11, <2>12 DEF Accounts
<1> QED BY <1>1, <1>2, <1>7, <1>8, <1>9, <1>10 DEF AllTold
(* A packet that ends a test.                                               *)
LEMMA ReadEnd ==
  ASSUME TagsInv, ListInv, AllTold, Known(tests), NEW e, Reads(e), e.id # <<>>,
         e.status \notin Interim \cup {"exists"}
  PROVE  AllTold'
<1>1. /\ ~stopped /\ UNCHANGED <<options, stopped>> /\ e.status \in Final \cup Interim
      /\ listing' = Status(listing, e, options)
      /\ tests' = Gather(tests, e) /\ Export(HandOut(tests, e))
      /\ cases' = Gather(cases, e) /\ tally' = FoldLeft(Told, tally, HandOut(cases, e))
  BY DEF Reads
<1>2. /\ cases = tests /\ (listing.raised \/ SameKeys(listing.active, tests))
      /\ (listing.raised \/ IsSeq(listing.lines)) /\ TallyOK(tally)
  BY <1>1 DEF AllTold
<1>3. e.status \notin Interim /\ e.status # "exists" /\ e.status \in Final BY <1>1
<1>4. PICK t : t = Noted(tests, e) OBVIOUS
<1>5. t.status = e.status /\ t.id = e.id BY <1>1, <1>3, <1>4, NotedIs
<1>6. HandOut(tests, e) = <<t>> /\ HandOut(cases, e) = <<t>> BY <1>2, <1>3, <1>4 DEF HandOut
<1>7. tests' = Drop(tests, e.id) /\ cases' = tests' BY <1>1, <1>2, <1>3 DEF Gather
<1>8. /\ listing.raised => listing'.raised
      /\ ~listing.raised =>
           /\ listing'.active = Drop(listing.active, e.id)
           /\ listing'.raised \/ listing'.lines = Append(listing.lines, e.id)
  <2>1. CASE listing.raised BY <1>1, <2>1 DEF Status
  <2>2. CASE ~listing.raised
    <3>1. PICK list : list = listing OBVIOUS
    <3>2. PICK l : l = listing' OBVIOUS
    <3>3. PICK id : id = e.id OBVIOUS
    <3>4. DOMAIN list = ListFields /\ list.raised = FALSE BY <2>2, <3>1 DEF ListInv
    <3>5. l = Status(list, e, options) BY <1>1, <3>1, <3>2
    <3>6. l.active = Drop(list.active, id) BY <1>1, <3>3, <3>4, <3>5, StatusIs
    <3>7. l.raised \/ l.lines = Append(list.lines, id) BY <3>3, <3>4, <3>5, StatusLines
    <3> QED BY <2>2, <3>1, <3>2, <3>3, <3>6, <3>7
  <2> QED BY <2>1, <2>2
<1>9. (listing.raised \/ IsSeq(listing.lines))'
  <2>1. IsSeq(listing.lines) => IsSeq(Append(listing.lines, e.id)) BY AppendShape
  <2> QED BY <1>2, <1>8, <2>1
<1>10. listing'.raised \/ SameKeys(listing'.active, tests')
  <2>1. PICK a : a = listing.active OBVIOUS
  <2>2. PICK id : id = e.id OBVIOUS
  <2>3. SameKeys(a, tests) => SameKeys(Drop(a, id), Drop(tests, id)) BY DropKeys
  <2> QED BY <1>2, <1>7, <1>8, <2>1, <2>2, <2>3
<1>11. /\ TallyOK(tally') /\ More(tally.rows, tally'.rows, 1)
       /\ tally'.rows[Len(tally.rows) + 1].id = t.id
       /\ tally'.rows[Len(tally.rows) + 1].status = Outcome(t.status)
  BY <1>1, <1>2, <1>6, ToldOne
<1>12. ASSUME ~broken' PROVE Accounts'
  <2>1. /\ ~broken /\ More(exported, exported', 1)
        /\ exported'[Len(exported) + 1].test = t
    BY <1>1, <1>6, <1>12, ExportedOne DEF TagsInv
  <2>2. Accounts BY <2>1 DEF AllTold
  <2>3. PICK x : x = exported OBVIOUS
  <2>4. PICK y : y = exported' OBVIOUS
  <2>5. IsSeq(x) /\ More(x, y, 1) /\ y[Len(x) + 1].test = t BY <2>1, <2>3, <2>4 DEF TagsInv
  <2>6. /\ Len(x) \in Nat /\ DOMAIN x = 1..Len(x) /\ DOMAIN y = 1 .. Len(x) + 1
        /\ \A i \in 1..Len(x) : y[i] = x[i]
    BY <2>5, MoreIs
  <2>7. \A i \in DOMAIN y : y[i].test.status \in Final \cup Left
    <3>1. \A i \in 1 .. Len(x) + 1 : i \in 1..Len(x) \/ i = Len(x) + 1 BY <2>6
    <3>2. t.status \in Final BY <1>3, <1>5
    <3>3. \A i \in 1..Len(x) : x[i].test.status \in Final \cup Left
      BY <2>2, <2>3, <2>6 DEF Accounts
    <3> QED BY <2>5, <2>6, <3>1, <3>2, <3>3
  <2>8. y[Len(x) + 1].test.status # "exists" BY <1>3, <1>5, <2>5
  <2>9. RowsAgree(y, tally'.rows)
    <3>1. PICK rows : rows = tally.rows OBVIOUS
    <3>2. PICK r : r = tally'.rows OBVIOUS
    <3>3. IsSeq(rows) /\ RowsAgree(x, rows)
      BY <1>2, <2>2, <2>3, <3>1 DEF Accounts, TallyOK
    <3>4. /\ More(rows, r, 1) /\ r[Len(rows) + 1].id = y[Len(x) + 1].test.id
          /\ r[Len(rows) + 1].status = Outcome(y[Len(x) + 1].test.status)
      BY <1>11, <2>5, <3>1, <3>2
    <3>5. RowsAgree(y, r) BY <2>5, <2>8, <3>3, <3>4, OneRow
    <3> QED BY <3>2, <3>5
  <2>10. ASSUME ~listing'.raised PROVE LinesAgree(y, listing'.lines)
    <3>1. ~listing.raised /\ LinesAgree(x, listing.lines) /\ IsSeq(listing.lines)
      BY <1>2, <1>8, <2>2, <2>3, <2>10 DEF Accounts
    <3>2. PICK before : before = listing.lines OBVIOUS
    <3>3. PICK lines : lines = listing'.lines OBVIOUS
    <3>4. PICK id : id = e.id OBVIOUS
    <3>5. lines = Append(before, id) BY <1>8, <2>10, <3>1, <3>2, <3>3, <3>4
    <3>6. IsSeq(before) /\ LinesAgree(x, before) BY <3>1, <3>2
    <3>7. More(before, lines, 1) /\ lines[Len(before) + 1] = id BY <3>5, <3>6, LineMore
    <3>8. y[Len(x) + 1].test.id = id BY <1>5, <2>5, <3>4
    <3>9. LinesAgree(y, lines) BY <2>5, <2>8, <3>6, <3>7, <3>8, OneLine
    <3> QED BY <3>3, <3>9
  <2>11. RowsAgree(exported, tally.rows)' BY <2>4, <2>9
  <2>12. (listing.raised \/ LinesAgree(exported, listing.lines))'
    BY <1>1, <2>4, <2>10 DEF LinesAgree, Listed
  <2> QED BY <2>4, <2>7, <2>11, <2>12 DEF Accounts
<1> QED BY <1>1, <1>7, <1>9, <1>10, <1>11, <1>12 DEF AllTold

LEMMA ReadSame == ASSUME RouteInv, WrittenInv, TagsInv, ListInv, SameInv, Read PROVE SameInv'
<1>1. PICK e : Reads(e) BY ReadIs
<1>2. /\ at \in Nat /\ at + 1 \in DOMAIN stream /\ UNCHANGED <<stream, stopped>> /\ ~stopped
      /\ e.id = stream[at + 1].id /\ e.status = stream[at + 1].status
  BY <1>1 DEF Reads
<1>3. DictOK(tests) /\ Known(tests) BY DEF TagsInv, SameInv
<1>4. Known(tests') /\ \A id \in DOMAIN tests'.value : Reported(id)' BY <1>1, <1>3, ReadKnown
<1>5. ASSUME ~ExistsUnderWay PROVE AllTold'
  <2>1. AllTold BY <1>5 DEF SameInv
  <2>2. CASE e.id = <<>> \/ e.status \in Interim BY <1>1, <2>1, <2>2, ReadNoEnd
  <2>3. CASE e.id # <<>> /\ e.status = "exists"
    <3>1. ASSUME e.id \in DOMAIN tests.value PROVE FALSE
      <4>1. PICK m \in 1..at :
              /\ stream[m].id = e.id
              /\ \A k \in m..at : stream[k].id = e.id => stream[k].status \in Interim
        BY <1>2, <3>1 DEF SameInv, Reported
      <4>2. PICK n : n = at + 1 OBVIOUS
      <4>3. DOMAIN stream = 1..Len(stream) /\ Len(stream) \in Nat
        BY SeqShape DEF RouteInv, RunsInv
      <4>4. m \in DOMAIN stream /\ n \in DOMAIN stream /\ m < n /\ n - 1 = at
        BY <1>2, <4>2, <4>3
      <4>5. stream[n].status = "exists" /\ stream[m].id = stream[n].id
        BY <1>2, <2>3, <4>1, <4>2
      <4>6. \A k \in m..n - 1 : stream[k].id = stream[n].id => stream[k].status \in Interim
        BY <1>2, <4>1, <4>2, <4>4
      <4>7. ExistsUnderWay BY <4>4, <4>5, <4>6 DEF ExistsUnderWay
      <4> QED BY <1>5, <4>7
    <3> QED BY <1>1, <1>3, <2>1, <2>3, <3>1, ReadExists
  <2>4. CASE e.id # <<>> /\ e.status \notin Interim \cup {"exists"}
    BY <1>1, <1>3, <2>1, <2>4, ReadEnd
  <2> QED BY <2>2, <2>3, <2>4
<1>6. ExistsUnderWay' <=> ExistsUnderWay BY <1>2 DEF ExistsUnderWay
<1> QED BY <1>4, <1>5, <1>6 DEF SameInv
(* stopTestRun() hands out what is left: to subunit2disk and to the others  *)
(* the last test first, to subunit-ls the first.                            *)
LEMMA StopAccounts ==
  ASSUME TagsInv, ListInv, AllTold, Known(tests), Stop PROVE AllTold'
<1>1. /\ ~stopped /\ stopped' /\ UNCHANGED options
      /\ listing' = IF listing.raised THEN listing ELSE EndAll(listing, options)
      /\ Export(Leftovers(tests)) /\ tally' = FoldLeft(Told, tally, Leftovers(cases))
  BY DEF Stop, StopResult
<1>2. /\ cases = tests /\ (listing.raised \/ SameKeys(listing.active, tests))
      /\ (listing.raised \/ IsSeq(listing.lines)) /\ TallyOK(tally)
  BY <1>1 DEF AllTold
<1>3. PICK s : s = Leftovers(tests) OBVIOUS
<1>4. DictOK(tests) BY DEF TagsInv
<1>5. Backwards(tests, s) BY <1>3, <1>4, LeftoversList
<1>6. PICK n \in Nat : n = Len(s) /\ n = Len(tests.keys) /\ IsSeq(s)
  BY <1>5, SeqShape DEF Backwards
<1>7. ASSUME NEW i \in 1..n
      PROVE  s[i].id = tests.keys[(n - i) + 1] /\ s[i].status \in Left
  <2>1. PICK k : k = tests.keys[(n - i) + 1] OBVIOUS
  <2>2. k \in DOMAIN tests.value /\ s[i] = [tests.value[k] EXCEPT !.stop = 0]
    BY <1>5, <1>6, <2>1 DEF Backwards
  <2>3. PICK test : test = tests.value[k] OBVIOUS
  <2>4. KnownTest(test, k) BY <2>2, <2>3 DEF Known
  <2>5. s[i].id = test.id /\ s[i].status = test.status BY <2>2, <2>3, <2>4 DEF KnownTest
  <2> QED BY <2>1, <2>4, <2>5 DEF KnownTest
<1>8. /\ TallyOK(tally') /\ More(tally.rows, tally'.rows, n)
      /\ \A i \in 1..n : /\ tally'.rows[Len(tally.rows) + i].id = s[i].id
                         /\ tally'.rows[Len(tally.rows) + i].status = Outcome(s[i].status)
  <2>1. tally' = FoldLeft(Told, tally, s) BY <1>1, <1>2, <1>3
  <2>2. /\ TallyOK(tally') /\ More(tally.rows, tally'.rows, Len(s))
        /\ \A i \in 1..Len(s) : /\ tally'.rows[Len(tally.rows) + i].id = s[i].id
                                /\ tally'.rows[Len(tally.rows) + i].status = Outcome(s[i].status)
    BY <1>2, <1>6, <2>1, TellAll
  <2> QED BY <1>6, <2>2
<1>9. listing.raised => listing'.raised BY <1>1
<1>10. ASSUME ~listing'.raised
       PROVE  /\ IsSeq(listing.lines) /\ More(listing.lines, listing'.lines, n)
              /\ \A i \in 1..n : listing'.lines[Len(listing.lines) + i] = tests.keys[i]
  <2>1. ~listing.raised /\ listing' = EndAll(listing, options) BY <1>1, <1>10
  <2>2. /\ IsSeq(listing.lines) /\ DOMAIN listing = ListFields /\ listing.raised = FALSE
        /\ DictOK(listing.active) /\ listing.active.keys = tests.keys
    BY <1>1, <1>2, <2>1 DEF ListInv, Listing, SameKeys
  <2>3. Longer(listing.lines, listing'.lines, tests.keys) BY <1>10, <2>1, <2>2, EndLines
  <2> QED BY <1>6, <2>2, <2>3 DEF Longer
<1>11. (listing.raised \/ IsSeq(listing.lines))' BY <1>10 DEF More
<1>12. ASSUME ~broken' PROVE Accounts'
  <2>1. /\ ~broken /\ More(exported, exported', n)
        /\ \A i \in 1..n : exported'[Len(exported) + i].test = s[i]
    <3>1. Export(s) /\ IsSeq(exported) BY <1>1, <1>3 DEF TagsInv
    <3>2. /\ ~broken /\ More(exported, exported', Len(s))
          /\ \A i \in 1..Len(s) : exported'[Len(exported) + i].test = s[i]
      BY <1>6, <1>12, <3>1, ExportAll
    <3> QED BY <1>6, <3>2
  <2>2. Accounts BY <2>1 DEF AllTold
  <2>3. PICK x : x = exported OBVIOUS
  <2>4. PICK y : y = exported' OBVIOUS
  <2>5. IsSeq(x) /\ More(x, y, n) /\ \A i \in 1..n : y[Len(x) + i].test = s[i]
    BY <2>1, <2>3, <2>4 DEF TagsInv
  <2>6. /\ Len(x) \in Nat /\ DOMAIN x = 1..Len(x) /\ DOMAIN y = 1 .. Len(x) + n
        /\ \A i \in 1..Len(x) : y[i] = x[i]
    BY <2>5, MoreIs
  <2>7. \A i \in 1..n : y[Len(x) + i].test.status # "exists" BY <1>7, <2>5 DEF Left
  <2>8. ASSUME NEW i \in DOMAIN y PROVE y[i].test.status \in Final \cup Left
    <3>1. CASE i \in 1..Len(x) BY <2>2, <2>3, <2>6, <3>1 DEF Accounts
    <3>2. CASE i \notin 1..Len(x)
      <4>1. PICK k \in 1..n : i = Len(x) + k
        <5>1. i - Len(x) \in 1..n /\ i = Len(x) + (i - Len(x)) BY <2>6, <2>8, <3>2
        <5> QED BY <5>1
      <4> QED BY <1>7, <2>5, <4>1
    <3> QED BY <3>1, <3>2
  <2>9. RowsAgree(y, tally'.rows)
    <3>1. PICK rows : rows = tally.rows OBVIOUS
    <3>2. PICK r : r = tally'.rows OBVIOUS
    <3>3. IsSeq(rows) /\ RowsAgree(x, rows)
      BY <1>2, <2>2, <2>3, <3>1 DEF Accounts, TallyOK
    <3>4. /\ More(rows, r, n)
          /\ \A i \in 1..n : /\ y[Len(x) + i].test.status # "exists"
                             /\ r[Len(rows) + i].id = y[Len(x) + i].test.id
                             /\ r[Len(rows) + i].status = Outcome(y[Len(x) + i].test.status)
      BY <1>8, <2>5, <2>7, <3>1, <3>2
    <3>5. RowsAgree(y, r) BY <2>5, <3>3, <3>4, RowsGrow
    <3> QED BY <3>2, <3>5
  <2>10. ASSUME ~listing'.raised PROVE LinesAgree(y, listing'.lines)
    <3>1. ~listing.raised /\ LinesAgree(x, listing.lines)
      BY <1>9, <2>2, <2>3, <2>10 DEF Accounts
    <3>2. PICK before : before = listing.lines OBVIOUS
    <3>3. PICK lines : lines = listing'.lines OBVIOUS
    <3>4. /\ IsSeq(before) /\ More(before, lines, n)
          /\ \A i \in 1..n : lines[Len(before) + i] = tests.keys[i]
      BY <1>10, <2>10, <3>2, <3>3
    <3>5. PICK p : Matching(p, 1..n, 1..n) /\ \A i \in 1..n : p[i] = (n - i) + 1 BY Turned
    <3>6. ASSUME NEW i \in 1..n PROVE lines[Len(before) + p[i]] = y[Len(x) + i].test.id
      <4>1. PICK k \in 1..n : k = (n - i) + 1
        <5>1. (n - i) + 1 \in 1..n OBVIOUS
        <5> QED BY <5>1
      <4>2. lines[Len(before) + k] = tests.keys[k] BY <3>4
      <4>3. s[i].id = tests.keys[k] BY <1>7, <4>1
      <4> QED BY <2>5, <3>5, <4>1, <4>2, <4>3
    <3>7. LinesAgree(x, before) BY <3>1, <3>2
    <3>8. LinesMore(x, y, before, lines, n, p)
      BY <2>5, <2>7, <3>4, <3>5, <3>6, <3>7 DEF LinesMore
    <3>9. LinesAgree(y, lines) BY <3>8, LinesGrow
    <3> QED BY <3>3, <3>9
  <2>11. RowsAgree(exported, tally.rows)' BY <2>4, <2>9
  <2>12. (listing.raised \/ LinesAgree(exported, listing.lines))'
    BY <1>1, <2>4, <2>10 DEF LinesAgree, Listed
  <2> QED BY <2>4, <2>8, <2>11, <2>12 DEF Accounts
<1> QED BY <1>1, <1>8, <1>11, <1>12 DEF AllTold

LEMMA StopSame == ASSUME TagsInv, ListInv, SameInv, Stop PROVE SameInv'
<1>1. tests' = NoItems /\ stopped' /\ UNCHANGED stream BY DEF Stop, outputVars
<1>2. Known(NoItems)
  <2>1. NoItems.value = <<>> /\ DOMAIN <<>> = {} BY DEF NoItems
  <2>2. NoItems.value = [k \in DOMAIN NoItems.value |-> NoItems.value[k]] BY <2>1
  <2> QED BY <2>1, <2>2 DEF Known, Mapping
<1>3. ExistsUnderWay' <=> ExistsUnderWay BY <1>1 DEF ExistsUnderWay
<1>4. AllTold => AllTold' BY StopAccounts DEF SameInv
<1> QED BY <1>1, <1>2, <1>3, <1>4 DEF SameInv

LEMMA ToldStays ==
  ASSUME UNCHANGED <<options, tests, stopped, exported, broken, listing, cases, tally>>
  PROVE  AllTold' <=> AllTold
<1>1. Accounts' <=> Accounts BY DEF Accounts, LinesAgree, Listed
<1> QED BY <1>1 DEF AllTold

LEMMA ProgramSame == ASSUME RouteInv, WrittenInv, ListInv, SameInv, Program PROVE SameInv'
<1>1. /\ OutputNext
      /\ UNCHANGED <<options, at, tests, stopped, exported, broken, listing, cases, tally>>
  BY DEF Program, diskVars, resultVars
<1>2. ~Written BY <1>1 DEF OutputNext, Written, Begin, Send, Kill
<1>3. ~stopped BY <1>2 DEF ListInv
<1>4. /\ at \in Nat /\ at <= Len(stream) /\ IsSeq(stream)
      /\ Len(stream) \in Nat /\ DOMAIN stream = 1..Len(stream)
  BY SeqShape DEF RouteInv, RunsInv
<1>5. stream' = stream \/ \E e : stream' = Append(stream, e)
  BY <1>1 DEF OutputNext, Begin, Send, Kill
<1>6. \A n \in DOMAIN stream : n \in DOMAIN stream' /\ stream'[n] = stream[n]
  <2>1. CASE stream' = stream BY <2>1
  <2>2. CASE \E e : stream' = Append(stream, e) BY <1>4, <2>2, AppendShape
  <2> QED BY <1>5, <2>1, <2>2
<1>7. \A n \in 1..at : stream'[n] = stream[n] BY <1>4, <1>6
<1>8. \A id : Reported(id) => Reported(id)' BY <1>1, <1>7 DEF Reported
<1>9. ExistsUnderWay => ExistsUnderWay'
  <2> SUFFICES ASSUME ExistsUnderWay PROVE ExistsUnderWay' OBVIOUS
  <2>1. PICK m \in DOMAIN stream, n \in DOMAIN stream :
          /\ m < n /\ stream[n].status = "exists" /\ stream[m].id = stream[n].id
          /\ \A k \in m..n - 1 : stream[k].id = stream[n].id => stream[k].status \in Interim
    BY DEF ExistsUnderWay
  <2>2. \A k \in m..n - 1 : k \in DOMAIN stream BY <1>4
  <2> QED BY <1>6, <2>1, <2>2 DEF ExistsUnderWay
<1>10. AllTold' <=> AllTold BY <1>1, ToldStays
<1> QED BY <1>1, <1>3, <1>8, <1>9, <1>10 DEF SameInv

LEMMA SameKept ==
  ASSUME RouteInv, WrittenInv, TagsInv, ListInv, SameInv, [Next]_vars PROVE SameInv'
<1>1. CASE UNCHANGED vars
  <2>1. /\ UNCHANGED <<stream, options, at, tests, stopped>>
        /\ UNCHANGED <<exported, broken, listing, cases, tally>>
    BY <1>1 DEF vars, outputVars, diskVars, resultVars
  <2>2. AllTold' <=> AllTold BY <2>1, ToldStays
  <2>3. \A id : Reported(id)' <=> Reported(id) BY <2>1 DEF Reported
  <2>4. ExistsUnderWay' <=> ExistsUnderWay BY <2>1 DEF ExistsUnderWay
  <2> QED BY <2>1, <2>2, <2>3, <2>4 DEF SameInv
<1> QED BY <1>1, ReadSame, StopSame, ProgramSame DEF Next

LEMMA SameStart == Init => SameInv
<1> SUFFICES ASSUME Init PROVE SameInv OBVIOUS
<1>1. PICK l : l = [time |-> 0, active |-> NoItems, lines |-> <<>>, raised |-> FALSE] OBVIOUS
<1>2. PICK t : t = [total |-> 0, failed |-> 0, skipped |-> 0, seen |-> {}, now |-> 0, rows |-> <<>>]
  OBVIOUS
<1>3. listing = l /\ tally = t /\ cases = NoItems /\ tests = NoItems /\ exported = <<>>
  BY <1>1, <1>2 DEF Init, ResultsInit, DiskInit
<1>4. <<>> \in Seq({}) /\ DOMAIN <<>> = {} /\ Len(<<>>) = 0 OBVIOUS
<1>5. IsSeq(<<>>) BY <1>4 DEF IsSeq
<1>6. NoItems.value = <<>> BY DEF NoItems
<1>7. Known(NoItems)
  <2>1. NoItems.value = [k \in DOMAIN NoItems.value |-> NoItems.value[k]] BY <1>4, <1>6
  <2> QED BY <1>4, <1>6, <2>1 DEF Known, Mapping
<1>8. TallyOK(t)
  <2>1. PassedRows(t.rows) = {} BY <1>2, <1>4 DEF PassedRows
  <2>2. Cardinality(PassedRows(t.rows)) = 0 BY <2>1, FS_EmptySet
  <2> QED BY <1>2, <1>5, <2>2 DEF TallyOK
<1>9. IsSeq(l.lines) /\ SameKeys(l.active, NoItems) BY <1>1, <1>5 DEF SameKeys
<1>10. \A f, g : Same({}, f, {}, g)
  <2> SUFFICES ASSUME NEW f, NEW g PROVE Same({}, f, {}, g) OBVIOUS
  <2>1. PICK b : b = [i \in {} |-> i] OBVIOUS
  <2>2. Matching(b, {}, {}) BY <2>1 DEF Matching
  <2> QED BY <2>2 DEF Same
<1>11. RowsAgree(<<>>, t.rows) /\ LinesAgree(<<>>, l.lines)
  <2>1. t.rows = <<>> /\ l.lines = <<>> BY <1>1, <1>2
  <2>2. Ran(<<>>) = {} /\ Listed(<<>>) = {} BY <1>4 DEF Ran, Listed
  <2> QED BY <1>4, <1>10, <2>1, <2>2 DEF RowsAgree, LinesAgree
<1>12. Accounts BY <1>3, <1>4, <1>11 DEF Accounts
<1>13. AllTold BY <1>3, <1>8, <1>9, <1>12 DEF AllTold
<1> QED BY <1>3, <1>4, <1>6, <1>7, <1>13 DEF SameInv

LEMMA SameBags ==
  ASSUME NEW I, IsFiniteSet(I), NEW f, NEW t, Same(I, f, DOMAIN t, t) PROVE SameBag(f, I, t)
<1>1. PICK b : Matching(b, I, DOMAIN t) /\ \A i \in I : f[i] = t[b[i]] BY DEF Same
<1>2. ASSUME NEW x PROVE Occurs(f, I, x) = Occurs(t, DOMAIN t, x)
  <2>1. PICK A : A = {i \in I : f[i] = x} OBVIOUS
  <2>2. PICK B : B = {j \in DOMAIN t : t[j] = x} OBVIOUS
  <2>3. A \subseteq I /\ B \subseteq DOMAIN t BY <2>1, <2>2
  <2>4. \A i \in I : i \in A <=> b[i] \in B BY <1>1, <2>1, <2>2 DEF Matching
  <2>5. Cardinality(A) = Cardinality(B) BY <1>1, <2>3, <2>4, SameCount
  <2> QED BY <2>1, <2>2, <2>5 DEF Occurs
<1> QED BY <1>2 DEF SameBag

LEMMA SameIs == TagsInv /\ SameInv => SameTests
<1> SUFFICES ASSUME TagsInv, SameInv, stopped, ~broken, ~ExistsUnderWay PROVE SameTests
  BY DEF SameTests
<1>1. Accounts /\ TallyOK(tally) BY DEF SameInv, AllTold
<1>2. PICK x : x = exported OBVIOUS
<1>3. PICK rows : rows = tally.rows OBVIOUS
<1>4. IsSeq(x) /\ Len(x) \in Nat /\ DOMAIN x = 1..Len(x) BY <1>2, SeqShape DEF TagsInv
<1>5. /\ \A i \in DOMAIN x : x[i].test.status \in Final \cup Left
      /\ RowsAgree(x, rows)
      /\ listing.raised \/ LinesAgree(x, listing.lines)
  BY <1>1, <1>2, <1>3 DEF Accounts
<1>6. IsFiniteSet(DOMAIN x) BY <1>4, FS_Interval
<1>7. IsFiniteSet(Ran(x)) /\ IsFiniteSet(Listed(x))
  <2>1. Ran(x) \subseteq DOMAIN x BY DEF Ran
  <2>2. IsFiniteSet(Ran(x)) BY <1>6, <2>1, FS_Subset
  <2> QED BY <1>6, <2>2 DEF Listed
<1>8. SameBag(EndsOf(x), Ran(x), RowsOf(rows))
  <2>1. DOMAIN RowsOf(rows) = DOMAIN rows BY DEF RowsOf
  <2>2. Same(Ran(x), EndsOf(x), DOMAIN RowsOf(rows), RowsOf(rows))
    BY <1>5, <2>1 DEF RowsAgree
  <2> QED BY <1>7, <2>2, SameBags
<1>9. ~listing.raised => SameBag(Ids(x), Listed(x), listing.lines)
  BY <1>5, <1>7, SameBags DEF LinesAgree
<1>10. passed_tests =
         Cardinality({i \in Ran(x) : x[i].test.status \in {"success", "xfail", "uxsuccess"}})
  <2>1. PICK A : A = {i \in Ran(x) : x[i].test.status \in {"success", "xfail", "uxsuccess"}}
    OBVIOUS
  <2>2. PICK B : B = PassedRows(rows) OBVIOUS
  <2>3. PICK b : Matching(b, Ran(x), DOMAIN rows)
                   /\ \A i \in Ran(x) : EndsOf(x)[i] = RowsOf(rows)[b[i]]
    BY <1>5 DEF RowsAgree, Same
  <2>4. A \subseteq Ran(x) /\ B \subseteq DOMAIN rows BY <2>1, <2>2 DEF PassedRows
  <2>5. ASSUME NEW i \in Ran(x) PROVE i \in A <=> b[i] \in B
    <3>1. i \in DOMAIN x /\ x[i].test.status # "exists" BY DEF Ran
    <3>2. b[i] \in DOMAIN rows BY <2>3 DEF Matching
    <3>3. PICK is : is = x[i].test.status OBVIOUS
    <3>4. EndsOf(x)[i] = <<x[i].test.id, Outcome(is)>> BY <3>1, <3>3 DEF EndsOf
    <3>5. RowsOf(rows)[b[i]] = <<rows[b[i]].id, rows[b[i]].status>> BY <3>2 DEF RowsOf
    <3>6. rows[b[i]].status = Outcome(is) BY <2>3, <3>4, <3>5
    <3>7. is \in (Final \ {"exists"}) \cup Left BY <1>5, <3>1, <3>3
    <3>8. Outcome(is) \notin {"failure", "skip"} <=> is \in {"success", "xfail", "uxsuccess"}
      BY <3>7 DEF Outcome, Final, Left
    <3> QED BY <2>1, <2>2, <3>2, <3>3, <3>6, <3>8 DEF PassedRows
  <2>6. Cardinality(A) = Cardinality(B) BY <1>7, <2>3, <2>4, <2>5, SameCount
  <2>7. passed_tests = Cardinality(B) BY <1>1, <1>3, <2>2 DEF passed_tests, TallyOK
  <2> QED BY <2>1, <2>6, <2>7
<1> QED BY <1>2, <1>3, <1>8, <1>9, <1>10
        DEF SameTests, Ran, Listed, Ids, EndsOf, RowsOf

(* Whatever the packets of the tests are and however they are interleaved:  *)
(* as long as no test under way is reported to exist, subunit2disk,         *)
(* subunit2csv, subunit-ls and subunit-stats agree on the tests, how often  *)
(* each is there, and how they ended.                                       *)
THEOREM AgreeOnTests == Spec => []SameTests
<1> DEFINE Inv == RouteInv /\ WrittenInv /\ TagsInv /\ ListInv /\ SameInv
<1>1. Init => Inv BY RouteStart, WrittenStart, TagsStart, ListStart, SameStart
<1>2. Inv /\ [Next]_vars => Inv' BY RouteKept, WrittenKept, TagsKept, ListKept, SameKept
<1>3. Inv => SameTests BY SameIs
<1> QED BY <1>1, <1>2, <1>3, PTL DEF Spec
=============================================================================
