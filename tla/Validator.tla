------------------------------- MODULE Validator -------------------------------
(***************************************************************************)
(* The validator (cmd/validator/core): a reader feeds lines to workers     *)
(* through a bounded channel, each worker compares algod with the indexer  *)
(* and puts a result into another, the printer counts errors and decides   *)
(* the exit code. Algod and the indexer go on meanwhile.                   *)
(***************************************************************************)
EXTENDS AccountDiff, Sequences

CONSTANTS
    Inputs,     \* the inputs: sequences of lines, each different
    Kind,       \* of a line: "address", "box", "undecodable" or "invalid"
    Cuts,       \* of a line: what may be left of it when reading fails within it
    History,    \* of a line: algod's account or box at each round
    Shown,      \* of a line: what the indexer shows at each round, right or wrong
    Processors, \* which processors may be chosen
    Workers, WorkCap, ResultsCap, \* the threads and the capacities of the channels
    Retries, MaxRound             \* config.Retries; a bound on the rounds

(* At least one thread is asked for (4 is the default). *)
ASSUME CallAssumption ==
    /\ Inputs \subseteq Seq(DOMAIN Kind) /\ Cuts \in [DOMAIN Kind -> SUBSET DOMAIN Kind]
    /\ Processors \subseteq {"Struct", "Dynamic"}
    /\ Workers # {} /\ IsFiniteSet(Workers)
    /\ WorkCap \in Nat /\ ResultsCap \in Nat /\ Retries \in Nat /\ MaxRound \in Nat

(* Algod's accounts and boxes. It lists no resource twice, and none that is *)
(* deleted.                                                                *)
Resources == [id : Int, data : Int, deleted : {FALSE}]
AlgodAccounts == [amount : Int, auth : SUBSET STRING, rewards : Int, pending : Int,
                  list : SUBSET Resources, deleted : {FALSE}]

(* The indexer may show anything, but, from tables with primary keys, no    *)
(* live resource twice.                                                    *)
ShownResources == [id : Int, data : Int, deleted : BOOLEAN]
ShownAccounts == [amount : Int, auth : SUBSET STRING, rewards : Int, pending : Int,
                  list : SUBSET ShownResources, deleted : BOOLEAN]

Live(list) == {x \in list : ~x.deleted}
Different(list) == IsFiniteSet(list) /\ \A x, y \in Live(list) : x.id = y.id => x = y

ASSUME HistoryAssumption ==
    \A line \in DOMAIN Kind : \A r \in 1 .. MaxRound :
      /\ Kind[line] = "box" => History[line][r] \in Int /\ Shown[line][r] \in Int
      /\ Kind[line] = "address" =>
           /\ History[line][r] \in AlgodAccounts /\ Different(History[line][r].list)
           /\ Shown[line][r] \in ShownAccounts /\ Different(Shown[line][r].list)

VARIABLES
    processor, lines,              \* what the program was called with
    input, read, scanErr,          \* lines left; lines read; whether reading failed
    work, workClosed,              \* the work channel
    worker,                        \* the goroutines that CallProcessor runs in
    results, resultsClosed,        \* the results channel
    printed, numResults, numErrors, \* the printer
    exit,                          \* how the program ended, or "no"
    algodRound, indexerRound

vars == <<processor, lines, input, read, scanErr, work, workClosed, worker, results,
          resultsClosed, printed, numResults, numErrors, exit, algodRound, indexerRound>>
called == <<processor, lines>>
scanner == <<input, read, scanErr>>
rounds == <<algodRound, indexerRound>>
printer == <<printed, numResults, numErrors, exit>>

(* The result of a line; compared holds the rounds of the two answers. *)
Result(line, outcome, compared) ==
    [line |-> line, Equal |-> outcome.Equal, SameRound |-> outcome.SameRound,
     Skip |-> outcome.Skip, compared |-> compared]
Failed(skip) == [Equal |-> FALSE, SameRound |-> FALSE, Skip |-> skip]

NoResult == Result("", Failed(FALSE), <<0, 0>>)
Idle == [pc |-> "range", line |-> "", snapshot |-> 0, i |-> 0, result |-> NoResult]

Init ==
    /\ processor \in Processors
    /\ lines \in Inputs /\ input = lines /\ read = <<>> /\ scanErr = FALSE
    /\ work = <<>> /\ workClosed = FALSE
    /\ worker = [w \in Workers |-> Idle]
    /\ results = <<>> /\ resultsClosed = FALSE
    /\ printed = {} /\ numResults = 0 /\ numErrors = 0 /\ exit = "no"
    /\ algodRound \in 1 .. MaxRound /\ indexerRound \in 1 .. MaxRound

Running == exit = "no"

-----------------------------------------------------------------------------
(* The two services. The indexer keeps what is gone as deleted, keeps a     *)
(* removed auth address as the own one and adds no pending rewards.        *)
Gone(line, round) ==
    LET past == UNION {{x.id : x \in History[line][r].list} : r \in 1 .. round}
        held == {x.id : x \in History[line][round].list}
    IN  {[id |-> id, data |-> 0, deleted |-> TRUE] : id \in past \ held}

Right(line, round) ==
    IF Kind[line] = "box" THEN History[line][round]
    ELSE [History[line][round] EXCEPT
            !.auth = IF @ = {} /\ \E r \in 1 .. round : History[line][r].auth # {}
                       THEN {Self} ELSE @,
            !.rewards = @ - History[line][round].pending,
            !.deleted = History[line][round].amount = 0,
            !.list = @ \cup Gone(line, round)]

AlgodAdvances ==
    /\ Running /\ algodRound < MaxRound /\ algodRound' = algodRound + 1
    /\ UNCHANGED <<called, scanner, work, workClosed, worker, results, resultsClosed, printer,
                   indexerRound>>

IndexerAdvances ==
    /\ Running /\ indexerRound < MaxRound /\ indexerRound' = indexerRound + 1
    /\ UNCHANGED <<called, scanner, work, workClosed, worker, results, resultsClosed, printer,
                   algodRound>>

-----------------------------------------------------------------------------
(* The goroutine of start that reads the input. *)
Send(line) ==
    /\ Len(work) < WorkCap
    /\ work' = Append(work, line) /\ read' = Append(read, line)

(* Mutant: the channel is not closed at the end of the input. *)
ScanNeverCloses ==
    /\ Running /\ input # <<>> /\ Send(Head(input)) /\ input' = Tail(input)
    /\ UNCHANGED <<called, scanErr, workClosed, worker, results, resultsClosed, printer, rounds>>

Scan ==
    /\ Running
    /\ \/ input # <<>> /\ Send(Head(input)) /\ input' = Tail(input) /\ UNCHANGED workClosed
       \/ /\ input = <<>> /\ ~workClosed /\ workClosed' = TRUE
          /\ UNCHANGED <<work, read, input>>
    /\ UNCHANGED <<called, scanErr, worker, results, resultsClosed, printer, rounds>>

(* A line is longer than the scanner's buffer, or reading fails, after      *)
(* which the scanner gives what it has of the line. Either way it is the   *)
(* end of the input for start, which does not ask for scanner.Err().       *)
ScanFails ==
    /\ Running /\ input # <<>>
    /\ scanErr' = TRUE /\ input' = <<>>
    /\ \/ UNCHANGED <<work, read>>
       \/ \E cut \in Cuts[Head(input)] : Send(cut)
    /\ UNCHANGED <<called, workClosed, worker, results, resultsClosed, printer, rounds>>

(* A worker; every CallProcessor ends by sending one result. *)
Becomes(w, r) ==
    /\ worker' = [worker EXCEPT ![w] = r]
    /\ UNCHANGED <<called, scanner, workClosed, resultsClosed, printer, rounds>>

Sending(w, outcome, compared) ==
    [worker[w] EXCEPT !.pc = "send", !.result = Result(worker[w].line, outcome, compared)]

CallProcessor(w) ==
    /\ Running /\ worker[w].pc = "range"
    /\ \/ /\ work # <<>> /\ work' = Tail(work)
          /\ Becomes(w, [worker[w] EXCEPT !.line = Head(work),
               !.pc = IF Kind[Head(work)] \in {"address", "box"} THEN "algod" ELSE "send",
               !.result = Result(Head(work), Failed(FALSE), <<0, 0>>)])
       \/ /\ work = <<>> /\ workClosed
          /\ Becomes(w, [worker[w] EXCEPT !.pc = "done"]) /\ UNCHANGED work
    /\ UNCHANGED results

(* Algod is asked once; some of its errors are skips. *)
getAlgodData(w) ==
    /\ Running /\ worker[w].pc = "algod"
    /\ \/ Becomes(w, [worker[w] EXCEPT !.pc = "indexer", !.snapshot = algodRound])
       \/ \E skip \in BOOLEAN : Becomes(w, Sending(w, Failed(skip), <<0, 0>>))
    /\ UNCHANGED <<work, results>>

Compare(line, algod, indexer) ==
    LET a == History[line][algod]
        b == Shown[line][indexer]
    IN  CASE processor = "Struct" /\ Kind[line] = "address" -> StructAddress(a, b, algod = indexer)
          [] processor = "Struct" /\ Kind[line] = "box" -> StructBox(a, b, algod = indexer)
          [] processor = "Dynamic" /\ Kind[line] = "address" -> DynamicAddress(a, b)
          [] processor = "Dynamic" /\ Kind[line] = "box" -> DynamicBox(a, b, algod = indexer)

Finished(outcome, i) == outcome.Equal \/ outcome.SameRound \/ i >= Retries

(* One turn of the retry loop. An error of the indexer, or one of parsing   *)
(* an answer, ends it; some errors of the indexer are skips.               *)
retryLoop(w) ==
    /\ Running /\ worker[w].pc = "indexer"
    /\ \/ LET outcome == Compare(worker[w].line, worker[w].snapshot, indexerRound)
          IN  IF Finished(outcome, worker[w].i)
                THEN Becomes(w, Sending(w, [Equal |-> outcome.Equal, Skip |-> FALSE,
                                            SameRound |-> outcome.SameRound],
                                        <<worker[w].snapshot, indexerRound>>))
                ELSE Becomes(w, [worker[w] EXCEPT !.i = @ + 1])
       \/ \E skip \in BOOLEAN : Becomes(w, Sending(w, Failed(skip), <<0, 0>>))
    /\ UNCHANGED <<work, results>>

SendResult(w) ==
    /\ Running /\ worker[w].pc = "send" /\ Len(results) < ResultsCap
    /\ results' = Append(results, worker[w].result)
    /\ Becomes(w, Idle) /\ UNCHANGED work

(* Start, when wg.Wait has returned; the deferred close. *)
Start ==
    /\ Running /\ ~resultsClosed /\ \A w \in Workers : worker[w].pc = "done"
    /\ resultsClosed' = TRUE
    /\ UNCHANGED <<called, scanner, work, workClosed, worker, results, printer, rounds>>

(* Mutant: only differences at the same round are errors. *)
resultsPrinterSameRound ==
    /\ Running /\ results # <<>>
    /\ LET r == Head(results)
       IN  numErrors' = IF ~r.Equal /\ r.SameRound THEN numErrors + 1 ELSE numErrors
    /\ printed' = printed \cup {Head(results)} /\ numResults' = numResults + 1 /\ results' = Tail(results)
    /\ UNCHANGED <<called, scanner, work, workClosed, worker, resultsClosed, exit, rounds>>

(* The printer, run's exit code, and an interrupt. *)
resultsPrinter ==
    /\ Running /\ results # <<>>
    /\ LET r == Head(results)
       IN  numErrors' = IF ~r.Equal /\ ~r.Skip THEN numErrors + 1 ELSE numErrors
    /\ printed' = printed \cup {Head(results)} /\ numResults' = numResults + 1 /\ results' = Tail(results)
    /\ UNCHANGED <<called, scanner, work, workClosed, worker, resultsClosed, exit, rounds>>

run ==
    /\ Running /\ results = <<>> /\ resultsClosed
    /\ exit' = IF numErrors > 0 THEN "1" ELSE "0"
    /\ UNCHANGED <<called, scanner, work, workClosed, worker, results, resultsClosed, printed,
                   numResults, numErrors, rounds>>

Interrupt ==
    /\ Running /\ exit' = "interrupted"
    /\ UNCHANGED <<called, scanner, work, workClosed, worker, results, resultsClosed, printed,
                   numResults, numErrors, rounds>>

-----------------------------------------------------------------------------
Worker(w) == CallProcessor(w) \/ getAlgodData(w) \/ retryLoop(w) \/ SendResult(w)

Next ==
    \/ AlgodAdvances \/ IndexerAdvances \/ Scan \/ ScanFails \/ Start \/ resultsPrinter \/ run
    \/ Interrupt
    \/ \E w \in Workers : Worker(w)

(* Goroutines that can go on do. That a request to algod or to the indexer *)
(* returns is an assumption about the services: getData uses the default   *)
(* HTTP client, which has no timeout. Nothing makes the services advance.  *)
Spec == Init /\ [][Next]_vars /\ WF_vars(Scan) /\ WF_vars(Start) /\ WF_vars(resultsPrinter)
             /\ WF_vars(run) /\ \A w \in Workers : WF_vars(Worker(w))

-----------------------------------------------------------------------------
SeqElements(s) == {s[k] : k \in 1 .. Len(s)}
AllResults == SeqElements(results) \cup printed
              \cup {worker[w].result : w \in {v \in Workers : worker[v].pc = "send"}}

(* The variables have their types; the channels keep to their capacities    *)
(* and a worker to the configured number of retries.                       *)
TypeOK ==
    /\ Len(work) <= WorkCap /\ Len(results) <= ResultsCap /\ numErrors \in 0 .. Len(read)
    /\ exit \in {"no", "0", "1", "interrupted"}
    /\ \A w \in Workers : /\ worker[w].pc \in {"range", "algod", "indexer", "send", "done"}
                          /\ worker[w].i \in 0 .. Retries
                          /\ worker[w].snapshot \in 0 .. MaxRound

(* What the indexer may show of an algod account: a removed auth address    *)
(* as the own one, rewards without the pending ones, and deleted resources *)
(* beside the live ones.                                                   *)
Agrees(shown, algod) ==
    /\ shown.amount = algod.amount /\ shown.pending = algod.pending
    /\ shown.auth \in {algod.auth, {Self}}
    /\ shown.rewards \in {algod.rewards, algod.rewards - algod.pending}
    /\ Live(shown.list) = algod.list

(* The verdict on answers of the same round. Whatever the indexer shows,   *)
(* what the processors call equal agrees with algod: boxes are the same,   *)
(* accounts too, except that the own address passes for any auth address   *)
(* and rewards may lack the pending ones. What the indexer has right, shown *)
(* in its own way, the StructProcessor calls equal. Accounts that algod    *)
(* does not have are not compared.                                         *)
VerdictsRight ==
    \A r \in AllResults :
      LET line  == r.line
          round == r.compared[1]
          shown == Shown[line][round]
          algod == History[line][round]
          right == shown = Right(line, round)
      IN  (round # 0 /\ r.compared[2] = round) =>
            /\ r.Equal /\ Kind[line] = "box" => shown = algod
            /\ r.Equal /\ Kind[line] = "address" /\ algod.amount # 0 => Agrees(shown, algod)
            /\ right /\ processor = "Struct" => r.Equal
            /\ r.SameRound => ~right

(* The program ends with 0 when every line that it read has been compared  *)
(* or skipped, once, none with a difference or an error, and with 1        *)
(* otherwise: Start closes the results only after the last worker's. It    *)
(* has read the whole input unless reading failed, which the exit code     *)
(* does not tell.                                                          *)
ExitCodeTells ==
    exit \in {"0", "1"} =>
      /\ {r.line : r \in printed} = SeqElements(read) /\ numResults = Len(read)
      /\ (exit = "0") = \A r \in printed : r.Equal \/ r.Skip
      /\ scanErr \/ read = lines

(* The program ends: no channel is left without its other side. *)
Terminates == <>(exit # "no")
=============================================================================
