---------------------------- MODULE ValidatorProofs ----------------------------
(***************************************************************************)
(* What the validator's exit code and its verdicts mean, for any number of *)
(* lines, workers and retries and any capacity of the channels.            *)
(***************************************************************************)
EXTENDS Validator, FiniteSetTheorems, SequenceTheorems, TLAPS

Lines == DOMAIN Kind

Results == [line : Lines, Equal : BOOLEAN, SameRound : BOOLEAN, Skip : BOOLEAN,
            compared : (0 .. MaxRound) \X (0 .. MaxRound)]

WorkerStates ==
    [pc : {"range", "algod", "indexer", "send", "done"}, line : Lines \cup {""},
     snapshot : 0 .. MaxRound, i : 0 .. Retries, result : Results \cup {NoResult}]

Busy == {w \in Workers : worker[w].pc \in {"algod", "indexer", "send"}}

(* The channels, the counters and the workers. *)
Shape ==
    /\ processor \in {"Struct", "Dynamic"} /\ lines \in Seq(Lines)
    /\ input \in Seq(Lines) /\ read \in Seq(Lines) /\ scanErr \in BOOLEAN
    /\ work \in Seq(Lines) /\ results \in Seq(Results)
    /\ Len(work) <= WorkCap /\ Len(results) <= ResultsCap
    /\ workClosed \in BOOLEAN /\ resultsClosed \in BOOLEAN
    /\ printed \subseteq Results /\ numResults \in Nat /\ numErrors \in Nat
    /\ numErrors <= numResults
    /\ exit \in {"no", "0", "1", "interrupted"}
    /\ algodRound \in 1 .. MaxRound /\ indexerRound \in 1 .. MaxRound
    /\ worker \in [Workers -> WorkerStates]

(* A worker between taking a line and sending its result. *)
WorkerInv(w) ==
    /\ w \in Busy => worker[w].line \in Lines
    /\ worker[w].pc \in {"algod", "indexer"} => Kind[worker[w].line] \in {"address", "box"}
    /\ worker[w].pc = "indexer" => worker[w].snapshot \in 1 .. MaxRound
    /\ worker[w].pc = "send" => worker[w].result \in Results
                                /\ worker[w].result.line = worker[w].line
    /\ worker[w].pc = "done" => workClosed /\ work = <<>>

(* Who closes what when. *)
ClosedInv ==
    /\ workClosed => input = <<>>
    /\ resultsClosed => \A w \in Workers : worker[w].pc = "done"
    /\ exit \in {"0", "1"} => resultsClosed /\ results = <<>>
    /\ exit = "0" => numErrors = 0
    /\ exit = "1" => numErrors > 0

(* Every line that was read is somewhere, and counted once. *)
Everywhere ==
    SeqElements(work) \cup {worker[w].line : w \in Busy}
      \cup {r.line : r \in SeqElements(results)} \cup {r.line : r \in printed}

LinesInv ==
    /\ Everywhere = SeqElements(read)
    /\ Len(work) + Cardinality(Busy) + Len(results) + numResults = Len(read)

(* Unless reading failed, what is left of the input is what was not read. *)
ReadInv == scanErr \/ lines = read \o input

(* An error is counted exactly when a result that is one was printed. *)
ErrorsInv == numErrors = 0 <=> \A r \in printed : r.Equal \/ r.Skip

(* The verdict Equal = e, SameRound = d on answers of a round. *)
VerdictOf(line, round, e, d) ==
    LET shown == Shown[line][round]
        algod == History[line][round]
        right == shown = Right(line, round)
    IN  /\ e /\ Kind[line] = "box" => shown = algod
        /\ e /\ Kind[line] = "address" /\ algod.amount # 0 => Agrees(shown, algod)
        /\ right /\ processor = "Struct" => e
        /\ d => ~right

(* The verdict of one result. *)
VerdictRight(r) ==
    r.compared[1] # 0 /\ r.compared[2] = r.compared[1] =>
      VerdictOf(r.line, r.compared[1], r.Equal, r.SameRound)

(* The inductive invariant. *)
IInv ==
    /\ Shape
    /\ \A w \in Workers : WorkerInv(w)
    /\ ClosedInv
    /\ LinesInv
    /\ ReadInv
    /\ ErrorsInv
    /\ \A r \in AllResults : VerdictRight(r)

-----------------------------------------------------------------------------
(* What a channel holds before and after an operation. *)
LEMMA ElementsAppend ==
  ASSUME NEW S, NEW s \in Seq(S), NEW e \in S
  PROVE  SeqElements(Append(s, e)) = SeqElements(s) \cup {e}
<1> DEFINE t == Append(s, e)
<1>1. Len(s) \in Nat /\ Len(t) = Len(s) + 1 /\ t[Len(s) + 1] = e
      /\ \A k \in 1 .. Len(s) : t[k] = s[k]
  BY AppendProperties, LenProperties
<1>2. 1 .. Len(t) = (1 .. Len(s)) \cup {Len(s) + 1}
  BY <1>1
<1> HIDE DEF t
<1> QED BY <1>1, <1>2 DEF SeqElements

LEMMA ElementsHeadTail ==
  ASSUME NEW S, NEW s \in Seq(S), s # <<>>
  PROVE  SeqElements(s) = {Head(s)} \cup SeqElements(Tail(s))
<1> DEFINE t == Tail(s)
<1>1. Len(s) \in Nat /\ Len(s) > 0 /\ Len(t) = Len(s) - 1 /\ Head(s) = s[1]
  BY EmptySeq, LenProperties, HeadTailProperties
<1>2. \A k \in 1 .. Len(t) : t[k] = s[k + 1]
  BY Zenon, <1>1, HeadTailProperties
<1> HIDE DEF t
<1>3. ASSUME NEW x \in SeqElements(s) PROVE x = Head(s) \/ x \in SeqElements(t)
  <2>1. PICK k \in 1 .. Len(s) : x = s[k]
    BY Zenon DEF SeqElements
  <2>2. CASE k = 1
    BY Zenon, <1>1, <2>1, <2>2
  <2>3. CASE k # 1
    <3>1. k - 1 \in 1 .. Len(t) /\ t[k - 1] = s[k]
      BY <1>1, <1>2, <2>3
    <3> QED BY Zenon, <2>1, <3>1 DEF SeqElements
  <2> QED BY Zenon, <2>2, <2>3
<1>4. ASSUME NEW x \in SeqElements(t) PROVE x \in SeqElements(s)
  <2>1. PICK k \in 1 .. Len(t) : x = t[k]
    BY Zenon DEF SeqElements
  <2>2. k + 1 \in 1 .. Len(s) /\ x = s[k + 1]
    BY <1>1, <1>2, <2>1
  <2> QED BY Zenon, <2>2 DEF SeqElements
<1>5. Head(s) \in SeqElements(s)
  <2>1. 1 \in 1 .. Len(s)
    BY <1>1
  <2> QED BY Zenon, <1>1, <2>1 DEF SeqElements
<1> QED BY Zenon, <1>3, <1>4, <1>5 DEF t

LEMMA ElementsEmpty == SeqElements(<<>>) = {}
BY DEF SeqElements

LEMMA ReadOn ==
  ASSUME NEW S, NEW s \in Seq(S), NEW t \in Seq(S), t # <<>>
  PROVE  s \o t = Append(s, Head(t)) \o Tail(t)
<1> DEFINE h == Head(t)
           u == Tail(t)
<1>1. h \in S /\ u \in Seq(S) /\ t = <<h>> \o u
  BY HeadTailProperties
<1>2. <<h>> \in Seq(S) /\ Append(s, h) = s \o <<h>>
  BY <1>1, AppendIsConcat
<1> HIDE DEF h, u
<1>3. (s \o <<h>>) \o u = s \o (<<h>> \o u)
  BY <1>1, <1>2, ConcatAssociative
<1> QED BY Zenon, <1>1, <1>2, <1>3 DEF h, u

(* The workers that have a line. *)
LEMMA BusyFinite == IsFiniteSet(Busy) /\ Cardinality(Busy) \in Nat
BY Zenon, CallAssumption, FS_Subset, FS_CardinalityType DEF Busy

-----------------------------------------------------------------------------
(* A step that takes nothing from or to a channel. *)
LEMMA LinesFrame ==
  ASSUME IInv, UNCHANGED <<read, work, results, printed, numResults, Busy>>,
         \A w \in Busy : worker'[w].line = worker[w].line
  PROVE  LinesInv'
<1>1. {worker'[w].line : w \in Busy'} = {worker[w].line : w \in Busy}
  BY Zenon
<1>2. Everywhere' = Everywhere
  BY <1>1 DEF Everywhere, SeqElements
<1> QED BY Zenon, <1>2 DEF IInv, LinesInv, SeqElements

(* Verdicts depend on nothing that changes. *)
LEMMA VerdictsFrame ==
  ASSUME IInv, UNCHANGED processor, \A r \in AllResults' : r \in AllResults \/ VerdictRight(r)
  PROVE  (\A r \in AllResults : VerdictRight(r))'
<1>1. ASSUME NEW r, VerdictRight(r) PROVE VerdictRight(r)'
  BY Zenon, <1>1 DEF VerdictRight, VerdictOf
<1> QED BY Zenon, <1>1 DEF IInv

(* A step that leaves the workers and the channels alone. *)
LEMMA QuietStep ==
  ASSUME IInv, Shape', UNCHANGED <<called, scanner, work, workClosed, worker, results,
                                   resultsClosed, printed, numResults, numErrors>>, ClosedInv'
  PROVE  IInv'
<1>1. Busy' = Busy
  BY Zenon DEF Busy
<1>2. LinesInv'
  BY Zenon, <1>1, LinesFrame DEF called, scanner
<1>3. (\A r \in AllResults : VerdictRight(r))'
  BY Zenon, VerdictsFrame DEF AllResults, SeqElements, called
<1>4. (\A w \in Workers : WorkerInv(w))'
  BY Zenon, <1>1 DEF IInv, WorkerInv
<1>5. ErrorsInv' /\ ReadInv'
  BY Zenon DEF IInv, ErrorsInv, ReadInv, called, scanner
<1> QED BY Zenon, <1>2, <1>3, <1>4, <1>5 DEF IInv

LEMMA AlgodAdvancesStep == ASSUME IInv, AlgodAdvances PROVE IInv'
<1>1. Shape'
  BY CallAssumption DEF IInv, Shape, AlgodAdvances, called, scanner, printer
<1>2. ClosedInv'
  BY Zenon DEF IInv, ClosedInv, AlgodAdvances, scanner, printer
<1> QED BY Zenon, <1>1, <1>2, QuietStep DEF AlgodAdvances, printer

LEMMA IndexerAdvancesStep == ASSUME IInv, IndexerAdvances PROVE IInv'
<1>1. Shape'
  BY CallAssumption DEF IInv, Shape, IndexerAdvances, called, scanner, printer
<1>2. ClosedInv'
  BY Zenon DEF IInv, ClosedInv, IndexerAdvances, scanner, printer
<1> QED BY Zenon, <1>1, <1>2, QuietStep DEF IndexerAdvances, printer

LEMMA InterruptStep == ASSUME IInv, Interrupt PROVE IInv'
<1>1. Shape'
  BY Zenon DEF IInv, Shape, Interrupt, called, scanner, rounds
<1>2. ClosedInv'
  BY Zenon DEF IInv, ClosedInv, Interrupt, scanner
<1> QED BY Zenon, <1>1, <1>2, QuietStep DEF Interrupt

(* The exit code. *)
LEMMA RunStep == ASSUME IInv, run PROVE IInv'
<1>1. Shape'
  BY Zenon DEF IInv, Shape, run, called, scanner, rounds
<1>2. ClosedInv'
  BY DEF IInv, Shape, ClosedInv, run, scanner
<1> QED BY Zenon, <1>1, <1>2, QuietStep DEF run

(* The results are closed. *)
LEMMA StartStep == ASSUME IInv, Start PROVE IInv'
<1> USE DEF Start, called, scanner, printer, rounds, IInv
<1>1. Shape'
  BY Zenon DEF Shape
<1>2. ClosedInv'
  BY Zenon DEF ClosedInv, Running
<1>3. Busy' = Busy
  BY Zenon DEF Busy
<1>4. LinesInv'
  BY Zenon, <1>3, LinesFrame
<1>5. (\A r \in AllResults : VerdictRight(r))'
  BY Zenon, VerdictsFrame DEF AllResults, SeqElements
<1>6. (\A w \in Workers : WorkerInv(w))'
  BY Zenon, <1>3 DEF WorkerInv
<1>7. ErrorsInv' /\ ReadInv'
  BY Zenon DEF ErrorsInv, ReadInv
<1> QED BY Zenon, <1>1, <1>2, <1>4, <1>5, <1>6, <1>7

(* A line goes into the work channel. *)
LEMMA SendKeeps ==
  ASSUME IInv, NEW line \in Lines, Send(line), ~workClosed, UNCHANGED workClosed,
         UNCHANGED <<called, worker, results, resultsClosed, printer, rounds>>,
         input' \in Seq(Lines), scanErr' \in BOOLEAN, ReadInv'
  PROVE  IInv'
<1>0. /\ Len(work) < WorkCap /\ work' = Append(work, line) /\ read' = Append(read, line)
      /\ UNCHANGED <<processor, lines, worker, results, resultsClosed, printed, numResults,
                     numErrors, exit, algodRound, indexerRound, workClosed>>
  BY Zenon DEF Send, called, printer, rounds
<1>1. Busy' = Busy
  BY Zenon, <1>0 DEF Busy
<1>2. (\A r \in AllResults : VerdictRight(r))'
  BY Zenon, <1>0, VerdictsFrame DEF AllResults, SeqElements
<1>3. ErrorsInv'
  BY Zenon, <1>0 DEF IInv, ErrorsInv
<1>4. /\ read \in Seq(Lines) /\ work \in Seq(Lines) /\ results \in Seq(Results)
      /\ numResults \in Nat /\ WorkCap \in Nat
  BY Zenon, CallAssumption DEF IInv, Shape
<1>5. /\ read' \in Seq(Lines) /\ Len(read') = Len(read) + 1
      /\ work' \in Seq(Lines) /\ Len(work') = Len(work) + 1
      /\ Len(work) \in Nat /\ Len(read) \in Nat /\ Len(results) \in Nat
  BY Zenon, <1>0, <1>4, AppendProperties, LenProperties
<1>6. Shape'
  <2>1. Len(work') <= WorkCap
    BY <1>0, <1>4, <1>5
  <2> QED BY Zenon, <1>0, <1>5, <2>1 DEF IInv, Shape
<1>7. ClosedInv'
  <2>1. ~workClosed'
    BY <1>0
  <2>2. ClosedInv
    BY Zenon DEF IInv
  <2> QED BY <1>0, <2>1, <2>2 DEF ClosedInv
<1>8. LinesInv'
  <2>1. /\ SeqElements(work') = SeqElements(work) \cup {line}
        /\ SeqElements(read') = SeqElements(read) \cup {line}
    BY <1>0, <1>4, ElementsAppend
  <2>2. {worker'[w].line : w \in Busy'} = {worker[w].line : w \in Busy}
    BY Zenon, <1>0, <1>1
  <2>3. Everywhere' = Everywhere \cup {line}
    BY Zenon, <1>0, <2>1, <2>2 DEF Everywhere
  <2>4. /\ Len(work) + Cardinality(Busy) + Len(results) + numResults = Len(read)
        /\ Cardinality(Busy) \in Nat /\ Everywhere = SeqElements(read)
    BY Zenon, BusyFinite DEF IInv, LinesInv
  <2>5. Len(work') + Cardinality(Busy) + Len(results) + numResults = Len(read')
    BY SMTT(60), <1>4, <1>5, <2>4
  <2> QED BY Zenon, <1>0, <1>1, <2>1, <2>3, <2>4, <2>5 DEF LinesInv
<1>9. (\A w \in Workers : WorkerInv(w))'
  BY Zenon, <1>0, <1>1 DEF IInv, WorkerInv
<1> QED BY Zenon, <1>2, <1>3, <1>6, <1>7, <1>8, <1>9 DEF IInv

(* Reading ends without another line. *)
LEMMA NoLineKeeps ==
  ASSUME IInv, UNCHANGED <<work, read>>, input' = <<>>, scanErr' \in BOOLEAN,
         workClosed' \in BOOLEAN, workClosed => workClosed', ReadInv',
         UNCHANGED <<called, worker, results, resultsClosed, printer, rounds>>
  PROVE  IInv'
<1> USE DEF called, printer, rounds, IInv
<1>1. Busy' = Busy
  BY Zenon DEF Busy
<1>2. (\A r \in AllResults : VerdictRight(r))'
  BY Zenon, VerdictsFrame DEF AllResults, SeqElements
<1>3. ErrorsInv'
  BY Zenon DEF ErrorsInv
<1>4. Shape'
  <2>1. input' \in Seq(Lines)
    BY Zenon, EmptySeq
  <2> QED BY Zenon, <2>1 DEF Shape
<1>5. ClosedInv'
  BY Zenon DEF ClosedInv
<1>6. LinesInv'
  BY Zenon, <1>1, LinesFrame
<1>7. (\A w \in Workers : WorkerInv(w))'
  BY Zenon, <1>1 DEF WorkerInv
<1> QED BY Zenon, <1>2, <1>3, <1>4, <1>5, <1>6, <1>7

(* A line is read, or the end of the input. *)
LEMMA ScanStep == ASSUME IInv, Scan PROVE IInv'
<1>0. /\ input \in Seq(Lines) /\ read \in Seq(Lines) /\ scanErr \in BOOLEAN
      /\ ReadInv /\ (workClosed => input = <<>>)
  BY Zenon DEF IInv, Shape, ClosedInv
<1>1. CASE /\ input = <<>> /\ ~workClosed /\ workClosed' = TRUE
           /\ UNCHANGED <<work, read, input>>
  <2>1. ReadInv'
    BY Zenon, <1>0, <1>1 DEF Scan, called, ReadInv
  <2> QED BY Zenon, <1>0, <1>1, <2>1, NoLineKeeps DEF Scan
<1>2. CASE input # <<>> /\ Send(Head(input)) /\ input' = Tail(input) /\ UNCHANGED workClosed
  <2>1. Head(input) \in Lines /\ input' \in Seq(Lines)
    BY Zenon, <1>0, <1>2, HeadTailProperties
  <2>2. read \o input = read' \o input'
    BY Zenon, <1>0, <1>2, ReadOn DEF Send
  <2>3. ReadInv'
    BY Zenon, <1>0, <2>2 DEF Scan, called, ReadInv
  <2> QED BY Zenon, <1>0, <1>2, <2>1, <2>3, SendKeeps DEF Scan
<1> QED BY Zenon, <1>1, <1>2 DEF Scan

(* Reading fails. *)
LEMMA ScanFailsStep == ASSUME IInv, ScanFails PROVE IInv'
<1>0. /\ input \in Seq(Lines) /\ input # <<>> /\ ~workClosed /\ workClosed \in BOOLEAN
      /\ UNCHANGED workClosed /\ scanErr' = TRUE /\ input' = <<>>
      /\ UNCHANGED <<called, worker, results, resultsClosed, printer, rounds>>
  BY Zenon DEF IInv, Shape, ClosedInv, ScanFails
<1>1. ReadInv' /\ scanErr' \in BOOLEAN /\ input' \in Seq(Lines)
  BY Zenon, <1>0, EmptySeq DEF ReadInv
<1>2. CASE UNCHANGED <<work, read>>
  BY Zenon, <1>0, <1>1, <1>2, NoLineKeeps
<1>3. ASSUME NEW cut \in Cuts[Head(input)], Send(cut) PROVE IInv'
  <2>1. Head(input) \in Lines
    BY Zenon, <1>0, HeadTailProperties
  <2>2. cut \in Lines
    BY Zenon, <2>1, CallAssumption DEF Lines
  <2> QED BY Zenon, <1>0, <1>1, <1>3, <2>2, SendKeeps
<1> QED BY Zenon, <1>2, <1>3 DEF ScanFails

(* A result is printed and counted. *)
LEMMA ResultsPrinterStep == ASSUME IInv, resultsPrinter PROVE IInv'
<1> USE DEF resultsPrinter, called, scanner, rounds, IInv
<1> DEFINE r == Head(results)
<1>1. Busy' = Busy
  BY Zenon DEF Busy
<1>2. /\ read \in Seq(Lines) /\ work \in Seq(Lines) /\ results \in Seq(Results)
      /\ numResults \in Nat /\ ResultsCap \in Nat
      /\ numErrors \in Nat /\ numErrors <= numResults
  BY Zenon, CallAssumption DEF Shape
<1>3. /\ r \in Results /\ results' \in Seq(Results) /\ Len(results') = Len(results) - 1
      /\ Len(work) \in Nat /\ Len(results) \in Nat /\ Len(read) \in Nat
  BY Zenon, <1>2, HeadTailProperties, LenProperties
<1>4. SeqElements(results) = {r} \cup SeqElements(results')
  BY Zenon, <1>2, ElementsHeadTail
<1>5. /\ printed' = printed \cup {r} /\ numResults' = numResults + 1
      /\ numErrors' = IF ~r.Equal /\ ~r.Skip THEN numErrors + 1 ELSE numErrors
      /\ UNCHANGED <<processor, lines, scanner, work, workClosed, worker, resultsClosed, exit,
                     algodRound, indexerRound>>
      /\ exit = "no"
  BY Zenon DEF Running
<1> HIDE DEF r, resultsPrinter
<1>6. Shape'
  BY <1>2, <1>3, <1>5 DEF Shape
<1>7. ClosedInv'
  BY Zenon, <1>5 DEF ClosedInv
<1>8. LinesInv'
  <2>1. {worker'[w].line : w \in Busy'} = {worker[w].line : w \in Busy}
    BY Zenon, <1>1, <1>5
  <2>2. {x.line : x \in SeqElements(results)} \cup {x.line : x \in printed}
          = {x.line : x \in SeqElements(results')} \cup {x.line : x \in printed'}
    BY Zenon, <1>4, <1>5
  <2>3. Everywhere' = Everywhere
    BY Zenon, <1>5, <2>1, <2>2 DEF Everywhere
  <2>4. /\ Len(work) + Cardinality(Busy) + Len(results) + numResults = Len(read)
        /\ Cardinality(Busy) \in Nat
    BY Zenon, BusyFinite DEF LinesInv
  <2>5. Len(work) + Cardinality(Busy) + Len(results') + numResults' = Len(read)
    BY SMTT(60), <1>2, <1>3, <1>5, <2>4
  <2> QED BY Zenon, <1>1, <1>5, <2>3, <2>5 DEF LinesInv
<1>9. (\A w \in Workers : WorkerInv(w))'
  BY Zenon, <1>1, <1>5 DEF WorkerInv
<1>12. ReadInv'
  BY Zenon, <1>5 DEF ReadInv
<1>10. ErrorsInv'
  <2>1. CASE ~r.Equal /\ ~r.Skip
    <3>1. numErrors' # 0
      BY <1>2, <1>5, <2>1
    <3> QED BY Zenon, <1>5, <2>1, <3>1 DEF ErrorsInv
  <2>2. CASE r.Equal \/ r.Skip
    <3>1. numErrors' = numErrors
      BY Zenon, <1>5, <2>2
    <3> QED BY Zenon, <1>5, <2>2, <3>1 DEF ErrorsInv
  <2> QED BY Zenon, <2>1, <2>2
<1>11. (\A x \in AllResults : VerdictRight(x))'
  BY Zenon, <1>4, <1>5, VerdictsFrame DEF AllResults
<1> QED BY Zenon, <1>6, <1>7, <1>8, <1>9, <1>10, <1>11, <1>12

-----------------------------------------------------------------------------
(* A worker becomes r. *)
LEMMA BecomesWorker ==
  ASSUME IInv, NEW w \in Workers, NEW r \in WorkerStates, Becomes(w, r)
  PROVE  /\ worker' \in [Workers -> WorkerStates]
         /\ worker'[w] = r /\ \A v \in Workers \ {w} : worker'[v] = worker[v]
         /\ UNCHANGED <<processor, lines, scanner, workClosed, resultsClosed, printed, numResults,
                        numErrors, exit, algodRound, indexerRound>>
BY Zenon DEF IInv, Shape, Becomes, called, scanner, printer, rounds

(* What is left to show when a worker goes on. *)
LEMMA BecomesStep ==
  ASSUME IInv, NEW w \in Workers, NEW r \in WorkerStates, Becomes(w, r), Running,
         worker[w].pc # "done", WorkerInv(w)',
         work' \in Seq(Lines), Len(work') <= WorkCap, work = <<>> => work' = <<>>,
         results' \in Seq(Results), Len(results') <= ResultsCap, LinesInv',
         \A x \in SeqElements(results') : x \in AllResults,
         r.pc = "send" => VerdictRight(r.result)
  PROVE  IInv'
<1>1. /\ worker' \in [Workers -> WorkerStates]
      /\ worker'[w] = r /\ \A v \in Workers \ {w} : worker'[v] = worker[v]
      /\ UNCHANGED <<processor, lines, scanner, workClosed, resultsClosed, printed, numResults,
                     numErrors, exit, algodRound, indexerRound>>
  BY Zenon, BecomesWorker
<1>2. Shape'
  BY Zenon, <1>1 DEF IInv, Shape, scanner
<1>3. ClosedInv'
  BY Zenon, <1>1 DEF IInv, ClosedInv, Running, scanner
<1>4. ErrorsInv' /\ ReadInv'
  BY Zenon, <1>1 DEF IInv, ErrorsInv, ReadInv, scanner
<1>5. (\A v \in Workers : WorkerInv(v))'
  <2>1. ASSUME NEW v \in Workers \ {w} PROVE WorkerInv(v)'
    <3>1. WorkerInv(v) /\ (v \in Busy' <=> v \in Busy)
      BY Zenon, <1>1 DEF IInv, Busy
    <3> QED BY Zenon, <1>1, <3>1 DEF WorkerInv
  <2> QED BY Zenon, <2>1
<1>6. \A x \in AllResults' : x \in AllResults \/ VerdictRight(x)
  BY Zenon, <1>1 DEF AllResults
<1>7. (\A x \in AllResults : VerdictRight(x))'
  BY Zenon, <1>1, <1>6, VerdictsFrame
<1> QED BY Zenon, <1>2, <1>3, <1>4, <1>5, <1>7 DEF IInv

LEMMA ResultIsTyped ==
  ASSUME NEW line \in Lines, NEW outcome, outcome.Equal \in BOOLEAN,
         outcome.SameRound \in BOOLEAN, outcome.Skip \in BOOLEAN,
         NEW m \in 0 .. MaxRound, NEW n \in 0 .. MaxRound
  PROVE  /\ Result(line, outcome, <<m, n>>) \in Results
         /\ Result(line, outcome, <<m, n>>).line = line
         /\ Result(line, outcome, <<m, n>>).compared = <<m, n>>
BY Zenon DEF Result, Results

LEMMA FailedIsTyped ==
  ASSUME NEW line \in Lines, NEW skip \in BOOLEAN
  PROVE  /\ Result(line, Failed(skip), <<0, 0>>) \in Results
         /\ Result(line, Failed(skip), <<0, 0>>).line = line
         /\ VerdictRight(Result(line, Failed(skip), <<0, 0>>))
<1>1. /\ Failed(skip).Equal \in BOOLEAN /\ Failed(skip).SameRound \in BOOLEAN
      /\ Failed(skip).Skip \in BOOLEAN /\ 0 \in 0 .. MaxRound
  BY CallAssumption DEF Failed
<1>2. /\ Result(line, Failed(skip), <<0, 0>>) \in Results
      /\ Result(line, Failed(skip), <<0, 0>>).line = line
      /\ Result(line, Failed(skip), <<0, 0>>).compared = <<0, 0>>
  BY <1>1, ResultIsTyped
<1> QED BY <1>2, SMTT(60) DEF VerdictRight

LEMMA IdleIsWorker == Idle \in WorkerStates /\ Idle.pc = "range"
BY CallAssumption DEF Idle, WorkerStates

(* A result goes into the channel. *)
LEMMA SendResultStep == ASSUME IInv, NEW w \in Workers, SendResult(w) PROVE IInv'
<1> DEFINE x == worker[w].result
<1>1. /\ read \in Seq(Lines) /\ work \in Seq(Lines) /\ results \in Seq(Results)
      /\ numResults \in Nat /\ ResultsCap \in Nat
      /\ Len(results) < ResultsCap /\ Len(work) <= WorkCap
  BY Zenon, CallAssumption DEF IInv, Shape, SendResult
<1>2. Running /\ worker[w].pc = "send" /\ Becomes(w, Idle) /\ work' = work
      /\ results' = Append(results, x) /\ Idle \in WorkerStates
  BY Zenon, IdleIsWorker DEF SendResult
<1>3. w \in Busy /\ x \in Results /\ x.line = worker[w].line
  BY Zenon, <1>2 DEF IInv, WorkerInv, Busy
<1>4. /\ worker'[w] = Idle /\ \A v \in Workers \ {w} : worker'[v] = worker[v]
      /\ UNCHANGED <<read, printed, numResults>>
  BY Zenon, <1>2, BecomesWorker DEF scanner
<1>5. Busy' = Busy \ {w}
  BY Zenon, <1>4, IdleIsWorker DEF Busy
<1> HIDE DEF x
<1>6. /\ results' \in Seq(Results) /\ Len(results') = Len(results) + 1
      /\ Len(work) \in Nat /\ Len(results) \in Nat /\ Len(read) \in Nat
  BY Zenon, <1>1, <1>2, <1>3, AppendProperties, LenProperties
<1>7. SeqElements(results') = SeqElements(results) \cup {x}
  BY <1>1, <1>2, <1>3, ElementsAppend
<1>8. LinesInv'
  <2>1. {worker[v].line : v \in Busy} = {worker'[v].line : v \in Busy'} \cup {x.line}
    <3>1. \A v \in Busy' : worker'[v].line = worker[v].line
      BY Zenon, <1>4, <1>5 DEF Busy
    <3> QED BY Zenon, <1>3, <1>5, <3>1
  <2>2. {y.line : y \in SeqElements(results')} = {y.line : y \in SeqElements(results)} \cup {x.line}
    BY Zenon, <1>7
  <2>3. Everywhere' = Everywhere
    BY Zenon, <1>2, <1>4, <2>1, <2>2 DEF Everywhere
  <2>4. /\ Len(work) + Cardinality(Busy) + Len(results) + numResults = Len(read)
        /\ Cardinality(Busy) \in Nat /\ Cardinality(Busy') = Cardinality(Busy) - 1
    BY Zenon, <1>3, <1>5, BusyFinite, FS_RemoveElement DEF IInv, LinesInv
  <2>5. Len(work) + Cardinality(Busy') + Len(results') + numResults = Len(read)
    BY SMTT(60), <1>1, <1>6, <2>4
  <2> QED BY Zenon, <1>2, <1>4, <2>3, <2>5 DEF IInv, LinesInv
<1>9. WorkerInv(w)'
  BY Zenon, <1>4, <1>5, IdleIsWorker DEF WorkerInv
<1>10. \A y \in SeqElements(results') : y \in AllResults
  BY Zenon, <1>2, <1>7 DEF AllResults, x
<1>11. Len(results') <= ResultsCap
  BY <1>1, <1>6
<1>12. Idle.pc # "send"
  BY Zenon, IdleIsWorker
<1> QED BY Zenon, <1>1, <1>2, <1>6, <1>8, <1>9, <1>10, <1>11, <1>12, BecomesStep

(* A line is taken, or the worker is done. *)
LEMMA CallProcessorStep == ASSUME IInv, NEW w \in Workers, CallProcessor(w) PROVE IInv'
<1>1. /\ read \in Seq(Lines) /\ work \in Seq(Lines) /\ results \in Seq(Results)
      /\ numResults \in Nat /\ WorkCap \in Nat
      /\ Len(results) <= ResultsCap /\ Len(work) <= WorkCap
  BY Zenon, CallAssumption DEF IInv, Shape
<1>2. Running /\ worker[w].pc = "range" /\ w \notin Busy /\ results' = results
  BY Zenon DEF CallProcessor, Busy
<1>3. \A y \in SeqElements(results') : y \in AllResults
  BY Zenon, <1>2 DEF AllResults
<1>4. CASE work = <<>> /\ workClosed /\ Becomes(w, [worker[w] EXCEPT !.pc = "done"])
             /\ UNCHANGED work
  <2> DEFINE r == [worker[w] EXCEPT !.pc = "done"]
  <2>1. r \in WorkerStates /\ r.pc = "done"
    BY Zenon DEF IInv, Shape, WorkerStates
  <2> HIDE DEF r
  <2>2. /\ worker'[w] = r /\ \A v \in Workers \ {w} : worker'[v] = worker[v]
        /\ UNCHANGED <<read, workClosed, printed, numResults>>
    BY Zenon, <1>4, <2>1, BecomesWorker DEF r, scanner
  <2>3. Busy' = Busy
    BY Zenon, <1>2, <2>1, <2>2 DEF Busy
  <2>4. \A v \in Busy : worker'[v].line = worker[v].line
    BY Zenon, <1>2, <2>2 DEF Busy
  <2>5. LinesInv'
    BY Zenon, <1>2, <1>4, <2>2, <2>3, <2>4, LinesFrame
  <2>6. WorkerInv(w)'
    BY Zenon, <1>2, <1>4, <2>1, <2>2, <2>3 DEF WorkerInv
  <2> QED BY Zenon, <1>1, <1>2, <1>3, <1>4, <2>1, <2>5, <2>6, BecomesStep DEF r
<1>5. CASE /\ work # <<>> /\ work' = Tail(work)
           /\ Becomes(w, [worker[w] EXCEPT !.line = Head(work),
                !.pc = IF Kind[Head(work)] \in {"address", "box"} THEN "algod" ELSE "send",
                !.result = Result(Head(work), Failed(FALSE), <<0, 0>>)])
  <2> DEFINE line == Head(work)
             p == IF Kind[line] \in {"address", "box"} THEN "algod" ELSE "send"
             x == Result(line, Failed(FALSE), <<0, 0>>)
             r == [worker[w] EXCEPT !.line = line, !.pc = p, !.result = x]
  <2>1. line \in Lines /\ work' \in Seq(Lines) /\ Len(work') = Len(work) - 1
        /\ Len(work) \in Nat /\ Len(results) \in Nat /\ Len(read) \in Nat
    BY Zenon, <1>1, <1>5, HeadTailProperties, LenProperties
  <2> HIDE DEF line
  <2>2. x \in Results /\ x.line = line /\ VerdictRight(x)
    BY Zenon, <2>1, FailedIsTyped
  <2>3. p \in {"algod", "send"} /\ (p = "algod" => Kind[line] \in {"address", "box"})
    BY Zenon
  <2> HIDE DEF p, x
  <2>4. worker[w] \in WorkerStates
    BY Zenon DEF IInv, Shape
  <2>5. r \in WorkerStates /\ r.line = line /\ r.pc = p /\ r.result = x
    BY Zenon, <2>1, <2>2, <2>3, <2>4 DEF WorkerStates
  <2> HIDE DEF r
  <2>6. /\ worker'[w] = r /\ \A v \in Workers \ {w} : worker'[v] = worker[v]
        /\ UNCHANGED <<read, workClosed, printed, numResults>>
    BY Zenon, <1>5, <2>5, BecomesWorker DEF r, p, x, line, scanner
  <2>7. Busy' = Busy \cup {w}
    BY Zenon, <1>2, <2>3, <2>5, <2>6 DEF Busy
  <2>8. LinesInv'
    <3>1. {worker'[v].line : v \in Busy'} = {worker[v].line : v \in Busy} \cup {line}
      <4>1. worker'[w].line = line /\ \A v \in Busy : worker'[v].line = worker[v].line
        BY Zenon, <1>2, <2>5, <2>6 DEF Busy
      <4> QED BY Zenon, <2>7, <4>1
    <3>2. SeqElements(work) = {line} \cup SeqElements(work')
      BY Zenon, <1>1, <1>5, ElementsHeadTail DEF line
    <3>3. Everywhere' = Everywhere
      BY Zenon, <1>2, <2>6, <3>1, <3>2 DEF Everywhere
    <3>4. /\ Len(work) + Cardinality(Busy) + Len(results) + numResults = Len(read)
          /\ Cardinality(Busy) \in Nat /\ Cardinality(Busy') = Cardinality(Busy) + 1
      BY Zenon, <1>2, <2>7, BusyFinite, FS_AddElement DEF IInv, LinesInv
    <3>5. Len(work') + Cardinality(Busy') + Len(results) + numResults = Len(read)
      <4>1. /\ numResults \in Nat /\ Len(work) \in Nat
            /\ Len(results) \in Nat /\ Len(read) \in Nat /\ Len(work') = Len(work) - 1
        BY Zenon, <1>1, <2>1
      <4> QED BY SMTT(60), <3>4, <4>1
    <3> QED BY Zenon, <1>2, <2>6, <3>3, <3>5 DEF IInv, LinesInv
  <2>9. WorkerInv(w)'
    BY Zenon, <2>1, <2>2, <2>3, <2>5, <2>6 DEF WorkerInv
  <2>10. r.pc = "send" => VerdictRight(r.result)
    BY Zenon, <2>2, <2>5
  <2>11. Len(work') <= WorkCap
    BY SMTT(60), <1>1, <2>1
  <2> QED BY Zenon, <1>1, <1>2, <1>3, <1>5, <2>1, <2>5, <2>8, <2>9, <2>10, <2>11, BecomesStep
          DEF r, p, x, line
<1> QED BY Zenon, <1>4, <1>5 DEF CallProcessor

-----------------------------------------------------------------------------
(* A worker goes on with its line. *)
LEMMA GoesOn ==
  ASSUME IInv, NEW w \in Workers, NEW r \in WorkerStates, Becomes(w, r), Running,
         UNCHANGED <<work, results>>, worker[w].pc \in {"algod", "indexer"},
         r.pc \in {"indexer", "send"}, r.line = worker[w].line,
         r.pc = "indexer" => r.snapshot \in 1 .. MaxRound,
         r.pc = "send" => /\ r.result \in Results /\ r.result.line = r.line
                          /\ VerdictRight(r.result)
  PROVE  IInv'
<1>1. /\ worker'[w] = r /\ \A v \in Workers \ {w} : worker'[v] = worker[v]
      /\ UNCHANGED <<read, printed, numResults>>
  BY Zenon, BecomesWorker DEF scanner
<1>2. Busy' = Busy /\ w \in Busy
  BY Zenon, <1>1 DEF Busy
<1>3. \A v \in Busy : worker'[v].line = worker[v].line
  BY Zenon, <1>1 DEF Busy
<1>4. LinesInv'
  BY Zenon, <1>1, <1>2, <1>3, LinesFrame
<1>5. WorkerInv(w)'
  <2>1. WorkerInv(w)
    BY Zenon DEF IInv
  <2> QED BY Zenon, <1>1, <1>2, <2>1 DEF WorkerInv
<1>6. /\ work' \in Seq(Lines) /\ Len(work') <= WorkCap /\ results' \in Seq(Results)
      /\ Len(results') <= ResultsCap
  BY Zenon DEF IInv, Shape
<1>7. \A x \in SeqElements(results') : x \in AllResults
  BY Zenon DEF AllResults, SeqElements
<1> QED BY Zenon, <1>4, <1>5, <1>6, <1>7, BecomesStep

(* An error ends the work on a line. *)
LEMMA FailsStep ==
  ASSUME IInv, NEW w \in Workers, worker[w].pc \in {"algod", "indexer"}, Running,
         NEW skip \in BOOLEAN, Becomes(w, Sending(w, Failed(skip), <<0, 0>>)),
         UNCHANGED <<work, results>>
  PROVE  IInv'
<1> DEFINE x == Result(worker[w].line, Failed(skip), <<0, 0>>)
           r == [worker[w] EXCEPT !.pc = "send", !.result = x]
<1>1. worker[w].line \in Lines /\ worker[w] \in WorkerStates
  BY Zenon DEF IInv, Shape, WorkerInv, Busy
<1>2. x \in Results /\ x.line = worker[w].line /\ VerdictRight(x)
  BY Zenon, <1>1, FailedIsTyped
<1> HIDE DEF x
<1>3. r \in WorkerStates /\ r.pc = "send" /\ r.line = worker[w].line /\ r.result = x
  BY Zenon, <1>1, <1>2 DEF WorkerStates
<1>4. Becomes(w, r)
  BY Zenon DEF Sending, x
<1> HIDE DEF r
<1> QED BY Zenon, <1>2, <1>3, <1>4, GoesOn

(* Algod answers, or does not. *)
LEMMA GetAlgodDataStep == ASSUME IInv, NEW w \in Workers, getAlgodData(w) PROVE IInv'
<1> DEFINE r == [worker[w] EXCEPT !.pc = "indexer", !.snapshot = algodRound]
<1>1. Running /\ worker[w].pc = "algod" /\ UNCHANGED <<work, results>>
  BY Zenon DEF getAlgodData
<1>2. CASE Becomes(w, r)
  <2>1. algodRound \in 1 .. MaxRound /\ algodRound \in 0 .. MaxRound /\ worker[w] \in WorkerStates
    BY CallAssumption DEF IInv, Shape
  <2>2. r \in WorkerStates /\ r.pc = "indexer" /\ r.line = worker[w].line /\ r.snapshot = algodRound
    BY Zenon, <2>1 DEF WorkerStates
  <2> HIDE DEF r
  <2> QED BY Zenon, <1>1, <1>2, <2>1, <2>2, GoesOn
<1>3. ASSUME NEW skip \in BOOLEAN, Becomes(w, Sending(w, Failed(skip), <<0, 0>>))
      PROVE  IInv'
  BY Zenon, <1>1, <1>3, FailsStep
<1> QED BY Zenon, <1>2, <1>3 DEF getAlgodData

-----------------------------------------------------------------------------
(* What the indexer keeps of the resources that are gone. *)
LEMMA GoneIsGone ==
  ASSUME NEW line, NEW round, NEW g \in Gone(line, round)
  PROVE  /\ g = [id |-> g.id, data |-> 0, deleted |-> TRUE]
         /\ g.deleted = TRUE /\ g.data = 0
         /\ \A x \in History[line][round].list : x.id # g.id
BY DEF Gone

LEMMA RightAccount ==
  ASSUME NEW line \in Lines, Kind[line] = "address", NEW round \in 1 .. MaxRound,
         NEW a, a = History[line][round], NEW b, b = Right(line, round)
  PROVE  /\ a \in AlgodAccounts
         /\ b.amount = a.amount /\ b.pending = a.pending /\ b.rewards = a.rewards - a.pending
         /\ b.auth \in {a.auth, {Self}} /\ b.list = a.list \cup Gone(line, round)
<1> DEFINE au == IF a.auth = {} /\ \E r \in 1 .. round : History[line][r].auth # {}
                   THEN {Self} ELSE a.auth
           re == a.rewards - a.pending
           de == a.amount = 0
           li == a.list \cup Gone(line, round)
<1>1. a \in AlgodAccounts
  BY Zenon, HistoryAssumption DEF Lines
<1>2. b = [a EXCEPT !.auth = au, !.rewards = re, !.deleted = de, !.list = li]
  BY Zenon DEF Right
<1>3. au \in {a.auth, {Self}}
  BY Zenon
<1> HIDE DEF au, re, de, li
<1>4. /\ b.amount = a.amount /\ b.pending = a.pending /\ b.rewards = re
      /\ b.auth = au /\ b.list = li
  BY <1>1, <1>2, ZenonT(60) DEF AlgodAccounts
<1> QED BY Zenon, <1>1, <1>3, <1>4 DEF re, li

(* What a section of equals finds. *)
LEMMA NoDifference == \A name, found : (Difference(name, found) = {}) <=> ~found
BY Zenon DEF Difference

(* The StructProcessor finds no difference to an account that is right. *)
LEMMA RightIsEqual ==
  ASSUME NEW line \in Lines, Kind[line] = "address", NEW round \in 1 .. MaxRound
  PROVE  equals(Right(line, round), History[line][round]) = {}
<1> DEFINE a == History[line][round]
           b == Right(line, round)
           live == lookupMap(b.list)
           of(id) == {x.data : x \in {y \in live : y.id = id}}
<1>1. /\ a \in AlgodAccounts /\ b.amount = a.amount /\ b.pending = a.pending
      /\ b.rewards = a.rewards - a.pending /\ b.auth \in {a.auth, {Self}}
      /\ b.list = a.list \cup Gone(line, round)
  BY SMTT(60), RightAccount
<1>2. a.list \subseteq Resources /\ a.rewards \in Int /\ a.pending \in Int
  BY Zenon, <1>1 DEF AlgodAccounts
<1>3. \A x, y \in a.list : x.id = y.id => x = y
  <2>1. Different(a.list)
    BY Zenon, HistoryAssumption DEF Lines
  <2>2. Live(a.list) = a.list
    <3> HIDE DEF a
    <3> QED BY Zenon, <1>2 DEF Live, Resources
  <2> HIDE DEF a
  <2> QED BY Zenon, <2>1, <2>2 DEF Different
<1> HIDE DEF a, b
<1>4. live = a.list
  <2>1. \A x \in a.list : ~x.deleted
    BY Zenon, <1>2 DEF Resources
  <2>2. \A x \in Gone(line, round) : x.deleted
    BY Zenon, GoneIsGone
  <2> QED BY Zenon, <1>1, <2>1, <2>2 DEF lookupMap
<1> HIDE DEF live
<1>5. ASSUME NEW x \in a.list PROVE of(x.id) = {x.data}
  BY Zenon, <1>3, <1>4
<1>6. \A x \in a.list : Difference("missing", of(x.id) = {}) = {}
  BY ZenonT(30), <1>5, NoDifference
<1>7. \A x \in a.list :
        Difference("data", \E y \in IF of(x.id) = {} THEN {0} ELSE of(x.id) :
                             ~dataEqual(x.data, y)) = {}
  <2> TAKE x \in a.list
  <2>1. of(x.id) = {x.data}
    BY Zenon, <1>5
  <2>2. ~ \E y \in IF of(x.id) = {} THEN {0} ELSE of(x.id) : ~dataEqual(x.data, y)
    BY Zenon, <2>1 DEF dataEqual
  <2> HIDE DEF of
  <2> QED BY Zenon, <2>2, NoDifference
<1>8. Difference("count", Cardinality(live) # Cardinality(a.list)) = {}
  BY Zenon, <1>4, NoDifference
<1>9. listDifferences(b.list, a.list) = {}
  <2> HIDE DEF of
  <2>1. listDifferences(b.list, a.list) =
          Difference("count", Cardinality(live) # Cardinality(a.list))
          \cup UNION {Difference("missing", of(x.id) = {})
                      \cup Difference("data", \E y \in IF of(x.id) = {} THEN {0} ELSE of(x.id) :
                                                ~dataEqual(x.data, y)) : x \in a.list}
    BY Zenon DEF listDifferences, of, live
  <2> QED BY <1>6, <1>7, <1>8, <2>1, ZenonT(60)
<1>10. Difference("amount", a.amount # b.amount) = {}
  BY Zenon, <1>1, NoDifference
<1>11. Difference("auth-addr", a.auth # b.auth /\ b.auth # {Self}) = {}
  BY Zenon, <1>1, NoDifference
<1>12. Difference("pending-rewards", a.pending # b.pending) = {}
  BY Zenon, <1>1, NoDifference
<1>13. Difference("rewards", a.rewards \notin {b.rewards, b.rewards + b.pending}) = {}
  <2>1. a.rewards = b.rewards + b.pending
    BY <1>1, <1>2
  <2> QED BY Zenon, <2>1, NoDifference
<1>14. equals(b, a) = {}
  BY Zenon, <1>9, <1>10, <1>11, <1>12, <1>13 DEF equals
<1> QED BY Zenon, <1>14 DEF a, b

(* The live resources are algod's when each is as in algod's list. *)
LEMMA SameResource ==
  ASSUME NEW x \in Resources, NEW y \in ShownResources, ~y.deleted, x.id = y.id, x.data = y.data
  PROVE  x = y
<1>1. x.deleted = FALSE /\ y.deleted = FALSE
  BY Zenon DEF Resources, ShownResources
<1>2. x = [id |-> x.id, data |-> x.data, deleted |-> x.deleted]
  BY Zenon DEF Resources
<1>3. y = [id |-> y.id, data |-> y.data, deleted |-> y.deleted]
  BY Zenon DEF ShownResources
<1> QED BY Zenon, <1>1, <1>2, <1>3

LEMMA ListsAgree ==
  ASSUME NEW a, a \subseteq Resources, NEW c, c \subseteq ShownResources, IsFiniteSet(c),
         listDifferences(c, a) = {}
  PROVE  Live(c) = a
<1> DEFINE live == lookupMap(c)
           of(id) == {x.data : x \in {y \in live : y.id = id}}
           missing(x) == Difference("missing", of(x.id) = {})
           data(x) == Difference("data", \E y \in IF of(x.id) = {} THEN {0} ELSE of(x.id) :
                                           ~dataEqual(x.data, y))
           count == Difference("count", Cardinality(live) # Cardinality(a))
<1>1. count = {} /\ \A x \in a : missing(x) = {} /\ data(x) = {}
  <2>1. listDifferences(c, a) = count \cup UNION {missing(x) \cup data(x) : x \in a}
    <3> HIDE DEF of
    <3> QED BY Zenon DEF listDifferences, of
  <2>2. \A x \in a : missing(x) \cup data(x) \in {missing(y) \cup data(y) : y \in a}
    <3> HIDE DEF missing, data
    <3> QED BY Zenon
  <2> DEFINE all == {missing(x) \cup data(x) : x \in a}
  <2> HIDE DEF missing, data, count, all
  <2>3. count = {} /\ UNION all = {}
    BY Zenon, <2>1 DEF all
  <2>4. ASSUME NEW x \in a PROVE missing(x) = {} /\ data(x) = {}
    <3>1. missing(x) \cup data(x) \in all
      BY Zenon, <2>2 DEF all
    <3>2. ASSUME NEW e \in missing(x) \cup data(x) PROVE FALSE
      <4>1. e \in UNION all
        BY Zenon, <3>1, <3>2
      <4> QED BY Zenon, <2>3, <4>1
    <3> QED BY Zenon, <3>2
  <2> QED BY Zenon, <2>3, <2>4
<1>2. Cardinality(live) = Cardinality(a)
  BY Zenon, <1>1, NoDifference
<1>3. ASSUME NEW x \in a PROVE x \in live
  <2>1. /\ of(x.id) # {}
        /\ ~ \E y \in IF of(x.id) = {} THEN {0} ELSE of(x.id) : ~dataEqual(x.data, y)
    <3> HIDE DEF of
    <3> QED BY Zenon, <1>1, NoDifference
  <2>2. PICK y \in live : y.id = x.id
    BY Zenon, <2>1
  <2>3. y.data \in of(x.id)
    BY Zenon, <2>2
  <2>4. x.data = y.data
    <3> HIDE DEF of
    <3> QED BY Zenon, <2>1, <2>3 DEF dataEqual
  <2>5. x = y
    BY Zenon, <2>2, <2>4, SameResource DEF lookupMap
  <2> QED BY Zenon, <2>2, <2>5
<1>4. IsFiniteSet(live)
  BY Zenon, FS_Subset DEF lookupMap
<1> HIDE DEF live
<1>5. live = a
  BY Zenon, <1>2, <1>3, <1>4, FS_Subset
<1> QED BY Zenon, <1>5 DEF live, lookupMap, Live

(* An account that the StructProcessor calls equal to one that algod has    *)
(* agrees with it.                                                         *)
LEMMA StructEqualAgrees ==
  ASSUME NEW a \in AlgodAccounts, NEW c \in ShownAccounts, IsFiniteSet(c.list),
         a.amount # 0, equals(c, a) = {}
  PROVE  Agrees(c, a)
<1>1. /\ Difference("amount", a.amount # c.amount) = {}
      /\ Difference("auth-addr", a.auth # c.auth /\ c.auth # {Self}) = {}
      /\ Difference("pending-rewards", a.pending # c.pending) = {}
      /\ Difference("rewards", a.rewards \notin {c.rewards, c.rewards + c.pending}) = {}
      /\ listDifferences(c.list, a.list) = {}
  BY Zenon DEF equals
<1>2. /\ a.amount = c.amount /\ a.pending = c.pending /\ c.auth \in {a.auth, {Self}}
      /\ a.rewards \in {c.rewards, c.rewards + c.pending}
  BY Zenon, <1>1, NoDifference
<1>3. c.rewards \in {a.rewards, a.rewards - a.pending}
  <2>1. a.rewards \in Int /\ c.rewards \in Int /\ c.pending \in Int
    BY Zenon DEF AlgodAccounts, ShownAccounts
  <2> QED BY SMTT(60), <1>2, <2>1
<1>4. Live(c.list) = a.list
  <2>1. a.list \subseteq Resources /\ c.list \subseteq ShownResources
    BY Zenon DEF AlgodAccounts, ShownAccounts
  <2> QED BY Zenon, <1>1, <2>1, ListsAgree
<1> QED BY Zenon, <1>2, <1>3, <1>4 DEF Agrees

(* An account that the DynamicProcessor calls equal agrees with algod's. *)
LEMMA DynamicEqualAgrees ==
  ASSUME NEW a \in AlgodAccounts, NEW c \in ShownAccounts, normalize(a) = normalize(c)
  PROVE  Agrees(c, a)
<1> DEFINE pairs(list) == normalizeRecurse(list)
           t(x) == <<x.amount, x.auth, x.rewards, x.pending, pairs(x.list)>>
<1>1. /\ a.deleted = FALSE /\ a.list \subseteq Resources /\ c.list \subseteq ShownResources
  BY Zenon DEF AlgodAccounts, ShownAccounts
<1>2. t(a) = t(c)
  <2>1. normalize(a) = {t(a)} /\ normalize(c) \in {{}, {t(c)}}
    <3> HIDE DEF pairs
    <3> QED BY Zenon, <1>1 DEF normalize, isDeleted, pairs
  <2> HIDE DEF t
  <2> QED BY Zenon, <2>1
<1>3. /\ c.amount = a.amount /\ c.auth = a.auth /\ c.rewards = a.rewards
      /\ c.pending = a.pending /\ pairs(c.list) = pairs(a.list)
  <2> HIDE DEF pairs
  <2> QED BY Zenon, <1>2
<1>4. \A x \in a.list : ~x.deleted
  BY Zenon, <1>1 DEF Resources
<1>5. ASSUME NEW y \in c.list, ~y.deleted PROVE y \in a.list
  <2>1. <<y.id, y.data>> \in pairs(a.list)
    BY Zenon, <1>3, <1>5 DEF normalizeRecurse, isDeleted
  <2>2. PICK x \in a.list : <<y.id, y.data>> = <<x.id, x.data>>
    BY Zenon, <2>1 DEF normalizeRecurse
  <2>3. x = y
    BY Zenon, <1>1, <1>5, <2>2, SameResource
  <2> QED BY Zenon, <2>2, <2>3
<1>6. ASSUME NEW x \in a.list PROVE x \in c.list
  <2>1. <<x.id, x.data>> \in pairs(c.list)
    BY Zenon, <1>3, <1>4 DEF normalizeRecurse, isDeleted
  <2>2. PICK y \in c.list : ~y.deleted /\ <<x.id, x.data>> = <<y.id, y.data>>
    BY Zenon, <2>1 DEF normalizeRecurse, isDeleted
  <2>3. x = y
    BY Zenon, <1>1, <2>2, SameResource
  <2> QED BY Zenon, <2>2, <2>3
<1>7. Live(c.list) = a.list
  BY Zenon, <1>4, <1>5, <1>6 DEF Live
<1> QED BY Zenon, <1>3, <1>7 DEF Agrees

(* The outcome of comparing two answers, by processor and kind. *)
LEMMA OutcomeFields ==
  ASSUME NEW e \in BOOLEAN, NEW d \in BOOLEAN, NEW o, o = [Equal |-> e, SameRound |-> d]
  PROVE  (o.Equal <=> e) /\ (o.SameRound <=> d) /\ o.Equal \in BOOLEAN /\ o.SameRound \in BOOLEAN
BY Zenon

LEMMA CompareAddress ==
  ASSUME NEW line, Kind[line] = "address", NEW m, NEW n, NEW o, o = Compare(line, m, n),
         NEW a, a = History[line][m], NEW c, c = Shown[line][n],
         processor \in {"Struct", "Dynamic"}
  PROVE  /\ o.Equal \in BOOLEAN /\ o.SameRound \in BOOLEAN
         /\ processor = "Struct" => /\ o.Equal <=> equals(c, a) = {}
                                    /\ o.SameRound <=> equals(c, a) # {} /\ m = n
         /\ processor = "Dynamic" => (o.Equal <=> normalize(a) = normalize(c)) /\ ~o.SameRound
<1>1. CASE processor = "Struct"
  <2>1. o = [Equal |-> equals(c, a) = {}, SameRound |-> equals(c, a) # {} /\ m = n]
    BY Zenon, <1>1 DEF Compare, StructAddress
  <2> QED BY Zenon, <1>1, <2>1, OutcomeFields
<1>2. CASE processor = "Dynamic"
  <2>1. o = [Equal |-> normalize(a) = normalize(c), SameRound |-> FALSE]
    BY Zenon, <1>2 DEF Compare, DynamicAddress
  <2> QED BY Zenon, <1>2, <2>1, OutcomeFields
<1> QED BY Zenon, <1>1, <1>2

LEMMA CompareBox ==
  ASSUME NEW line, Kind[line] = "box", NEW m, NEW n, NEW o, o = Compare(line, m, n),
         NEW a, a = History[line][m], NEW c, c = Shown[line][n],
         processor \in {"Struct", "Dynamic"}
  PROVE  /\ o.Equal \in BOOLEAN /\ o.SameRound \in BOOLEAN
         /\ processor = "Struct" => (o.Equal <=> a = c) /\ (o.SameRound <=> a # c /\ m = n)
         /\ processor = "Dynamic" => (o.Equal <=> a = c /\ m = n) /\ ~o.SameRound
<1>1. CASE processor = "Struct"
  <2>1. o = [Equal |-> a = c, SameRound |-> a # c /\ m = n]
    BY Zenon, <1>1 DEF Compare, StructBox
  <2> QED BY Zenon, <1>1, <2>1, OutcomeFields
<1>2. CASE processor = "Dynamic"
  <2>1. o = [Equal |-> a = c /\ m = n, SameRound |-> FALSE]
    BY Zenon, <1>2 DEF Compare, DynamicBox
  <2> QED BY Zenon, <1>2, <2>1, OutcomeFields
<1> QED BY Zenon, <1>1, <1>2

(* The verdict on two answers of one round. *)
LEMMA CompareIsRight ==
  ASSUME NEW line \in Lines, Kind[line] \in {"address", "box"}, NEW n \in 1 .. MaxRound,
         NEW o, o = Compare(line, n, n), NEW a, a = History[line][n],
         NEW c, c = Shown[line][n], NEW b, b = Right(line, n),
         processor \in {"Struct", "Dynamic"}
  PROVE  VerdictOf(line, n, o.Equal, o.SameRound)
<1>1. CASE Kind[line] = "address"
  <2>1. c = b => equals(c, a) = {}
    BY Zenon, <1>1, RightIsEqual
  <2>2. a \in AlgodAccounts /\ c \in ShownAccounts /\ IsFiniteSet(c.list)
    BY Zenon, <1>1, HistoryAssumption DEF Lines, Different
  <2>3. equals(c, a) = {} /\ a.amount # 0 => Agrees(c, a)
    BY Zenon, <2>2, StructEqualAgrees
  <2>4. normalize(a) = normalize(c) => Agrees(c, a)
    BY Zenon, <2>2, DynamicEqualAgrees
  <2>5. /\ processor = "Struct" => /\ o.Equal <=> equals(c, a) = {}
                                   /\ o.SameRound <=> equals(c, a) # {} /\ n = n
        /\ processor = "Dynamic" => (o.Equal <=> normalize(a) = normalize(c)) /\ ~o.SameRound
    BY SMTT(60), <1>1, CompareAddress
  <2>6. /\ o.Equal /\ a.amount # 0 => Agrees(c, a)
        /\ c = b /\ processor = "Struct" => o.Equal
        /\ o.SameRound => c # b
    BY Zenon, <2>1, <2>3, <2>4, <2>5
  <2> QED BY Zenon, <1>1, <2>6 DEF VerdictOf
<1>2. CASE Kind[line] = "box"
  <2>1. b = a
    BY Zenon, <1>2 DEF Right
  <2>2. /\ processor = "Struct" => (o.Equal <=> a = c) /\ (o.SameRound <=> a # c /\ n = n)
        /\ processor = "Dynamic" => (o.Equal <=> a = c /\ n = n) /\ ~o.SameRound
    BY SMTT(60), <1>2, CompareBox
  <2>3. (o.Equal => c = a) /\ (c = b /\ processor = "Struct" => o.Equal) /\ (o.SameRound => c # b)
    BY Zenon, <2>1, <2>2
  <2> QED BY Zenon, <1>2, <2>3 DEF VerdictOf
<1> QED BY Zenon, <1>1, <1>2

(* The result of a comparison. *)
LEMMA ComparedRight ==
  ASSUME NEW line \in Lines, Kind[line] \in {"address", "box"}, NEW m \in 1 .. MaxRound,
         NEW n \in 1 .. MaxRound, NEW o, o = Compare(line, m, n),
         processor \in {"Struct", "Dynamic"}
  PROVE  LET x == Result(line, [Equal |-> o.Equal, Skip |-> FALSE, SameRound |-> o.SameRound],
                         <<m, n>>)
         IN  x \in Results /\ x.line = line /\ VerdictRight(x)
<1>1. o.Equal \in BOOLEAN /\ o.SameRound \in BOOLEAN
  BY Zenon, CompareAddress, CompareBox
<1>2. m = n => VerdictOf(line, n, o.Equal, o.SameRound)
  BY SMTT(60), CompareIsRight
<1> DEFINE e == o.Equal
           d == o.SameRound
           p == [Equal |-> e, Skip |-> FALSE, SameRound |-> d]
           x == Result(line, p, <<m, n>>)
<1>3. /\ m \in 0 .. MaxRound /\ n \in 0 .. MaxRound
      /\ p.Equal \in BOOLEAN /\ p.SameRound \in BOOLEAN /\ p.Skip \in BOOLEAN
  BY <1>1, CallAssumption
<1>4. x \in Results /\ x.line = line /\ x.compared = <<m, n>>
  <2> HIDE DEF p
  <2> QED BY SMTT(60), <1>3, ResultIsTyped
<1>5. x.Equal = e /\ x.SameRound = d
  BY Zenon DEF Result
<1>6. m = n => VerdictOf(line, n, e, d)
  BY Zenon, <1>2
<1> HIDE DEF x, e, d, p
<1>7. x.compared[1] = m /\ x.compared[2] = n
  BY <1>4
<1>8. VerdictRight(x)
  <2>1. CASE m # n
    BY Zenon, <1>7, <2>1 DEF VerdictRight
  <2>2. CASE m = n
    BY Zenon, <1>4, <1>5, <1>6, <1>7, <2>2 DEF VerdictRight
  <2> QED BY Zenon, <2>1, <2>2
<1> QED BY Zenon, <1>4, <1>8 DEF x, p, e, d

(* The indexer is asked, and asked again while the answers differ. *)
LEMMA RetryLoopStep == ASSUME IInv, NEW w \in Workers, retryLoop(w) PROVE IInv'
<1> DEFINE line == worker[w].line
           m == worker[w].snapshot
           o == Compare(line, m, indexerRound)
           p == [Equal |-> o.Equal, Skip |-> FALSE, SameRound |-> o.SameRound]
<1>1. Running /\ worker[w].pc = "indexer" /\ UNCHANGED <<work, results>>
  BY Zenon DEF retryLoop
<1>2. /\ line \in Lines /\ Kind[line] \in {"address", "box"} /\ m \in 1 .. MaxRound
      /\ indexerRound \in 1 .. MaxRound /\ processor \in {"Struct", "Dynamic"}
      /\ worker[w] \in WorkerStates
  BY Zenon, <1>1 DEF IInv, Shape, WorkerInv, Busy
<1>3. CASE Becomes(w, Sending(w, p, <<m, indexerRound>>))
  <2> DEFINE x == Result(line, p, <<m, indexerRound>>)
             r == [worker[w] EXCEPT !.pc = "send", !.result = x]
  <2>1. x \in Results /\ x.line = line /\ VerdictRight(x)
    <3> HIDE DEF line, m
    <3> QED BY Zenon, <1>2, ComparedRight
  <2> HIDE DEF x
  <2>2. r \in WorkerStates /\ r.pc = "send" /\ r.line = line /\ r.result = x
    BY Zenon, <1>2, <2>1 DEF WorkerStates
  <2>3. Becomes(w, r)
    BY Zenon, <1>3 DEF Sending, x
  <2> HIDE DEF r, p, o
  <2> QED BY Zenon, <1>1, <2>1, <2>2, <2>3, GoesOn
<1>4. CASE ~Finished(o, worker[w].i) /\ Becomes(w, [worker[w] EXCEPT !.i = @ + 1])
  <2> DEFINE r == [worker[w] EXCEPT !.i = worker[w].i + 1]
  <2>1. ~(worker[w].i >= Retries)
    <3> HIDE DEF o
    <3> QED BY Zenon, <1>4 DEF Finished
  <2>2. worker[w].i + 1 \in 0 .. Retries
    <3>1. worker[w].i \in 0 .. Retries /\ Retries \in Nat
      BY Zenon, <1>2, CallAssumption DEF WorkerStates
    <3> QED BY SMTT(60), <2>1, <3>1
  <2>3. r \in WorkerStates /\ r.pc = "indexer" /\ r.line = line /\ r.snapshot = m
    BY Zenon, <1>1, <1>2, <2>2 DEF WorkerStates
  <2>4. Becomes(w, r)
    BY Zenon, <1>4
  <2> HIDE DEF r, o, p
  <2> QED BY Zenon, <1>1, <1>2, <2>3, <2>4, GoesOn
<1>5. ASSUME NEW skip \in BOOLEAN, Becomes(w, Sending(w, Failed(skip), <<0, 0>>))
      PROVE  IInv'
  BY Zenon, <1>1, <1>5, FailsStep
<1> QED BY Zenon, <1>3, <1>4, <1>5 DEF retryLoop

-----------------------------------------------------------------------------
LEMMA InitInv == Init => IInv
<1> SUFFICES ASSUME Init PROVE IInv
  BY Zenon
<1>1. /\ processor \in {"Struct", "Dynamic"} /\ lines \in Seq(Lines)
      /\ input = lines /\ read = <<>> /\ scanErr = FALSE /\ work = <<>> /\ results = <<>>
      /\ printed = {} /\ numResults = 0 /\ numErrors = 0 /\ exit = "no"
      /\ workClosed = FALSE /\ resultsClosed = FALSE
      /\ algodRound \in 1 .. MaxRound /\ indexerRound \in 1 .. MaxRound
  BY Zenon, CallAssumption DEF Init, Lines
<1>2. worker \in [Workers -> WorkerStates] /\ \A w \in Workers : worker[w].pc = "range"
  BY Zenon, IdleIsWorker DEF Init
<1>3. Len(work) = 0 /\ Len(results) = 0 /\ Len(read) = 0
      /\ read \in Seq(Lines) /\ work \in Seq(Lines) /\ results \in Seq(Results)
  BY Zenon, <1>1, LenProperties, EmptySeq
<1>4. WorkCap \in Nat /\ ResultsCap \in Nat
  BY Zenon, CallAssumption
<1>5. Shape
  <2>1. /\ Len(work) <= WorkCap /\ Len(results) <= ResultsCap
        /\ numResults \in Nat /\ numErrors \in Nat /\ numErrors <= numResults
    BY <1>1, <1>3, <1>4
  <2>2. /\ workClosed \in BOOLEAN /\ resultsClosed \in BOOLEAN /\ printed \subseteq Results
        /\ exit \in {"no", "0", "1", "interrupted"} /\ input \in Seq(Lines)
        /\ scanErr \in BOOLEAN
    BY Zenon, <1>1
  <2> QED BY Zenon, <1>1, <1>2, <1>3, <2>1, <2>2 DEF Shape
<1>6. Busy = {}
  BY Zenon, <1>2 DEF Busy
<1>7. \A w \in Workers : WorkerInv(w)
  BY Zenon, <1>2, <1>6 DEF WorkerInv
<1>8. ClosedInv
  BY Zenon, <1>1 DEF ClosedInv
<1>9. LinesInv
  <2>1. Everywhere = SeqElements(read)
    BY Zenon, <1>1, <1>6, ElementsEmpty DEF Everywhere
  <2>2. Cardinality(Busy) = 0
    BY Zenon, <1>6, FS_EmptySet
  <2> QED BY SMTT(60), <1>1, <1>3, <2>1, <2>2 DEF LinesInv
<1>10. ErrorsInv
  BY Zenon, <1>1 DEF ErrorsInv
<1>12. ReadInv
  BY Zenon, <1>1, ConcatEmptySeq DEF ReadInv
<1>11. AllResults = {}
  BY Zenon, <1>1, <1>2, ElementsEmpty DEF AllResults
<1> QED BY Zenon, <1>5, <1>7, <1>8, <1>9, <1>10, <1>11, <1>12 DEF IInv

LEMMA NextInv == IInv /\ [Next]_vars => IInv'
<1> SUFFICES ASSUME IInv, [Next]_vars PROVE IInv'
  BY Zenon
<1>1. CASE UNCHANGED vars
  <2>1. Shape'
    BY Zenon, <1>1 DEF vars, IInv, Shape
  <2>2. ClosedInv'
    BY Zenon, <1>1 DEF vars, IInv, ClosedInv
  <2> QED BY Zenon, <1>1, <2>1, <2>2, QuietStep DEF vars, called, scanner
<1>2. ASSUME NEW w \in Workers, Worker(w) PROVE IInv'
  BY Zenon, <1>2, CallProcessorStep, GetAlgodDataStep, RetryLoopStep, SendResultStep DEF Worker
<1> QED
  BY SMTT(60), <1>1, <1>2, AlgodAdvancesStep, IndexerAdvancesStep, ScanStep, ScanFailsStep,
     StartStep, ResultsPrinterStep, RunStep, InterruptStep DEF Next

(* The inductive invariant holds in every state. *)
THEOREM Invariance == Spec => []IInv
BY InitInv, NextInv, PTL DEF Spec

(* Every line that was read is counted once until it is printed. *)
LEMMA NoMoreResultsThanLines ==
  ASSUME IInv
  PROVE  /\ numResults \in Nat /\ Len(read) \in Nat /\ numResults <= Len(read)
         /\ Len(work) = 0 /\ Cardinality(Busy) = 0 /\ Len(results) = 0
              => numResults = Len(read)
<1>1. /\ Len(work) \in Nat /\ Len(results) \in Nat /\ Len(read) \in Nat
      /\ numResults \in Nat /\ Cardinality(Busy) \in Nat
  BY Zenon, BusyFinite, LenProperties DEF IInv, Shape
<1>2. Len(work) + Cardinality(Busy) + Len(results) + numResults = Len(read)
  BY Zenon DEF IInv, LinesInv
<1> QED BY SMTT(60), <1>1, <1>2

(* The channels keep to their capacities, each worker to the configured    *)
(* number of retries, and no more errors are counted than lines were read.  *)
THEOREM TypeCorrect == Spec => []TypeOK
<1>1. ASSUME IInv PROVE TypeOK
  <2>1. \A w \in Workers : /\ worker[w].pc \in {"range", "algod", "indexer", "send", "done"}
                           /\ worker[w].i \in 0 .. Retries /\ worker[w].snapshot \in 0 .. MaxRound
    BY Zenon, <1>1 DEF IInv, Shape, WorkerStates
  <2>2. numErrors \in 0 .. Len(read)
    <3>1. numErrors \in Nat /\ numErrors <= numResults
      BY Zenon, <1>1 DEF IInv, Shape
    <3> QED BY SMTT(60), <1>1, <3>1, NoMoreResultsThanLines
  <2>3. /\ Len(work) <= WorkCap /\ Len(results) <= ResultsCap
        /\ exit \in {"no", "0", "1", "interrupted"}
    BY Zenon, <1>1 DEF IInv, Shape
  <2> QED BY Zenon, <2>1, <2>2, <2>3 DEF TypeOK
<1> QED BY <1>1, Invariance, PTL

(* The exit code tells: when the program ends by itself every line that it *)
(* read has one printed result, it ends with 0 exactly when no result is a *)
(* difference or an error, and unless reading failed it read every line of *)
(* the input. No result is lost between the workers, Start's close of the  *)
(* channel and the printer, however they interleave.                       *)
THEOREM ExitCodeIsRight == Spec => []ExitCodeTells
<1>1. ASSUME IInv PROVE ExitCodeTells
  <2> SUFFICES ASSUME exit \in {"0", "1"}
               PROVE  /\ {r.line : r \in printed} = SeqElements(read)
                      /\ numResults = Len(read)
                      /\ (exit = "0") = \A r \in printed : r.Equal \/ r.Skip
                      /\ scanErr \/ read = lines
    BY Zenon DEF ExitCodeTells
  <2>1. resultsClosed /\ results = <<>> /\ \A w \in Workers : worker[w].pc = "done"
    BY Zenon, <1>1 DEF IInv, ClosedInv
  <2>2. PICK w \in Workers : TRUE
    BY Zenon, CallAssumption
  <2>3. work = <<>> /\ workClosed
    BY Zenon, <1>1, <2>1 DEF IInv, WorkerInv
  <2>4. input = <<>>
    BY Zenon, <1>1, <2>3 DEF IInv, ClosedInv
  <2>5. Busy = {}
    BY Zenon, <2>1 DEF Busy
  <2>6. {r.line : r \in printed} = SeqElements(read)
    <3>1. Everywhere = SeqElements(read)
      BY Zenon, <1>1 DEF IInv, LinesInv
    <3> QED BY ZenonT(30), <2>1, <2>3, <2>4, <2>5, <3>1, ElementsEmpty DEF Everywhere
  <2>7. numResults = Len(read)
    <3>1. Cardinality(Busy) = 0 /\ Len(work) = 0 /\ Len(results) = 0
      BY Zenon, <2>1, <2>3, <2>4, <2>5, FS_EmptySet
    <3> QED BY Zenon, <1>1, <3>1, NoMoreResultsThanLines
  <2>8. exit = "0" <=> numErrors = 0
    BY <1>1 DEF IInv, Shape, ClosedInv
  <2>9. numErrors = 0 <=> \A r \in printed : r.Equal \/ r.Skip
    BY Zenon, <1>1 DEF IInv, ErrorsInv
  <2>10. scanErr \/ read = lines
    BY Zenon, <1>1, <2>4, ConcatEmptySeq DEF IInv, Shape, ReadInv
  <2> QED BY Zenon, <2>6, <2>7, <2>8, <2>9, <2>10
<1> QED BY <1>1, Invariance, PTL

(* The verdict on answers of one round is right, for every history of      *)
(* algod's and all answers of the indexer's: a box that a processor calls  *)
(* equal is algod's, an account agrees with algod's in the sense of Agrees *)
(* unless algod does not have it, the StructProcessor calls equal what the *)
(* indexer has right, and a difference reported at the same round is a     *)
(* fault of the indexer's.                                                 *)
THEOREM VerdictsAreRight == Spec => []VerdictsRight
<1>1. ASSUME IInv PROVE VerdictsRight
  BY Zenon, <1>1 DEF IInv, VerdictRight, VerdictOf, VerdictsRight
<1> QED BY <1>1, Invariance, PTL
==============================================================================
