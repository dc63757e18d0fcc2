--------------------------- MODULE MigrationProofs ---------------------------
(***************************************************************************)
(* Proofs about Migration and the conversion it runs, for any migrations   *)
(* table of the shape of the code's, any number of processes and accounts  *)
(* and any batch size.                                                     *)
(***************************************************************************)
EXTENDS Migration, FiniteSetTheorems, WellFoundedInduction, TLAPS

-----------------------------------------------------------------------------
(* The least and the greatest element of a set of natural numbers: proofs  *)
(* by least counterexample rest on them.                                   *)

(* A nonempty set of natural numbers has a least element. *)
LEMMA LeastExists ==
  ASSUME NEW S \in SUBSET Nat, S # {}
  PROVE  \E m \in S : \A n \in S : m <= n
<1>1. PICK m \in S : \A n \in S : ~ (<<n, m>> \in OpToRel(<, Nat))
  BY Zenon, NatLessThanWellFounded, WFMin
<1>2. \A n \in S : ~ (n < m)
  BY Zenon, <1>1 DEF OpToRel
<1> QED BY <1>2

(* A nonempty finite set of natural numbers has a greatest element: a       *)
(* smallest subset without one would lose an element and still have none.  *)
LEMMA GreatestExists ==
  ASSUME NEW S \in SUBSET Nat, IsFiniteSet(S), S # {}
  PROVE  \E m \in S : \A n \in S : n <= m
<1> DEFINE Has(T) == \E m \in T : \A n \in T : n <= m
           Bad == {T \in SUBSET S : T # {} /\ ~Has(T)}
           Sizes == {Cardinality(T) : T \in Bad}
<1>1. Bad = {}
  <2> SUFFICES ASSUME Bad # {} PROVE FALSE
    BY Zenon
  <2>1. \A T \in Bad : IsFiniteSet(T) /\ Cardinality(T) \in Nat
    BY Zenon, FS_Subset, FS_CardinalityType
  <2>2. PICK k \in Sizes : \A n \in Sizes : k <= n
    <3>1. Sizes \in SUBSET Nat /\ Sizes # {}
      BY Zenon, <2>1
    <3> QED BY Zenon, <3>1, LeastExists
  <2>3. PICK T \in Bad : k = Cardinality(T)
    BY Zenon, <2>2
  <2>4. PICK x \in T : TRUE
    BY Zenon, <2>3
  <2> DEFINE U == T \ {x}
  <2>5. Cardinality(U) = k - 1 /\ k \in Nat
    BY Zenon, <2>1, <2>3, <2>4, FS_RemoveElement
  <2>6. U \notin Bad
    <3>1. U \in Bad => Cardinality(U) \in Sizes
      BY Zenon
    <3> HIDE DEF Sizes, Bad, U
    <3> QED BY <3>1, <2>2, <2>5
  <2>7. U = {} \/ Has(U)
    BY Zenon, <2>6, <2>3
  <2>8. T = U \cup {x} /\ T \subseteq Nat
    BY Zenon, <2>3, <2>4
  <2>9. Has(T)
    <3>1. CASE U = {}
      BY <3>1, <2>8
    <3>2. CASE Has(U)
      <4>1. PICK m \in U : \A n \in U : n <= m
        BY Zenon, <3>2
      <4>2. x <= m \/ m <= x
        BY <2>8, <4>1
      <4>3. CASE x <= m
        BY Zenon, <4>1, <4>3, <2>8
      <4>4. CASE m <= x
        <5>1. \A n \in U : n <= x
          BY <4>1, <4>4, <2>8
        <5> QED BY <5>1, <2>8
      <4> QED BY Zenon, <4>2, <4>3, <4>4
    <3> QED BY Zenon, <3>1, <3>2, <2>7
  <2> QED BY Zenon, <2>3, <2>9
<1>2. Has(S)
  BY Zenon, <1>1
<1> QED BY Zenon, <1>2

(* So Max returns the greatest element. *)
LEMMA MaxIsGreatest ==
  ASSUME NEW S \in SUBSET Nat, IsFiniteSet(S), S # {}
  PROVE  Max(S) \in S /\ \A n \in S : n <= Max(S)
<1>1. \E m \in S : \A n \in S : m >= n
  BY Zenon, GreatestExists
<1> QED BY Zenon, <1>1 DEF Max

-----------------------------------------------------------------------------
(* RunMigration: the batches together are all live accounts. *)

Live(acc, l) == {a \in DOMAIN acc : ~acc[a].deleted /\ a > l}

(* The accounts of l's list that come before a. *)
Before(acc, l, a) == {b \in Live(acc, l) : b < a}

(* The addresses are finitely many, in an order that starts above 0. *)
LEMMA LiveFinite ==
  ASSUME NEW acc, DOMAIN acc = Addresses, NEW l
  PROVE  /\ Live(acc, l) \in SUBSET Nat /\ IsFiniteSet(Live(acc, l))
         /\ \A a : IsFiniteSet(Before(acc, l, a)) /\ Cardinality(Before(acc, l, a)) \in Nat
         /\ IsFiniteSet(getAccounts(acc, l)) /\ Cardinality(getAccounts(acc, l)) \in Nat
         /\ getAccounts(acc, l) \subseteq Live(acc, l)
<1>1. Live(acc, l) \subseteq Addresses /\ Addresses \subseteq Nat
  BY Zenon, ConvertAssumption DEF Live
<1>2. IsFiniteSet(Live(acc, l))
  BY Zenon, <1>1, FS_Subset, ConvertAssumption
<1>3. getAccounts(acc, l) \subseteq Live(acc, l)
  BY Zenon DEF getAccounts, Live
<1>4. \A T : T \subseteq Live(acc, l) => IsFiniteSet(T) /\ Cardinality(T) \in Nat
  BY Zenon, <1>2, FS_Subset, FS_CardinalityType
<1>5. \A a : Before(acc, l, a) \subseteq Live(acc, l)
  BY Zenon DEF Before
<1> QED BY Zenon, <1>1, <1>2, <1>3, <1>4, <1>5

(* An account is in the batch that follows l if fewer than BatchSize live   *)
(* accounts are in between.                                                *)
LEMMA InBatch ==
  ASSUME NEW acc, NEW l, NEW a
  PROVE  a \in getAccounts(acc, l) <=>
           a \in Live(acc, l) /\ Cardinality(Before(acc, l, a)) < BatchSize
BY Zenon DEF getAccounts, Live, Before

(* A batch that is not full holds everything that is left: the first live  *)
(* account without a place would have a place.                             *)
LEMMA ShortBatchIsLast ==
  ASSUME NEW acc, DOMAIN acc = Addresses, NEW l,
         Cardinality(getAccounts(acc, l)) < BatchSize
  PROVE  getAccounts(acc, l) = Live(acc, l)
<1> DEFINE rest == Live(acc, l) \ getAccounts(acc, l)
<1> SUFFICES ASSUME rest # {} PROVE FALSE
  BY Zenon, LiveFinite
<1>1. PICK m \in rest : \A n \in rest : m <= n
  BY Zenon, LiveFinite, LeastExists
<1>2. Before(acc, l, m) \subseteq getAccounts(acc, l)
  <2> SUFFICES ASSUME NEW b \in Before(acc, l, m), b \notin getAccounts(acc, l) PROVE FALSE
    BY Zenon
  <2>1. b \in rest /\ b < m /\ b \in Nat /\ m \in Nat
    BY Zenon, LiveFinite DEF Before
  <2> QED BY <2>1, <1>1
<1>3. Cardinality(Before(acc, l, m)) <= Cardinality(getAccounts(acc, l))
  BY Zenon, <1>2, LiveFinite, FS_Subset
<1>4. Cardinality(Before(acc, l, m)) < BatchSize
  BY <1>3, LiveFinite, ConvertAssumption
<1> QED BY Zenon, <1>1, <1>4, InBatch

(* A full batch ends with an account behind l, and what is live behind l   *)
(* is in the batch or behind its last account.                             *)
LEMMA FullBatchGoesOn ==
  ASSUME NEW acc, DOMAIN acc = Addresses, NEW l \in Nat,
         Cardinality(getAccounts(acc, l)) >= BatchSize
  PROVE  LET last == Max(getAccounts(acc, l))
         IN  /\ last \in Addresses /\ last > l
             /\ Live(acc, l) = getAccounts(acc, l) \cup Live(acc, last)
<1> DEFINE batch == getAccounts(acc, l)
           last == Max(batch)
<1>1. batch # {}
  BY FS_EmptySet, ConvertAssumption
<1>2. batch \in SUBSET Nat /\ IsFiniteSet(batch)
  BY Zenon, LiveFinite
<1>3. last \in batch /\ \A n \in batch : n <= last
  BY Zenon, <1>1, <1>2, MaxIsGreatest
<1>4. last \in Live(acc, l) /\ Cardinality(Before(acc, l, last)) < BatchSize
  BY Zenon, <1>3, InBatch
<1>5. last \in Addresses /\ last > l /\ last \in Nat
  BY Zenon, <1>4, <1>2, <1>3 DEF Live
<1>6. ASSUME NEW a \in Live(acc, l), ~ (a > last) PROVE a \in batch
  <2>1. a \in Nat
    BY Zenon, LiveFinite
  <2>2. Before(acc, l, a) \subseteq Before(acc, l, last)
    BY <1>6, <2>1, <1>5, LiveFinite DEF Before
  <2>3. Cardinality(Before(acc, l, a)) <= Cardinality(Before(acc, l, last))
    BY Zenon, <2>2, LiveFinite, FS_Subset
  <2>4. Cardinality(Before(acc, l, a)) < BatchSize
    BY <2>3, <1>4, LiveFinite, ConvertAssumption
  <2> QED BY Zenon, <2>4, InBatch
<1>7. \A a \in Live(acc, l) : a > last => a \in Live(acc, last)
  BY Zenon DEF Live
<1>8. Live(acc, last) \subseteq Live(acc, l)
  <2> SUFFICES ASSUME NEW a \in Live(acc, last) PROVE a \in Live(acc, l)
    BY Zenon
  <2>1. a \in Nat /\ a > last
    BY Zenon, LiveFinite DEF Live
  <2> QED BY <2>1, <1>5 DEF Live
<1>9. Live(acc, l) = batch \cup Live(acc, last)
  BY Zenon, <1>6, <1>7, <1>8, LiveFinite
<1> QED BY Zenon, <1>5, <1>9

(* One unfolding of the recursion of RunMigration. *)
Unfold(acc, f) ==
    [l \in {0} \cup DOMAIN acc |->
       getAccounts(acc, l) \cup
         IF Cardinality(getAccounts(acc, l)) >= BatchSize THEN f[Max(getAccounts(acc, l))]
                                                          ELSE {}]

AllLive(acc) == [l \in {0} \cup DOMAIN acc |-> Live(acc, l)]

(* The recursion has a solution. *)
LEMMA AllLiveUnfolds ==
  ASSUME NEW acc, DOMAIN acc = Addresses
  PROVE  AllLive(acc) = Unfold(acc, AllLive(acc))
<1> SUFFICES ASSUME NEW l \in {0} \cup Addresses
             PROVE  Live(acc, l) = getAccounts(acc, l) \cup
                      IF Cardinality(getAccounts(acc, l)) >= BatchSize
                        THEN AllLive(acc)[Max(getAccounts(acc, l))] ELSE {}
  BY Zenon DEF AllLive, Unfold
<1>1. l \in Nat
  BY ConvertAssumption
<1>2. CASE Cardinality(getAccounts(acc, l)) >= BatchSize
  BY Zenon, <1>1, <1>2, FullBatchGoesOn DEF AllLive
<1>3. CASE ~ (Cardinality(getAccounts(acc, l)) >= BatchSize)
  <2>1. Cardinality(getAccounts(acc, l)) < BatchSize
    BY <1>3, LiveFinite, ConvertAssumption
  <2> QED BY Zenon, <1>3, <2>1, ShortBatchIsLast
<1> QED BY Zenon, <1>2, <1>3

(* It has no other: where two differ last, neither looks at a difference. *)
LEMMA UnfoldIsAllLive ==
  ASSUME NEW acc, DOMAIN acc = Addresses, NEW f, f = Unfold(acc, f)
  PROVE  \A l \in {0} \cup Addresses : f[l] = Live(acc, l)
<1> DEFINE D == {0} \cup Addresses
           Wrong == {l \in D : f[l] # Live(acc, l)}
<1> SUFFICES ASSUME Wrong # {} PROVE FALSE
  BY Zenon
<1>1. D \in SUBSET Nat /\ IsFiniteSet(D)
  BY ConvertAssumption, FS_AddElement
<1>2. Wrong \in SUBSET Nat /\ IsFiniteSet(Wrong)
  BY Zenon, <1>1, FS_Subset
<1>3. PICK l \in Wrong : \A n \in Wrong : n <= l
  BY Zenon, <1>2, GreatestExists
<1>4. l \in Nat /\ l \in D
  BY Zenon, <1>1, <1>3
<1>5. f[l] = getAccounts(acc, l) \cup
        IF Cardinality(getAccounts(acc, l)) >= BatchSize
          THEN f[Max(getAccounts(acc, l))] ELSE {}
  BY Zenon, <1>4 DEF Unfold
<1>6. CASE Cardinality(getAccounts(acc, l)) >= BatchSize
  <2> DEFINE last == Max(getAccounts(acc, l))
  <2>1. /\ last \in Addresses /\ last > l
        /\ Live(acc, l) = getAccounts(acc, l) \cup Live(acc, last)
    BY Zenon, <1>4, <1>6, FullBatchGoesOn
  <2>2. last \in D /\ last \in Nat /\ ~ (last <= l)
    BY <2>1, <1>1, <1>4
  <2>3. f[last] = Live(acc, last)
    BY Zenon, <1>3, <2>2
  <2> QED BY Zenon, <1>3, <1>5, <1>6, <2>1, <2>3
<1>7. CASE ~ (Cardinality(getAccounts(acc, l)) >= BatchSize)
  <2>1. Cardinality(getAccounts(acc, l)) < BatchSize
    BY <1>7, LiveFinite, ConvertAssumption
  <2> QED BY Zenon, <1>3, <1>5, <1>7, <2>1, ShortBatchIsLast
<1> QED BY Zenon, <1>6, <1>7

(* convertAccountData in batches converts every live account and nothing   *)
(* else, whatever the number of accounts and the size of a batch: no       *)
(* account falls between two batches, and an exactly full batch is not     *)
(* taken for the last one.                                                 *)
THEOREM BatchesConvertEveryAccount ==
  ASSUME NEW acc, DOMAIN acc = Addresses
  PROVE  RunMigration(acc) = writeLcAccountData(acc, {a \in Addresses : ~acc[a].deleted})
<1> DEFINE f == CHOOSE g : g = Unfold(acc, g)
<1>1. f = Unfold(acc, f)
  <2> HIDE DEF f
  <2>1. \E g : g = Unfold(acc, g)
    BY Zenon, AllLiveUnfolds
  <2> QED BY Zenon, <2>1 DEF f
<1>2. f[0] = Live(acc, 0)
  BY Zenon, <1>1, UnfoldIsAllLive
<1>3. Live(acc, 0) = {a \in Addresses : ~acc[a].deleted}
  <2>1. \A a \in Addresses : a > 0
    BY ConvertAssumption
  <2> QED BY Zenon, <2>1 DEF Live
<1>4. RunMigration(acc) = writeLcAccountData(acc, f[0])
  BY Zenon DEF RunMigration, Unfold
<1> QED BY Zenon, <1>2, <1>3, <1>4

-----------------------------------------------------------------------------
(* The database. Before the tables are made there is nothing; this         *)
(* release's setup makes them complete; and changes are only made in order, *)
(* so that no process can run an entry whose successor was run before it.   *)
SchemaInv ==
    /\ ~setup => applied = {} /\ stored = NotInitialized /\ ~created
    /\ created => applied = 0 .. N - 1
    /\ \A i \in applied : \A j \in 0 .. i : j \in applied
    /\ StoredIsApplied
    /\ OnceNotDueAgain

(* The accounts: what was never live owns nothing, and from the conversion *)
(* on the totals are right.                                                *)
AccountInv ==
    /\ ~setup => \A a \in Addresses : account[a].deleted
    /\ \A a \in Addresses : account[a].deleted => account[a].owns = NoTotals
    /\ Convert \in applied =>
         \A a \in Addresses : ~account[a].deleted => account[a].totals = account[a].owns

(* A process before its runner has let nobody in. *)
OpeningInv(p) ==
    /\ pc[p] \in {"down", "open", "setup", "mark", "load"} => closes[p] = 0 /\ status[p] = Nil
    /\ pc[p] = "setup" => ~setup \/ created
    /\ pc[p] = "mark" => created
    /\ pc[p] \in {"load", "start", "handler"} => setup

(* The runner: every entry before its task is in the schema, also when     *)
(* another process wrote an older state back; so is every blocking entry   *)
(* behind blockUntil; and the local flag says whether the channel is open. *)
RunnerInv(p) ==
    /\ pc[p] \in {"start", "handler"} =>
         /\ task[p] <= N => mem[p] = task[p]
         /\ \A i \in 0 .. N - 1 : i < task[p] => i \in applied
         /\ \A i \in Blocking : i > until[p] => i \in applied
         /\ blocking[p] <=> closes[p] = 0
    /\ pc[p] = "handler" => task[p] # Finished

(* Whoever is let in finds the blocking entries in the schema. *)
AccessInv(p) ==
    /\ closes[p] \in 0 .. 1
    /\ closes[p] = 1 => Blocking \subseteq applied
    /\ status[p] # Nil /\ ~status[p].blocking => Blocking \subseteq applied
    /\ p \notin ReadOnly /\ pc[p] = "up" /\ status[p].err \in {"nil", "none"} => closes[p] = 1

ProcInv(p) == OpeningInv(p) /\ RunnerInv(p) /\ AccessInv(p)

(* The inductive invariant. *)
IInv == TypeOK /\ SchemaInv /\ AccountInv /\ \A p \in Procs : ProcInv(p)

-----------------------------------------------------------------------------
(* What the proofs use of the constants. *)
LEMMA Table ==
  /\ N \in Nat /\ N > 0 /\ MaxFaults \in Nat /\ MaxImports \in Nat /\ MaxRows \in Nat
  /\ Convert \in 0 .. N - 1 /\ Convert \in Blocking
  /\ Blocking \subseteq 0 .. N - 1 /\ Once \subseteq 0 .. N - 1
  /\ \A i \in Once : \A j \in 0 .. i - 1 : j \in Once \cup Unsupported
BY TableAssumption, OrderAssumption, ConvertAssumption

(* setTasks: no entry behind blockUntil that is still due is blocking. *)
LEMMA BlockUntilIsLast ==
  ASSUME NEW s \in 0 .. N
  PROVE  BlockUntil(s) \in 0 .. N /\ \A i \in Blocking : i > BlockUntil(s) => i < s
<1>1. CASE MigrationStateBlocked(s)
  <2>0. IsFiniteSet(0 .. N - 1)
    BY Table, FS_Interval
  <2>1. Blocking \in SUBSET Nat /\ IsFiniteSet(Blocking) /\ Blocking # {}
    <3>1. IsFiniteSet(Blocking)
      BY Zenon, <2>0, Table, FS_Subset
    <3>2. Blocking \in SUBSET Nat
      BY Table
    <3> QED BY Zenon, <3>1, <3>2, Table
  <2>2. PICK m \in Blocking : \A j \in Blocking : j <= m
    BY Zenon, <2>1, GreatestExists
  <2>3. m >= s
    BY <1>1, <2>1, <2>2 DEF MigrationStateBlocked
  <2>4. BlockUntil(s) \in Blocking /\ \A j \in Blocking : j <= BlockUntil(s)
    BY Zenon, <1>1, <2>2, <2>3 DEF BlockUntil
  <2>5. BlockUntil(s) \in 0 .. N - 1 /\ \A j \in Blocking : j \in Nat
    BY Zenon, <2>1, <2>4, Table
  <2>6. \A i \in Blocking : ~ (i > BlockUntil(s))
    BY <2>4, <2>5
  <2>7. BlockUntil(s) \in 0 .. N
    BY <2>5, Table
  <2> QED BY Zenon, <2>6, <2>7
<1>2. CASE ~MigrationStateBlocked(s)
  <2>1. BlockUntil(s) = 0
    BY Zenon, <1>2 DEF BlockUntil
  <2>2. \A i \in Blocking : i < s
    BY <1>2, Table DEF MigrationStateBlocked
  <2>3. 0 \in 0 .. N
    BY Table
  <2> QED BY Zenon, <2>1, <2>2, <2>3
<1> QED BY Zenon, <1>1, <1>2

(* What a step of one process leaves alone of another. *)
Same(r) ==
    /\ pc'[r] = pc[r] /\ mem'[r] = mem[r] /\ task'[r] = task[r] /\ until'[r] = until[r]
    /\ blocking'[r] = blocking[r] /\ closes'[r] = closes[r] /\ status'[r] = status[r]

(* The schema only grows, and tables that appear were made by setup. *)
Grows ==
    /\ applied \subseteq applied'
    /\ setup => setup'
    /\ created => created'
    /\ setup' => setup \/ created'

(* A process keeps its invariant while others work on the schema. *)
LEMMA SameKeeps ==
  ASSUME NEW r \in Procs, ProcInv(r), Same(r), Grows
  PROVE  ProcInv(r)'
<1>1. OpeningInv(r)'
  BY Zenon DEF ProcInv, OpeningInv, Same, Grows
<1>2. RunnerInv(r)'
  BY Zenon DEF ProcInv, RunnerInv, Same, Grows
<1>3. AccessInv(r)'
  BY Zenon DEF ProcInv, AccessInv, Same, Grows
<1> QED BY Zenon, <1>1, <1>2, <1>3 DEF ProcInv

(* A step of process p need only be looked at for p and the database. *)
LEMMA OthersKeep ==
  ASSUME IInv, NEW p \in Procs, TypeOK', SchemaInv', AccountInv', ProcInv(p)', Grows,
         \A r \in Procs \ {p} : Same(r)
  PROVE  IInv'
<1>1. ASSUME NEW r \in Procs PROVE ProcInv(r)'
  <2>1. CASE r = p
    BY Zenon, <2>1
  <2>2. CASE r # p
    BY Zenon, <2>2, SameKeeps DEF IInv
  <2> QED BY Zenon, <2>1, <2>2
<1> QED BY Zenon, <1>1 DEF IInv

(* A step that does not write to the database. *)
LEMMA DbKeeps ==
  ASSUME IInv, UNCHANGED dbvars
  PROVE  SchemaInv' /\ AccountInv' /\ Grows
BY Zenon DEF IInv, dbvars, SchemaInv, StoredIsApplied, OnceNotDueAgain, AccountInv, Grows

(* Then only the process itself need be looked at. *)
LEMMA ProcessKeeps ==
  ASSUME IInv, NEW p \in Procs, UNCHANGED dbvars, TypeOK', ProcInv(p)',
         \A r \in Procs \ {p} : Same(r)
  PROVE  IInv'
BY Zenon, DbKeeps, OthersKeep

-----------------------------------------------------------------------------
(* OpenPostgres is called. *)
LEMMA StartStep == ASSUME IInv, NEW p \in Procs, Start(p) PROVE IInv'
<1> USE DEF IInv, TypeOK, Start, Goto
<1>1. TypeOK'
  BY Zenon DEF dbvars
<1>2. \A r \in Procs \ {p} : Same(r)
  BY Zenon DEF Same
<1>3. ProcInv(p)'
  BY Zenon DEF ProcInv, OpeningInv, RunnerInv, AccessInv, dbvars
<1> QED BY Zenon, <1>1, <1>2, <1>3, ProcessKeeps

(* A read-only process opens the database. *)
LEMMA OpenReadOnlyStep == ASSUME IInv, NEW p \in Procs, OpenReadOnly(p) PROVE IInv'
<1> USE DEF IInv, TypeOK, OpenReadOnly, Goto
<1>1. TypeOK'
  BY DEF dbvars
<1>2. \A r \in Procs \ {p} : Same(r)
  BY Zenon DEF Same
<1>3. stored # NotInitialized /\ ~MigrationStateBlocked(stored) => Blocking \subseteq applied
  BY Table DEF SchemaInv, StoredIsApplied, MigrationStateBlocked, NotInitialized
<1>4. ProcInv(p)'
  BY <1>3 DEF ProcInv, OpeningInv, RunnerInv, AccessInv, dbvars
<1> QED BY Zenon, <1>1, <1>2, <1>4, ProcessKeeps

(* init looks whether the tables exist. *)
LEMMA IsSetupStep == ASSUME IInv, NEW p \in Procs, IsSetup(p) PROVE IInv'
<1> USE DEF IInv, TypeOK, IsSetup, Goto
<1>1. TypeOK'
  BY Zenon DEF dbvars
<1>2. \A r \in Procs \ {p} : Same(r)
  BY Zenon DEF Same
<1>3. ProcInv(p)'
  BY Zenon DEF ProcInv, OpeningInv, RunnerInv, AccessInv, dbvars
<1> QED BY Zenon, <1>1, <1>2, <1>3, ProcessKeeps

(* The setup SQL. *)
LEMMA SetupPostgresStep == ASSUME IInv, NEW p \in Procs, SetupPostgres(p) PROVE IInv'
<1> USE DEF IInv, TypeOK, SetupPostgres, Goto
<1>1. TypeOK'
  BY Zenon, Table
<1>2. \A r \in Procs \ {p} : Same(r)
  BY Zenon DEF Same
<1>3. Grows
  BY Zenon DEF Grows, SchemaInv
<1>4. SchemaInv'
  <2>1. CASE setup
    BY Zenon, <2>1 DEF SchemaInv, StoredIsApplied, OnceNotDueAgain
  <2>2. CASE ~setup
    <3>1. applied' = 0 .. N - 1 /\ created' /\ setup' /\ stored' = NotInitialized
      BY Zenon, <2>2 DEF SchemaInv
    <3> QED BY <3>1, Table DEF SchemaInv, StoredIsApplied, OnceNotDueAgain, NotInitialized
  <2> QED BY Zenon, <2>1, <2>2
<1>5. AccountInv'
  BY Zenon DEF AccountInv
<1>6. ProcInv(p)'
  BY Zenon DEF ProcInv, OpeningInv, RunnerInv, AccessInv
<1> QED BY Zenon, <1>1, <1>2, <1>3, <1>4, <1>5, <1>6, OthersKeep

(* A new database gets the last state. *)
LEMMA MarkNewDatabaseStep == ASSUME IInv, NEW p \in Procs, MarkNewDatabase(p) PROVE IInv'
<1> USE DEF IInv, TypeOK, MarkNewDatabase, Goto
<1>0. created /\ setup /\ applied = 0 .. N - 1 /\ closes[p] = 0
  BY Zenon DEF ProcInv, OpeningInv, SchemaInv
<1>1. TypeOK'
  BY <1>0, Table
<1>2. \A r \in Procs \ {p} : Same(r)
  BY Zenon DEF Same
<1>3. Grows
  BY Zenon DEF Grows
<1>4. SchemaInv'
  BY Zenon, <1>0, Table DEF SchemaInv, StoredIsApplied, OnceNotDueAgain
<1>5. AccountInv'
  BY Zenon DEF AccountInv
<1>6. ProcInv(p)'
  BY <1>0, Table DEF ProcInv, OpeningInv, RunnerInv, AccessInv, Nil
<1> QED BY Zenon, <1>1, <1>2, <1>3, <1>4, <1>5, <1>6, OthersKeep

(* The tasks are made from the stored state. *)
LEMMA LoadTasksStep == ASSUME IInv, NEW p \in Procs, LoadTasks(p) PROVE IInv'
<1> DEFINE s == IF stored = NotInitialized THEN 0 ELSE stored
<1>0. s \in 0 .. N /\ BlockUntil(s) \in 0 .. N /\ \A i \in 0 .. s - 1 : i \in applied
  <2>1. s \in 0 .. N /\ \A i \in 0 .. s - 1 : i \in applied
    BY Table DEF IInv, TypeOK, SchemaInv, StoredIsApplied, NotInitialized
  <2> QED BY Zenon, <2>1, BlockUntilIsLast
<1>1. /\ mem'[p] = s /\ task'[p] = (IF s < N THEN s ELSE Finished)
      /\ until'[p] = BlockUntil(s) /\ blocking'[p] = TRUE
      /\ status'[p] = [running |-> FALSE, blocking |-> TRUE, err |-> "nil"]
      /\ pc'[p] = "start" /\ closes'[p] = closes[p]
  BY Zenon DEF LoadTasks, Goto, IInv, TypeOK
<1>2. TypeOK'
  BY <1>0, Table DEF LoadTasks, Goto, IInv, TypeOK, Finished, Statuses, dbvars
<1>3. \A r \in Procs \ {p} : Same(r)
  BY Zenon DEF Same, LoadTasks, Goto, IInv, TypeOK
<1>4. UNCHANGED dbvars /\ setup /\ closes[p] = 0 /\ pc[p] = "load"
  BY Zenon DEF LoadTasks, dbvars, IInv, ProcInv, OpeningInv
<1> HIDE DEF s
<1>5. RunnerInv(p)'
  <2>1. task'[p] <= N => mem'[p] = task'[p]
    BY <1>0, <1>1, Table DEF Finished
  <2>2. \A i \in 0 .. N - 1 : i < task'[p] => i \in applied'
    BY <1>0, <1>1, <1>4, Table DEF Finished, dbvars
  <2>3. \A i \in Blocking : i > until'[p] => i \in applied'
    <3>1. \A i \in Blocking : i > BlockUntil(s) => i < s
      BY Zenon, <1>0, BlockUntilIsLast
    <3> QED BY <3>1, <1>0, <1>1, <1>4, Table DEF dbvars
  <2> QED BY Zenon, <2>1, <2>2, <2>3, <1>1, <1>4 DEF RunnerInv
<1>6. OpeningInv(p)' /\ AccessInv(p)'
  BY <1>1, <1>4 DEF OpeningInv, AccessInv, dbvars
<1> QED BY Zenon, <1>2, <1>3, <1>4, <1>5, <1>6, ProcessKeeps DEF ProcInv

(* The head of the runner's loop, which may close the channel. *)
LEMMA StartTaskStep == ASSUME IInv, NEW p \in Procs, StartTask(p) PROVE IInv'
<1> DEFINE free == task[p] > until[p]
<1>1. /\ blocking'[p] = (blocking[p] /\ ~free)
      /\ closes'[p] = (IF blocking[p] /\ free THEN closes[p] + 1 ELSE closes[p])
      /\ status'[p] = [running |-> TRUE, blocking |-> blocking[p] /\ ~free, err |-> "nil"]
      /\ pc'[p] = "handler" /\ mem'[p] = mem[p] /\ task'[p] = task[p] /\ until'[p] = until[p]
  BY Zenon DEF StartTask, Goto, IInv, TypeOK
<1>2. /\ UNCHANGED dbvars /\ setup /\ pc[p] = "start" /\ task[p] # Finished
      /\ blocking[p] <=> closes[p] = 0
  BY Zenon DEF StartTask, IInv, ProcInv, OpeningInv, RunnerInv
<1>3. blocking[p] \in BOOLEAN /\ closes[p] \in 0 .. 1 /\ task[p] \in Nat /\ until[p] \in Nat
  BY SMTT(60), Table DEF IInv, TypeOK, ProcInv, AccessInv, Finished
<1>4. free => Blocking \subseteq applied
  <2> SUFFICES ASSUME free, NEW i \in Blocking PROVE i \in applied
    BY Zenon
  <2>1. i \in 0 .. N - 1
    BY Zenon, Table
  <2>2. i > until[p] \/ i < task[p]
    BY <2>1, <1>3
  <2> QED BY Zenon, <2>1, <2>2, <1>2 DEF IInv, ProcInv, RunnerInv
<1>5. \A r \in Procs \ {p} : Same(r)
  BY Zenon DEF Same, StartTask, Goto, IInv, TypeOK
<1>6. TypeOK'
  BY <1>3, SMTT(60) DEF StartTask, Goto, IInv, TypeOK, Statuses, dbvars
<1> HIDE DEF free
<1>7. closes'[p] \in 0 .. 1 /\ (blocking'[p] <=> closes'[p] = 0)
  <2>1. CASE blocking[p] /\ free
    <3>1. closes[p] = 0
      BY Zenon, <2>1, <1>2
    <3>2. closes'[p] = closes[p] + 1
      BY Zenon, <2>1, <1>1
    <3>3. ~blocking'[p]
      BY Zenon, <2>1, <1>1
    <3> QED BY <3>1, <3>2, <3>3
  <2>2. CASE blocking[p] /\ ~free
    <3>1. closes'[p] = 0 /\ blocking'[p]
      BY Zenon, <2>2, <1>1, <1>2, <1>3
    <3> QED BY <3>1
  <2>3. CASE ~blocking[p]
    <3>1. closes'[p] = closes[p] /\ ~blocking'[p]
      BY Zenon, <2>3, <1>1
    <3> QED BY Zenon, <3>1, <2>3, <1>2, <1>3
  <2> QED BY Zenon, <2>1, <2>2, <2>3
<1>8. ~blocking'[p] => Blocking \subseteq applied
  <2>1. closes[p] = 1 => Blocking \subseteq applied
    BY Zenon DEF IInv, ProcInv, AccessInv
  <2>2. ~blocking[p] => closes[p] = 1
    BY SMTT(60), <1>2, <1>3
  <2> QED BY Zenon, <1>1, <1>4, <2>1, <2>2
<1>9. RunnerInv(p)'
  BY Zenon, <1>1, <1>2, <1>7 DEF IInv, ProcInv, RunnerInv, dbvars
<1>10. OpeningInv(p)' /\ AccessInv(p)'
  BY SMTT(60), <1>1, <1>2, <1>7, <1>8 DEF OpeningInv, AccessInv, dbvars
<1> QED BY Zenon, <1>2, <1>5, <1>6, <1>9, <1>10, ProcessKeeps DEF ProcInv

(* What follows the loop. *)
LEMMA FinishTasksStep == ASSUME IInv, NEW p \in Procs, FinishTasks(p) PROVE IInv'
<1>1. /\ closes'[p] = (IF blocking[p] THEN closes[p] + 1 ELSE closes[p])
      /\ status'[p] = [running |-> FALSE, blocking |-> FALSE, err |-> "nil"]
      /\ pc'[p] = "up"
  BY Zenon DEF FinishTasks, Goto, IInv, TypeOK
<1>2. /\ UNCHANGED dbvars /\ pc[p] = "start" /\ task[p] = Finished
      /\ blocking[p] <=> closes[p] = 0
  BY Zenon DEF FinishTasks, IInv, ProcInv, RunnerInv
<1>3. closes[p] \in 0 .. 1
  BY Zenon DEF IInv, ProcInv, AccessInv
<1>4. closes'[p] = 1
  <2>1. CASE blocking[p]
    BY <2>1, <1>1, <1>2
  <2>2. CASE ~blocking[p]
    BY SMTT(60), <2>2, <1>1, <1>2, <1>3
  <2> QED BY Zenon, <2>1, <2>2
<1>5. Blocking \subseteq applied'
  BY SMTT(60), <1>2, Table DEF IInv, ProcInv, RunnerInv, Finished, dbvars
<1>6. \A r \in Procs \ {p} : Same(r)
  BY Zenon DEF Same, FinishTasks, Goto, IInv, TypeOK
<1>7. TypeOK'
  BY SMTT(60), <1>3 DEF FinishTasks, Goto, IInv, TypeOK, Statuses, dbvars
<1>8. ProcInv(p)'
  BY SMTT(60), <1>1, <1>4, <1>5 DEF ProcInv, OpeningInv, RunnerInv, AccessInv
<1> QED BY Zenon, <1>2, <1>6, <1>7, <1>8, ProcessKeeps

(* A handler's error ends the runner of p; the database may have changed. *)
LEMMA HaltKeeps ==
  ASSUME IInv, NEW p \in Procs, pc[p] = "handler", NEW e \in {"unsupported", "sql"},
         HaltWith(p, e), Grows
  PROVE  /\ ProcInv(p)'
         /\ \A r \in Procs \ {p} : Same(r)
         /\ pc' \in [Procs -> {"down", "open", "setup", "mark", "load", "start", "handler", "up"}]
         /\ blocking' \in [Procs -> BOOLEAN]
         /\ status' \in [Procs -> Statuses \cup {Nil}]
         /\ UNCHANGED <<mem, task, until, closes>>
<1> USE DEF HaltWith, Goto
<1>1. /\ status'[p] = [running |-> FALSE, blocking |-> TRUE, err |-> e]
      /\ pc'[p] = "up" /\ closes'[p] = closes[p]
  BY Zenon DEF IInv, TypeOK
<1>2. AccessInv(p)'
  BY SMTT(60), <1>1 DEF IInv, ProcInv, AccessInv, Grows
<1>3. OpeningInv(p)' /\ RunnerInv(p)'
  BY Zenon, <1>1 DEF OpeningInv, RunnerInv
<1>4. \A r \in Procs \ {p} : Same(r)
  BY Zenon DEF IInv, TypeOK, Same
<1>5. status' \in [Procs -> Statuses \cup {Nil}]
  BY Zenon DEF IInv, TypeOK, Statuses
<1> QED BY Zenon, <1>2, <1>3, <1>4, <1>5 DEF ProcInv, IInv, TypeOK

(* An entry of an unsupported release ends the runner. *)
LEMMA UpgradeNotSupportedStep ==
  ASSUME IInv, NEW p \in Procs, UpgradeNotSupported(p) PROVE IInv'
<1>1. UNCHANGED dbvars /\ UNCHANGED faults /\ pc[p] = "handler" /\ HaltWith(p, "unsupported")
  BY Zenon DEF UpgradeNotSupported
<1>2. Grows
  BY Zenon, <1>1, DbKeeps
<1>3. TypeOK'
  BY Zenon, <1>1, <1>2, HaltKeeps DEF IInv, TypeOK, dbvars
<1> QED BY Zenon, <1>1, <1>2, <1>3, HaltKeeps, ProcessKeeps

(* So does an entry that cannot be executed again. *)
LEMMA RunHandlerAgainStep ==
  ASSUME IInv, NEW p \in Procs, RunHandlerAgain(p) PROVE IInv'
<1>1. UNCHANGED dbvars /\ UNCHANGED faults /\ pc[p] = "handler" /\ HaltWith(p, "sql")
  BY Zenon DEF RunHandlerAgain
<1>2. Grows
  BY Zenon, <1>1, DbKeeps
<1>3. TypeOK'
  BY Zenon, <1>1, <1>2, HaltKeeps DEF IInv, TypeOK, dbvars
<1> QED BY Zenon, <1>1, <1>2, <1>3, HaltKeeps, ProcessKeeps

(* A statement fails without effect. *)
LEMMA StatementErrorStep ==
  ASSUME IInv, NEW p \in Procs, StatementError(p) PROVE IInv'
<1>1. UNCHANGED dbvars /\ faults' \in 0 .. MaxFaults
  BY Table DEF StatementError, Fault, IInv, TypeOK
<1>2. Grows
  BY Zenon, <1>1, DbKeeps
<1>3. CASE pc[p] = "handler" /\ HaltWith(p, "sql")
  <2>1. TypeOK'
    BY Zenon, <1>1, <1>2, <1>3, HaltKeeps DEF IInv, TypeOK, dbvars
  <2> QED BY Zenon, <1>1, <1>2, <1>3, <2>1, HaltKeeps, ProcessKeeps
<1>4. CASE /\ pc[p] \in {"open", "setup", "mark", "load"} /\ Goto(p, "down")
           /\ UNCHANGED <<mem, task, until, blocking, closes, status>>
  <2>1. TypeOK'
    BY Zenon, <1>1, <1>4 DEF IInv, TypeOK, Goto, dbvars
  <2>2. \A r \in Procs \ {p} : Same(r)
    BY Zenon, <1>4 DEF IInv, TypeOK, Goto, Same
  <2>3. ProcInv(p)'
    BY Zenon, <1>1, <1>4 DEF IInv, TypeOK, Goto, ProcInv, OpeningInv, RunnerInv, AccessInv, dbvars
  <2> QED BY Zenon, <1>1, <2>1, <2>2, <2>3, ProcessKeeps
<1> QED BY Zenon, <1>3, <1>4 DEF StatementError

(* A process ends, by a crash or by its operator. *)
LEMMA StoppedKeeps ==
  ASSUME IInv, NEW p \in Procs, Stopped(p), UNCHANGED dbvars, faults' \in 0 .. MaxFaults
  PROVE  IInv'
<1>1. TypeOK'
  BY SMTT(60), Table DEF Stopped, IInv, TypeOK, dbvars, Finished
<1>2. \A r \in Procs \ {p} : Same(r)
  BY Zenon DEF Stopped, IInv, TypeOK, Same
<1>3. pc'[p] = "down" /\ closes'[p] = 0 /\ status'[p] = Nil
  BY Zenon DEF Stopped, IInv, TypeOK
<1>4. ProcInv(p)'
  BY <1>3, SMTT(60) DEF ProcInv, OpeningInv, RunnerInv, AccessInv
<1> QED BY Zenon, <1>1, <1>2, <1>4, ProcessKeeps

(* A crash. *)
LEMMA CrashStep == ASSUME IInv, NEW p \in Procs, Crash(p) PROVE IInv'
BY SMTT(60), StoppedKeeps, Table DEF Crash, Fault, IInv, TypeOK

(* The operator stops a process. *)
LEMMA StopStep == ASSUME IInv, NEW p \in Procs, Stop(p) PROVE IInv'
BY Zenon, StoppedKeeps DEF Stop, IInv, TypeOK

-----------------------------------------------------------------------------
(* The conversion leaves every account with the totals of what it owns. *)
LEMMA Converted ==
  ASSUME account \in [Addresses -> AccountRow]
  PROVE  /\ RunMigration(account) \in [Addresses -> AccountRow]
         /\ \A a \in Addresses :
              /\ RunMigration(account)[a].deleted = account[a].deleted
              /\ RunMigration(account)[a].owns = account[a].owns
              /\ ~account[a].deleted => RunMigration(account)[a].totals = account[a].owns
<1> DEFINE new == [a \in Addresses |->
                     IF ~account[a].deleted
                       THEN [account[a] EXCEPT !.totals = computeLcAccountData(account[a])]
                       ELSE account[a]]
<1>1. RunMigration(account) = new
  <2>1. DOMAIN account = Addresses
    BY Zenon
  <2>2. RunMigration(account) =
          writeLcAccountData(account, {a \in Addresses : ~account[a].deleted})
    BY Zenon, <2>1, BatchesConvertEveryAccount
  <2> QED BY Zenon, <2>1, <2>2 DEF writeLcAccountData
<1>2. ASSUME NEW a \in Addresses
      PROVE  /\ account[a] \in AccountRow
             /\ account[a].owns \in Totals
             /\ computeLcAccountData(account[a]) = account[a].owns
  BY Zenon DEF AccountRow, Totals, computeLcAccountData
<1>3. ASSUME NEW a \in Addresses
      PROVE  /\ new[a] \in AccountRow
             /\ new[a].deleted = account[a].deleted
             /\ new[a].owns = account[a].owns
             /\ ~account[a].deleted => new[a].totals = account[a].owns
  BY Zenon, <1>2 DEF AccountRow
<1> QED BY Zenon, <1>1, <1>3

(* A handler's transaction keeps the schema in order. It may be one of a   *)
(* stale process, which writes an old state back.                          *)
LEMMA HandlerSchema ==
  ASSUME IInv, NEW p \in Procs, pc[p] = "handler", task[p] < N, task[p] \notin Unsupported,
         task[p] \in Once => task[p] \notin applied,
         applied' = applied \cup {task[p]}, stored' = mem[p] + 1, UNCHANGED <<setup, created>>
  PROVE  SchemaInv' /\ Grows /\ stored' \in 0 .. N /\ applied' \subseteq 0 .. N - 1
<1>1. task[p] \in 0 .. N - 1 /\ mem[p] = task[p] /\ setup
  BY SMTT(60), Table DEF IInv, TypeOK, ProcInv, OpeningInv, RunnerInv, Finished
<1>2. \A i \in 0 .. N - 1 : i < task[p] => i \in applied
  BY Zenon DEF IInv, ProcInv, RunnerInv
<1>3. applied \subseteq 0 .. N - 1
  BY Zenon DEF IInv, TypeOK
<1>4. \A i \in applied' : \A j \in 0 .. i : j \in applied'
  <2>1. \A i \in applied : \A j \in 0 .. i : j \in applied
    BY Zenon DEF IInv, SchemaInv
  <2>2. \A j \in 0 .. task[p] : j \in applied'
    BY <1>1, <1>2, Table
  <2> QED BY Zenon, <2>1, <2>2
<1>5. StoredIsApplied'
  BY <1>1, <1>2, Table DEF StoredIsApplied
<1>6. OnceNotDueAgain'
  <2> SUFFICES ASSUME ~created, NEW i \in Once \cap applied', ~ (stored' > i) PROVE FALSE
    BY Zenon DEF OnceNotDueAgain
  <2>1. i \in 0 .. N - 1 /\ i > task[p]
    BY <1>1, Table
  <2>2. i \in applied
    BY <2>1, <1>1
  <2>3. task[p] \in applied
    BY <2>1, <2>2, <1>1, SMTT(60) DEF IInv, SchemaInv
  <2>4. task[p] \in Once
    BY <2>1, <1>1, Table
  <2> QED BY Zenon, <2>3, <2>4
<1>7. created => applied' = 0 .. N - 1
  BY Zenon, <1>1 DEF IInv, SchemaInv
<1>8. SchemaInv'
  BY Zenon, <1>1, <1>4, <1>5, <1>6, <1>7 DEF SchemaInv
<1>9. stored' \in 0 .. N
  BY <1>1, Table
<1>10. applied' \subseteq 0 .. N - 1 /\ Grows
  BY Zenon, <1>1, <1>3 DEF Grows
<1> QED BY Zenon, <1>8, <1>9, <1>10

(* sqlMigration and convertAccountData. *)
LEMMA RunHandlerStep == ASSUME IInv, NEW p \in Procs, RunHandler(p) PROVE IInv'
<1>1. SchemaInv' /\ Grows /\ stored' \in 0 .. N /\ applied' \subseteq 0 .. N - 1
  BY Zenon, HandlerSchema DEF RunHandler
<1>2. task[p] \in 0 .. N - 1 /\ mem[p] = task[p] /\ setup /\ setup' /\ UNCHANGED <<created, imports>>
  BY Table, SMTT(60) DEF RunHandler, IInv, TypeOK, ProcInv, OpeningInv, RunnerInv, Finished
<1>3. account' \in [Addresses -> AccountRow] /\ AccountInv'
  <2>1. account \in [Addresses -> AccountRow]
    BY Zenon DEF IInv, TypeOK
  <2>2. CASE task[p] = Convert
    <3>1. account' = RunMigration(account)
      BY Zenon, <2>2 DEF RunHandler
    <3> QED BY Zenon, <2>1, <3>1, <1>2, Converted DEF AccountInv, IInv
  <2>3. CASE task[p] # Convert
    <3>1. account' = account /\ (Convert \in applied' => Convert \in applied)
      BY Zenon, <2>3 DEF RunHandler
    <3> QED BY Zenon, <2>1, <3>1, <1>2 DEF AccountInv, IInv
  <2> QED BY Zenon, <2>2, <2>3
<1>4. CASE mem' = [mem EXCEPT ![p] = @ + 1] /\ NextTask(p) /\ UNCHANGED faults
  <2>1. /\ pc'[p] = "start" /\ task'[p] = task[p] + 1 /\ mem'[p] = mem[p] + 1
        /\ until'[p] = until[p] /\ blocking'[p] = blocking[p] /\ closes'[p] = closes[p]
        /\ status'[p] = status[p]
    BY Zenon, <1>4 DEF NextTask, Goto, IInv, TypeOK
  <2>2. task[p] + 1 \in 0 .. N
    BY SMTT(60), <1>2, Table
  <2>3. TypeOK'
    <3>1. mem' \in [Procs -> 0 .. N] /\ task' \in [Procs -> 0 .. Finished]
      BY SMTT(60), <1>2, <1>4, <2>2, Table DEF NextTask, IInv, TypeOK, Finished
    <3> QED BY SMTT(60), <1>1, <1>2, <1>3, <1>4, <3>1, Table DEF NextTask, Goto, IInv, TypeOK
  <2>4. \A r \in Procs \ {p} : Same(r)
    BY Zenon, <1>4 DEF Same, NextTask, Goto, IInv, TypeOK
  <2>5. RunnerInv(p)'
    <3>1. \A i \in 0 .. N - 1 : i < task'[p] => i \in applied'
      <4>1. \A i \in 0 .. N - 1 : i < task[p] => i \in applied
        BY Zenon DEF RunHandler, IInv, ProcInv, RunnerInv
      <4>2. applied' = applied \cup {task[p]}
        BY Zenon DEF RunHandler
      <4>3. ASSUME NEW i \in 0 .. N - 1, i < task[p] + 1 PROVE i < task[p] \/ i = task[p]
        BY SMTT(60), <1>2, <4>3, Table
      <4> QED BY Zenon, <2>1, <4>1, <4>2, <4>3
    <3>2. \A i \in Blocking : i > until'[p] => i \in applied'
      BY Zenon, <2>1, <1>1 DEF RunHandler, IInv, ProcInv, RunnerInv, Grows
    <3>3. blocking'[p] <=> closes'[p] = 0
      BY Zenon, <2>1 DEF RunHandler, IInv, ProcInv, RunnerInv
    <3> QED BY ZenonT(30), <3>1, <3>2, <3>3, <2>1, <1>2 DEF RunnerInv
  <2>6. OpeningInv(p)' /\ AccessInv(p)'
    BY Zenon, <2>1, <1>1, <1>2 DEF IInv, ProcInv, OpeningInv, AccessInv, Grows
  <2> QED BY Zenon, <1>1, <1>3, <2>3, <2>4, <2>5, <2>6, OthersKeep DEF ProcInv
<1>5. CASE Fault /\ HaltWith(p, "sql")
  <2>1. faults' \in 0 .. MaxFaults /\ pc[p] = "handler"
    BY SMTT(60), <1>5, Table DEF RunHandler, Fault, IInv, TypeOK
  <2>2. TypeOK'
    BY SMTT(60), <1>1, <1>2, <1>3, <1>5, <2>1, HaltKeeps DEF IInv, TypeOK
  <2> QED BY Zenon, <1>1, <1>3, <1>5, <2>1, <2>2, HaltKeeps, OthersKeep
<1> QED BY Zenon, <1>4, <1>5 DEF RunHandler

(* The last task. *)
LEMMA MarkMigrationsAsDoneStep ==
  ASSUME IInv, NEW p \in Procs, MarkMigrationsAsDone(p) PROVE IInv'
<1>1. /\ task[p] = N /\ setup /\ pc[p] = "handler" /\ stored' = N
      /\ UNCHANGED <<setup, applied, created, account, imports>>
  BY Zenon DEF MarkMigrationsAsDone, MarkDone, IInv, ProcInv, OpeningInv
<1>2. applied = 0 .. N - 1
  <2>1. \A i \in 0 .. N - 1 : i \in applied
    BY <1>1, Table, SMTT(60) DEF IInv, ProcInv, RunnerInv
  <2> QED BY Zenon, <2>1 DEF IInv, TypeOK
<1>3. SchemaInv' /\ Grows /\ AccountInv'
  <2>1. SchemaInv'
    BY <1>1, <1>2, Table DEF SchemaInv, StoredIsApplied, OnceNotDueAgain
  <2> QED BY Zenon, <2>1, <1>1 DEF Grows, IInv, AccountInv
<1>4. CASE NextTask(p) /\ UNCHANGED <<mem, faults>>
  <2>1. /\ pc'[p] = "start" /\ task'[p] = N + 1
        /\ until'[p] = until[p] /\ blocking'[p] = blocking[p] /\ closes'[p] = closes[p]
        /\ status'[p] = status[p]
    BY Zenon, <1>1, <1>4 DEF NextTask, Goto, IInv, TypeOK
  <2>2. TypeOK'
    BY SMTT(60), <1>1, <1>4, Table DEF NextTask, Goto, IInv, TypeOK, Finished
  <2>3. \A r \in Procs \ {p} : Same(r)
    BY Zenon, <1>4 DEF Same, NextTask, Goto, IInv, TypeOK
  <2>4. RunnerInv(p)'
    BY <1>1, <1>2, <2>1, Table, SMTT(60) DEF IInv, ProcInv, RunnerInv
  <2>5. OpeningInv(p)' /\ AccessInv(p)'
    BY Zenon, <2>1, <1>1 DEF IInv, ProcInv, OpeningInv, AccessInv
  <2> QED BY Zenon, <1>3, <2>2, <2>3, <2>4, <2>5, OthersKeep DEF ProcInv
<1>5. CASE Fault /\ HaltWith(p, "sql")
  <2>1. faults' \in 0 .. MaxFaults
    BY SMTT(60), <1>5, Table DEF Fault, IInv, TypeOK
  <2>2. TypeOK'
    BY <1>1, <1>3, <1>5, <2>1, HaltKeeps, Table, SMTT(60) DEF IInv, TypeOK
  <2> QED BY Zenon, <1>1, <1>3, <1>5, <2>2, HaltKeeps, OthersKeep
<1> QED BY Zenon, <1>4, <1>5 DEF MarkMigrationsAsDone

(* A block that is imported while other processes may still be migrating:  *)
(* the importer was let in, so that the conversion is done.                *)
LEMMA ImportBlockStep == ASSUME IInv, NEW p \in Procs, ImportBlock(p) PROVE IInv'
<1>1. Convert \in applied /\ setup
  <2>1. closes[p] > 0 /\ closes[p] \in 0 .. 1 /\ (closes[p] = 1 => Blocking \subseteq applied)
    BY Zenon DEF ImportBlock, IInv, ProcInv, AccessInv
  <2>2. Blocking \subseteq applied
    BY <2>1
  <2> QED BY Zenon, <2>2, Table DEF IInv, SchemaInv
<1>2. PICK a \in Addresses, t \in Tables :
        /\ account[a].owns[t] + 1 <= MaxRows
        /\ account' = [account EXCEPT ![a] =
             [deleted |-> FALSE,
              totals  |-> [IF account[a].deleted THEN NoTotals ELSE account[a].totals
                             EXCEPT ![t] = account[a].owns[t] + 1],
              owns    |-> [account[a].owns EXCEPT ![t] = account[a].owns[t] + 1]]]
  BY Zenon DEF ImportBlock
<1> DEFINE owns == account[a].owns
           new == [owns EXCEPT ![t] = owns[t] + 1]
<1>3. account \in [Addresses -> AccountRow] /\ account[a] \in AccountRow /\ owns \in Totals
  BY Zenon DEF IInv, TypeOK, AccountRow
<1>4. (IF account[a].deleted THEN NoTotals ELSE account[a].totals) = owns
  BY Zenon, <1>1 DEF IInv, AccountInv
<1>5. account' = [account EXCEPT ![a] = [deleted |-> FALSE, totals |-> new, owns |-> new]]
  BY Zenon, <1>2, <1>4
<1>6. new \in Totals
  BY <1>2, <1>3, Table DEF Totals
<1> HIDE DEF owns, new
<1>7. account' \in [Addresses -> AccountRow]
  BY Zenon, <1>3, <1>5, <1>6 DEF AccountRow
<1>8. AccountInv'
  <2>1. ASSUME NEW b \in Addresses
        PROVE  /\ account'[b].deleted => account'[b].owns = NoTotals
               /\ ~account'[b].deleted => account'[b].totals = account'[b].owns
    <3>1. CASE b = a
      <4>1. account'[b] = [deleted |-> FALSE, totals |-> new, owns |-> new]
        BY Zenon, <3>1, <1>3, <1>5
      <4> QED BY <4>1, SMTT(60)
    <3>2. CASE b # a
      <4>1. account'[b] = account[b]
        BY Zenon, <3>2, <1>3, <1>5
      <4> QED BY Zenon, <4>1, <1>1 DEF IInv, AccountInv
    <3> QED BY Zenon, <3>1, <3>2
  <2>2. setup'
    BY Zenon, <1>1 DEF ImportBlock
  <2> QED BY Zenon, <2>1, <2>2 DEF AccountInv
<1>9. TypeOK'
  <2>1. imports' \in 0 .. MaxImports
    BY SMTT(60), Table DEF ImportBlock, IInv, TypeOK
  <2> QED BY Zenon, <2>1, <1>7 DEF ImportBlock, IInv, TypeOK
<1>10. SchemaInv' /\ Grows /\ \A r \in Procs : Same(r)
  BY Zenon DEF ImportBlock, IInv, SchemaInv, StoredIsApplied, OnceNotDueAgain, Grows, Same
<1>11. ProcInv(p)'
  BY Zenon, <1>10, SameKeeps DEF IInv
<1> QED BY Zenon, <1>8, <1>9, <1>10, <1>11, OthersKeep

-----------------------------------------------------------------------------
(* A new database, or one of an earlier release, before any process. *)
LEMMA InitInv == Init => IInv
<1> SUFFICES ASSUME Init PROVE IInv
  BY Zenon
<1>0. NoTotals \in Totals
  BY Table DEF NoTotals, Totals
<1>3. /\ pc \in [Procs -> {"down", "open", "setup", "mark", "load", "start", "handler", "up"}]
      /\ mem \in [Procs -> 0 .. N] /\ until \in [Procs -> 0 .. N]
      /\ task \in [Procs -> 0 .. Finished] /\ closes \in [Procs -> 0 .. 2]
      /\ blocking \in [Procs -> BOOLEAN] /\ status \in [Procs -> Statuses \cup {Nil}]
      /\ faults \in 0 .. MaxFaults /\ imports \in 0 .. MaxImports /\ created \in BOOLEAN
  <2>1. 0 \in 0 .. N /\ 0 \in 0 .. Finished /\ 0 \in 0 .. 2 /\ 0 \in 0 .. MaxFaults
        /\ 0 \in 0 .. MaxImports
    BY Table DEF Finished
  <2> QED BY Zenon, <2>1 DEF Init
<1>1. CASE /\ Fresh /\ setup = FALSE /\ stored = NotInitialized /\ applied = {}
           /\ account = [a \in Addresses |->
                          [deleted |-> TRUE, totals |-> NoTotals, owns |-> NoTotals]]
  <2>1. account \in [Addresses -> AccountRow]
    BY Zenon, <1>0, <1>1 DEF AccountRow
  <2>2. AccountInv
    BY Zenon, <1>1 DEF AccountInv
  <2>3. SchemaInv
    BY SMTT(60), <1>1, Table DEF Init, SchemaInv, StoredIsApplied, OnceNotDueAgain, NotInitialized
  <2>4. TypeOK
    <3>0. stored \in -1 .. N
      <4>1. stored = -1 /\ N \in Nat
        BY Zenon, <1>1, Table DEF NotInitialized
      <4> QED BY <4>1
    <3>1. setup \in BOOLEAN
      BY Zenon, <1>1
    <3>2. applied \subseteq 0 .. N - 1
      BY Zenon, <1>1
    <3> QED BY Zenon, <1>3, <2>1, <3>0, <3>1, <3>2 DEF TypeOK
  <2>5. \A p \in Procs : ProcInv(p)
    BY SMTT(60) DEF Init, ProcInv, OpeningInv, RunnerInv, AccessInv
  <2> QED BY Zenon, <2>2, <2>3, <2>4, <2>5 DEF IInv
<1>2. CASE /\ setup = TRUE /\ stored \in OldStates /\ applied = 0 .. stored - 1
           /\ \E live \in OldLive :
                account = [a \in Addresses |-> OldRow(a \in live, OldOwns[a])]
  <2>0. stored \in -1 .. N
    BY Zenon, <1>2, TableAssumption
  <2>1. PICK live \in OldLive : account = [a \in Addresses |-> OldRow(a \in live, OldOwns[a])]
    BY Zenon, <1>2
  <2>2. ASSUME NEW a \in Addresses
        PROVE  /\ account[a] \in AccountRow
               /\ account[a].deleted => account[a].owns = NoTotals
               /\ Convert \in applied /\ ~account[a].deleted => account[a].totals = account[a].owns
    <3>1. OldOwns[a] \in Totals
      BY Zenon, TableAssumption
    <3>2. Convert \in applied => stored > Convert
      BY <1>2, <2>0, Table
    <3>3. account[a] = OldRow(a \in live, OldOwns[a])
      BY Zenon, <2>1
    <3>4. CASE a \in live
      <4>1. account[a] = [deleted |-> FALSE, owns |-> OldOwns[a],
                          totals |-> IF stored > Convert THEN OldOwns[a] ELSE NoTotals]
        BY Zenon, <3>3, <3>4 DEF OldRow
      <4> QED BY SMTT(60), <4>1, <3>1, <3>2, <1>0 DEF AccountRow
    <3>5. CASE a \notin live
      <4>1. account[a] = [deleted |-> TRUE, owns |-> NoTotals, totals |-> NoTotals]
        BY Zenon, <3>3, <3>5 DEF OldRow
      <4> QED BY <4>1, <1>0, SMTT(60) DEF AccountRow
    <3> QED BY Zenon, <3>4, <3>5
  <2>3. AccountInv /\ account \in [Addresses -> AccountRow]
    BY Zenon, <1>2, <2>1, <2>2 DEF AccountInv
  <2>4. SchemaInv
    BY SMTT(60), <1>2, <2>0, Table DEF Init, SchemaInv, StoredIsApplied, OnceNotDueAgain
  <2>5. TypeOK
    BY SMTT(60), <1>2, <1>3, <2>0, <2>3, Table DEF TypeOK
  <2>6. \A p \in Procs : ProcInv(p)
    BY SMTT(60) DEF Init, ProcInv, OpeningInv, RunnerInv, AccessInv
  <2> QED BY Zenon, <2>3, <2>4, <2>5, <2>6 DEF IInv
<1> QED BY Zenon, <1>1, <1>2 DEF Init

(* Every step keeps it. *)
LEMMA NextInv == IInv /\ [Next]_vars => IInv'
<1> SUFFICES ASSUME IInv, [Next]_vars PROVE IInv'
  BY Zenon
<1>1. ASSUME NEW p \in Procs, Step(p) PROVE IInv'
  BY Zenon, <1>1, OpenReadOnlyStep, IsSetupStep, SetupPostgresStep, MarkNewDatabaseStep,
     LoadTasksStep, StartTaskStep, FinishTasksStep, UpgradeNotSupportedStep,
     RunHandlerStep, RunHandlerAgainStep, MarkMigrationsAsDoneStep DEF Step
<1>2. CASE Next
  BY Zenon, <1>1, <1>2, StartStep, StatementErrorStep, ImportBlockStep, CrashStep, StopStep DEF Next
<1>3. CASE UNCHANGED vars
  <2>1. UNCHANGED dbvars
    BY Zenon, <1>3 DEF vars, dbvars
  <2>2. \A p \in Procs : Same(p)
    BY Zenon, <1>3 DEF vars, Same
  <2>3. TypeOK'
    BY Zenon, <1>3 DEF vars, IInv, TypeOK
  <2>4. \A p \in Procs : ProcInv(p)'
    BY Zenon, <2>1, <2>2, DbKeeps, SameKeeps DEF IInv
  <2> QED BY Zenon, <2>1, <2>3, <2>4, DbKeeps DEF IInv
<1> QED BY Zenon, <1>2, <1>3

(* The inductive invariant holds from the opening of the database on. *)
THEOREM Invariance == Spec => []IInv
BY InitInv, NextInv, PTL DEF Spec

-----------------------------------------------------------------------------
(* Every variable of the migration keeps its type. *)
THEOREM TypeCorrect == Spec => []TypeOK
<1>1. IInv => TypeOK
  BY Zenon DEF IInv
<1> QED BY <1>1, Invariance, PTL

(* The stored state never claims a change the schema does not show, however *)
(* many processes migrate one database and write stale copies of the state *)
(* back.                                                                    *)
THEOREM StateNeverAhead == Spec => []StoredIsApplied
<1>1. IInv => StoredIsApplied
  BY Zenon DEF IInv, SchemaInv
<1> QED BY <1>1, Invariance, PTL

(* A change that fails when it is made twice is never due again. *)
THEOREM OnceOnlyOnce == Spec => []OnceNotDueAgain
<1>1. IInv => OnceNotDueAgain
  BY Zenon DEF IInv, SchemaInv
<1> QED BY <1>1, Invariance, PTL

(* A process that serves queries, or closed the channel of OpenPostgres,   *)
(* finds every blocking entry in the schema.                               *)
LEMMA AccessMeansMigrated ==
  ASSUME IInv, NEW p \in Procs, DBAvailable(p) \/ closes[p] > 0
  PROVE  Blocking \subseteq applied
<1>1. closes[p] \in 0 .. 1 /\ AccessInv(p)
  BY Zenon DEF IInv, ProcInv, AccessInv
<1>2. CASE closes[p] > 0
  BY SMTT(60), <1>1, <1>2 DEF AccessInv
<1>3. CASE status[p] # Nil /\ ~status[p].blocking
  BY Zenon, <1>1, <1>3 DEF AccessInv
<1>4. CASE stored # NotInitialized /\ ~MigrationStateBlocked(stored)
  <2>1. stored \in 0 .. N /\ \A i \in 0 .. stored - 1 : i \in applied
    BY <1>4, Table, SMTT(60) DEF IInv, TypeOK, SchemaInv, StoredIsApplied, NotInitialized
  <2>2. \A i \in Blocking : i \in 0 .. N - 1 /\ ~ (i >= stored)
    BY Zenon, <1>4, Table DEF MigrationStateBlocked
  <2> QED BY SMTT(60), <2>1, <2>2, Table
<1> QED BY Zenon, <1>2, <1>3, <1>4 DEF DBAvailable

(* Nobody is let in before every blocking change is in the schema. *)
THEOREM AvailableMeansMigrated == Spec => []AvailableIsMigrated
<1>1. IInv => AvailableIsMigrated
  BY Zenon, AccessMeansMigrated DEF AvailableIsMigrated
<1> QED BY <1>1, Invariance, PTL

(* Whoever is let in reads accounts whose totals are those of what the     *)
(* accounts own, for any number of accounts and any batch size.            *)
THEOREM AvailableMeansConverted == Spec => []TotalsConverted
<1>1. IInv => TotalsConverted
  <2> SUFFICES ASSUME IInv, NEW p \in Procs, DBAvailable(p) \/ closes[p] > 0,
                      NEW a \in Addresses, ~account[a].deleted
               PROVE  account[a].totals = account[a].owns
    BY Zenon DEF TotalsConverted
  <2>1. Convert \in applied
    BY Zenon, AccessMeansMigrated, Table
  <2> QED BY Zenon, <2>1 DEF IInv, AccountInv
<1> QED BY <1>1, Invariance, PTL

(* The channel of OpenPostgres is never closed twice, and it is closed once *)
(* the runner of a writer is through without an error.                     *)
THEOREM ChannelClosedOnce == Spec => []ClosedOnce
<1>1. IInv => ClosedOnce
  <2> SUFFICES ASSUME IInv, NEW p \in Procs
               PROVE  /\ closes[p] <= 1
                      /\ p \notin ReadOnly /\ pc[p] = "up" /\ status[p].err \in {"nil", "none"} =>
                           closes[p] = 1
    BY Zenon DEF ClosedOnce
  <2>1. AccessInv(p)
    BY Zenon DEF IInv, ProcInv
  <2> QED BY <2>1 DEF AccessInv
<1> QED BY <1>1, Invariance, PTL
=============================================================================
