------------------------- MODULE ResourceSearchProofs -------------------------
(***************************************************************************)
(* What a client that follows next tokens gets, for any tables, requests,  *)
(* limits and blocks: the pages of a walk, look-ups and account limits.    *)
(***************************************************************************)
EXTENDS ResourceSearch, FiniteSetTheorems, WellFoundedInduction, TLAPS

-----------------------------------------------------------------------------
(* The least and the greatest element of a set of natural numbers: proofs  *)
(* by least counterexample rest on them.                                   *)

(* A nonempty set of natural numbers has a least element. *)
LEMMA LeastExists ==
  ASSUME NEW S \in SUBSET Nat, S # {}
  PROVE  \E m \in S : \A n \in S : m <= n
<1>1. PICK m \in S : \A n \in S : ~ (<<n, m>> \in OpToRel(<, Nat))
  BY Zenon, NatLessThanWellFounded, WFMin
<1>2. \A n \in S : ~ (n < m)
  BY Zenon, <1>1 DEF OpToRel
<1> QED BY <1>2

(* A nonempty finite set of natural numbers has a greatest element: a       *)
(* smallest subset without one would lose an element and still have none.  *)
LEMMA GreatestExists ==
  ASSUME NEW S \in SUBSET Nat, IsFiniteSet(S), S # {}
  PROVE  \E m \in S : \A n \in S : n <= m
<1> DEFINE Has(T) == \E m \in T : \A n \in T : n <= m
           Bad == {T \in SUBSET S : T # {} /\ ~Has(T)}
           Sizes == {Cardinality(T) : T \in Bad}
<1>1. Bad = {}
  <2> SUFFICES ASSUME Bad # {} PROVE FALSE
    BY Zenon
  <2>1. \A T \in Bad : IsFiniteSet(T) /\ Cardinality(T) \in Nat
    BY Zenon, FS_Subset, FS_CardinalityType
  <2>2. PICK k \in Sizes : \A n \in Sizes : k <= n
    <3>1. Sizes \in SUBSET Nat /\ Sizes # {}
      BY Zenon, <2>1
    <3> QED BY Zenon, <3>1, LeastExists
  <2>3. PICK T \in Bad : k = Cardinality(T)
    BY Zenon, <2>2
  <2>4. PICK x \in T : TRUE
    BY Zenon, <2>3
  <2> DEFINE U == T \ {x}
  <2>5. Cardinality(U) = k - 1 /\ k \in Nat
    BY Zenon, <2>1, <2>3, <2>4, FS_RemoveElement
  <2>6. U \notin Bad
    <3>1. U \in Bad => Cardinality(U) \in Sizes
      BY Zenon
    <3> HIDE DEF Sizes, Bad, U
    <3> QED BY <3>1, <2>2, <2>5
  <2>7. U = {} \/ Has(U)
    BY Zenon, <2>6, <2>3
  <2>8. T = U \cup {x} /\ T \subseteq Nat
    BY Zenon, <2>3, <2>4
  <2>9. Has(T)
    <3>1. CASE U = {}
      BY <3>1, <2>8
    <3>2. CASE Has(U)
      <4>1. PICK m \in U : \A n \in U : n <= m
        BY Zenon, <3>2
      <4>2. x <= m \/ m <= x
        BY <2>8, <4>1
      <4>3. CASE x <= m
        BY Zenon, <4>1, <4>3, <2>8
      <4>4. CASE m <= x
        <5>1. \A n \in U : n <= x
          BY <4>1, <4>4, <2>8
        <5> QED BY <5>1, <2>8
      <4> QED BY Zenon, <4>2, <4>3, <4>4
    <3> QED BY Zenon, <3>1, <3>2, <2>7
  <2> QED BY Zenon, <2>3, <2>9
<1>2. Has(S)
  BY Zenon, <1>1
<1> QED BY Zenon, <1>2

(* So Max returns the greatest element. *)
LEMMA MaxIsGreatest ==
  ASSUME NEW S \in SUBSET Nat, IsFiniteSet(S), S # {}
  PROVE  Max(S) \in S /\ \A n \in S : n <= Max(S)
<1>1. \E m \in S : \A n \in S : m >= n
  BY Zenon, GreatestExists
<1> QED BY Zenon, <1>1 DEF Max

(* And Min the least one. *)
LEMMA MinIsLeast ==
  ASSUME NEW S \in SUBSET Nat, S # {}
  PROVE  Min(S) \in S /\ \A n \in S : Min(S) <= n
<1>1. \E m \in S : \A n \in S : m <= n
  BY Zenon, LeastExists
<1> QED BY Zenon, <1>1 DEF Min

(* Between the first statement of a request's transaction and the rows. *)
Open == pc \in {"round", "header", "limit"}

(* What a rewinding search of accounts leaves out. *)
LeftOut(r) == IF r.op = "SearchForAccounts" /\ r.rewind THEN Special ELSE {}

Answers == [status : {0, 200, 400, 404, 500}, keys : SUBSET Nat, rows : SUBSET Nat, round : Nat,
            level : Nat, deltas : SUBSET Int, listed : {answer.listed}]

Shape ==
    /\ request \in Requests /\ pc \in {"idle", "round", "header", "limit", "done"}
    /\ pc \in {"round", "header"} => request.op \in Accounts
    /\ WellFormed(db) /\ WellFormed(snap) /\ blocks \in 0 .. MaxBlocks
    /\ token \in Optional(Nat) /\ seen \in SUBSET Nat /\ answer \in Answers
    /\ always \subseteq Matches(db, request)

(* Within a transaction: the answer so far is of its snapshot. *)
Reading ==
    Open =>
      /\ answer.status = 0 /\ answer.keys = {} /\ answer.deltas = {} /\ answer.listed = {}
      /\ answer.round = snap.round /\ always \subseteq Matches(snap, request)
      /\ pc # "round" /\ request.op \in Accounts => answer.level = snap.header[snap.round].level
      /\ pc = "limit" /\ request.op \in Accounts =>
           checkAccountResourceLimit(snap, Options(request, token))

(* During a walk: everything up to the token was returned, and nothing     *)
(* beyond it.                                                              *)
Walk ==
    pc # "done" =>
      /\ \A k \in Seen : \E t \in token : k <= t
      /\ token # {} => Seen # {}
      /\ request.op \in Lookups => token = {}
      /\ \A k \in always : (\E t \in token : k <= t) => k \in Seen \cup LeftOut(request)

(* The inductive invariant. *)
IInv == /\ Shape /\ Reading /\ Walk
        /\ NoRepeats /\ NothingMissed /\ PageIsOfItsRound /\ LookupsFind /\ AccountsWithinLimits

-----------------------------------------------------------------------------
(* What LIMIT keeps: the least keys, as many as it says. *)
LEMMA FirstIsPage ==
  ASSUME NEW keys \in SUBSET Nat, IsFiniteSet(keys), NEW n \in Nat
  PROVE  /\ First(keys, n) \subseteq keys
         /\ \A k \in keys \ First(keys, n), p \in First(keys, n) : p < k
         /\ n > 0 /\ keys # {} => First(keys, n) # {}
         /\ Cardinality(First(keys, n)) <= n
<1> DEFINE below(k) == {j \in keys : j < k}
           F == {k \in keys : Cardinality(below(k)) < n}
<1>0. F = First(keys, n)
  BY Zenon DEF First
<1>1. \A k \in keys : below(k) \in SUBSET keys /\ IsFiniteSet(below(k))
                      /\ Cardinality(below(k)) \in Nat
  BY Zenon, FS_Subset, FS_CardinalityType
<1>2. ASSUME NEW k \in keys \ F, NEW p \in F PROVE p < k
  <2>0. k \in Nat /\ p \in Nat
    BY Zenon
  <2>1. ASSUME k <= p PROVE FALSE
    <3>1. below(k) \in SUBSET below(p)
      <4>1. \A j \in keys : j \in Nat /\ (j < k => j < p)
        <5> HIDE DEF F
        <5> QED BY <2>0, <2>1
      <4> QED BY Zenon, <4>1
    <3>2. p \in keys /\ k \in keys /\ Cardinality(below(p)) < n /\ ~(Cardinality(below(k)) < n)
      BY Zenon
    <3>3. Cardinality(below(k)) <= Cardinality(below(p))
      <4> HIDE DEF below
      <4> QED BY Zenon, <1>1, <3>1, <3>2, FS_Subset
    <3>4. Cardinality(below(k)) \in Nat /\ Cardinality(below(p)) \in Nat
      BY Zenon, <1>1, <3>2
    <3> HIDE DEF below
    <3> QED BY <3>2, <3>3, <3>4
  <2> HIDE DEF F
  <2> QED BY <2>0, <2>1
<1>3. ASSUME n > 0, keys # {} PROVE F # {}
  <2>1. PICK m \in keys : \A j \in keys : m <= j
    BY Zenon, <1>3, LeastExists
  <2>2. below(m) = {}
    <3>1. \A j \in keys : j \in Nat /\ m \in Nat /\ ~(j < m)
      BY <2>1
    <3> QED BY Zenon, <3>1
  <2>3. Cardinality(below(m)) = 0
    BY Zenon, <2>2, FS_EmptySet
  <2> HIDE DEF below
  <2> QED BY Zenon, <1>3, <2>1, <2>3
<1>4. Cardinality(F) <= n
  <2>1. F \in SUBSET Nat /\ F \in SUBSET keys /\ IsFiniteSet(F)
    <3>1. F \in SUBSET Nat /\ F \in SUBSET keys
      BY Zenon
    <3> QED BY Zenon, <3>1, FS_Subset
  <2>2. CASE F = {}
    <3> HIDE DEF F
    <3>1. Cardinality(F) = 0
      BY Zenon, <2>2, FS_EmptySet
    <3> QED BY <3>1
  <2>3. CASE F # {}
    <3>1. PICK g \in F : \A j \in F : j <= g
      BY Zenon, <2>1, <2>3, GreatestExists
    <3>2. g \in keys /\ Cardinality(below(g)) < n /\ g \notin below(g)
      BY <3>1
    <3>3. F \in SUBSET (below(g) \cup {g})
      BY <3>1, <2>1
    <3> HIDE DEF F, below
    <3>4. IsFiniteSet(below(g) \cup {g}) /\ Cardinality(below(g) \cup {g}) = Cardinality(below(g)) + 1
      BY Zenon, <1>1, <3>2, FS_AddElement
    <3>5. Cardinality(F) <= Cardinality(below(g)) + 1
      BY Zenon, <3>3, <3>4, FS_Subset
    <3>6. Cardinality(F) \in Nat /\ Cardinality(below(g)) \in Nat
      BY Zenon, <1>1, <2>1, <3>2, FS_CardinalityType
    <3> QED BY <3>2, <3>5, <3>6
  <2> QED BY Zenon, <2>2, <2>3
<1> HIDE DEF F
<1> QED BY Zenon, <1>0, <1>2, <1>3, <1>4 DEF F

-----------------------------------------------------------------------------
(* The request without its limit, by which Matches is defined. *)
Unlimited(r) == [r EXCEPT !.limit = {0}]

LEMMA UnlimitedFields ==
  ASSUME NEW r \in RequestRecords, NEW u, u = Unlimited(r)
  PROVE  /\ u.op = r.op /\ u.limit = {0} /\ u.all = r.all /\ u.addr = r.addr /\ u.id = r.id
         /\ u.app = r.app /\ u.gt = r.gt /\ u.lt = r.lt /\ u.auth = r.auth
         /\ u.online = r.online /\ u.exclude = r.exclude /\ u.rewind = r.rewind
         /\ u.name = r.name /\ u.unit = r.unit
BY Zenon DEF Unlimited, RequestRecords

LEMMA PageLimits ==
  ASSUME NEW r \in RequestRecords
  PROVE  /\ PageLimit(r) \in Nat /\ PageLimit(r) <= MaxLimit
         /\ r.limit = {0} <=> PageLimit(r) = 0
<1>1. r.limit \in Optional(Nat)
  BY Zenon DEF RequestRecords
<1>2. CASE r.limit = {}
  <2>1. uintOrDefaultValue(r.limit, DefaultLimit) = DefaultLimit
    BY Zenon, <1>2 DEF uintOrDefaultValue
  <2> QED BY <1>2, <2>1, LimitsAssumption DEF PageLimit
<1>3. CASE r.limit # {}
  <2>1. PICK v \in Nat : r.limit = {v}
    BY Zenon, <1>1, <1>3 DEF Optional
  <2>2. The(r.limit) = v
    BY Zenon, <2>1 DEF The
  <2>3. uintOrDefaultValue(r.limit, DefaultLimit) = v
    BY Zenon, <1>3, <2>2 DEF uintOrDefaultValue
  <2>4. r.limit = {0} <=> v = 0
    BY Zenon, <2>1
  <2> QED BY <2>3, <2>4, LimitsAssumption DEF PageLimit
<1> QED BY Zenon, <1>2, <1>3

LEMMA UnlimitedLimit ==
  ASSUME NEW r \in RequestRecords
  PROVE  PageLimit(Unlimited(r)) = 0
<1>1. The({0}) = 0
  BY Zenon DEF The
<1>2. Unlimited(r).limit = {0}
  BY Zenon, UnlimitedFields
<1>3. uintOrDefaultValue(Unlimited(r).limit, DefaultLimit) = 0
  BY Zenon, <1>1, <1>2 DEF uintOrDefaultValue
<1> QED BY <1>3, LimitsAssumption DEF PageLimit

(* The filters of a query do not depend on its token, except for the key. *)
LEMMA AccountKeysAfter ==
  ASSUME NEW r \in RequestRecords, NEW d, NEW next
  PROVE  AccountKeys(d, AccountOptions(r, next)) =
           {a \in AccountKeys(d, AccountOptions(Unlimited(r), {})) : Greater(a, next)}
<1> DEFINE u == Unlimited(r)
           o == AccountOptions(r, next)
           p == AccountOptions(u, {})
<1>1. /\ u.all = r.all /\ u.id = r.id /\ u.app = r.app /\ u.gt = r.gt /\ u.lt = r.lt
      /\ u.auth = r.auth /\ u.online = r.online
  BY Zenon, UnlimitedFields
<1> HIDE DEF u
<1>2. /\ o.hasAssetID = p.hasAssetID /\ o.hasAppID = p.hasAppID
      /\ o.equalToAuthAddr = p.equalToAuthAddr /\ o.includeDeleted = p.includeDeleted
      /\ o.onlineOnly = p.onlineOnly /\ o.algosGT = p.algosGT /\ o.algosLT = p.algosLT
      /\ o.assetGT = p.assetGT /\ o.assetLT = p.assetLT
      /\ o.greaterThanAddress = next /\ p.greaterThanAddress = {}
      /\ o.equalToAddress = {} /\ p.equalToAddress = {}
  BY Zenon, <1>1 DEF AccountOptions
<1>3. \A a : Greater(a, {})
  BY Zenon DEF Greater
<1> HIDE DEF o, p
<1>4. AccountKeys(d, o) = {a \in AccountKeys(d, p) : Greater(a, next)}
  BY <1>2, <1>3 DEF AccountKeys
<1> QED BY Zenon, <1>4 DEF o, p, u

(* A page holds the first of the matching keys beyond the token. *)
IsPage(d, r, next) ==
    /\ Matches(d, r) \in SUBSET Nat /\ IsFiniteSet(Matches(d, r))
    /\ Rows(d, r, next) \ {NullName} =
         Limited({k \in Matches(d, r) : Greater(k, next)}, PageLimit(r))

LEMMA LimitedSubset == \A keys, n : Limited(keys, n) \subseteq keys
BY Zenon DEF Limited, First

LEMMA PlainPage ==
  ASSUME NEW r \in RequestRecords, NEW d, NEW next, r.op # "SearchForBlockHeaders",
         NEW A \in SUBSET Nat, IsFiniteSet(A),
         Rows(d, r, next) = Limited({k \in A : Greater(k, next)}, PageLimit(r)),
         Rows(d, Unlimited(r), {}) = Limited(A, 0)
  PROVE  IsPage(d, r, next)
<1>1. A \ {NullName} = A
  BY DEF NullName
<1>2. Matches(d, r) = A
  <2>1. Limited(A, 0) = A
    BY Zenon DEF Limited
  <2>2. Matches(d, r) = Rows(d, Unlimited(r), {}) \ {NullName}
    BY Zenon DEF Matches, Unlimited
  <2> QED BY Zenon, <1>1, <2>1, <2>2
<1>3. Rows(d, r, next) \ {NullName} = Rows(d, r, next)
  <2>1. Rows(d, r, next) \subseteq A
    BY Zenon, LimitedSubset
  <2> QED BY Zenon, <1>1, <2>1
<1> QED BY Zenon, <1>2, <1>3 DEF IsPage

LEMMA SubsetKeys ==
  \A S : (S \subseteq Addrs \/ S \subseteq Ids \/ S \subseteq Names) =>
           S \in SUBSET Nat /\ IsFiniteSet(S)
BY Zenon, KeysAssumption, FS_Subset

LEMMA SearchForAccountsPage ==
  ASSUME NEW r \in RequestRecords, NEW d, NEW next, r.op = "SearchForAccounts"
  PROVE  IsPage(d, r, next)
<1> DEFINE u == Unlimited(r)
           A == AccountKeys(d, AccountOptions(u, {}))
<1>1. AccountKeys(d, AccountOptions(r, next)) = {a \in A : Greater(a, next)}
  BY Zenon, AccountKeysAfter
<1>2. A \in SUBSET Nat /\ IsFiniteSet(A)
  <2>1. A \subseteq Addrs
    BY Zenon DEF AccountKeys
  <2> QED BY Zenon, <2>1, SubsetKeys
<1>3. AccountOptions(r, next).limit = PageLimit(r) /\ AccountOptions(u, {}).limit = 0
  <2>1. PageLimit(u) = 0
    BY Zenon, UnlimitedLimit
  <2> QED BY Zenon, <2>1 DEF AccountOptions
<1>4. Rows(d, r, next) = buildAccountQuery(d, AccountOptions(r, next))
  BY Zenon DEF Rows
<1>5. Rows(d, u, {}) = buildAccountQuery(d, AccountOptions(u, {}))
  <2>1. u.op = "SearchForAccounts"
    BY Zenon, UnlimitedFields
  <2> HIDE DEF u
  <2> QED BY Zenon, <2>1 DEF Rows
<1>6. /\ Rows(d, r, next) = Limited({a \in A : Greater(a, next)}, PageLimit(r))
      /\ Rows(d, u, {}) = Limited(A, 0)
  BY Zenon, <1>1, <1>3, <1>4, <1>5 DEF buildAccountQuery
<1> HIDE DEF A
<1> QED BY Zenon, <1>2, <1>6, PlainPage

LEMMA SearchForAssetsPage ==
  ASSUME NEW r \in RequestRecords, NEW d, NEW next, r.op = "SearchForAssets"
  PROVE  IsPage(d, r, next)
<1> DEFINE u == Unlimited(r)
           o == assetParamsToAssetQuery(r, next)
           p == assetParamsToAssetQuery(u, {})
           K(q) == {i \in Ids :
                      /\ Shown(d.asset[i], q.includeDeleted)
                      /\ Equal(i, q.id) /\ Greater(i, q.greaterThan)
                      /\ Equal(d.asset[i].creator, q.creator)
                      /\ Equal(d.asset[i].name, q.name) /\ Equal(d.asset[i].unit, q.unit)
                      /\ Equal(d.asset[i].name, q.query) \/ Equal(d.asset[i].unit, q.query)}
<1>1. /\ u.op = r.op /\ u.all = r.all /\ u.id = r.id /\ u.addr = r.addr /\ u.name = r.name
      /\ u.unit = r.unit
  BY UnlimitedFields
<1>2. PageLimit(u) = 0
  BY Zenon, UnlimitedLimit
<1> HIDE DEF u
<1>3. Rows(d, r, next) = Assets(d, o) /\ Rows(d, u, {}) = Assets(d, p)
  BY Zenon, <1>1 DEF Rows
<1>4. /\ o.includeDeleted = p.includeDeleted /\ o.id = p.id /\ o.creator = p.creator
      /\ o.name = p.name /\ o.unit = p.unit /\ o.query = p.query
      /\ o.greaterThan = next /\ p.greaterThan = {} /\ o.limit = PageLimit(r) /\ p.limit = 0
  BY Zenon, <1>1, <1>2 DEF assetParamsToAssetQuery
<1>5. \A i : Greater(i, {})
  BY Zenon DEF Greater
<1> HIDE DEF o, p
<1>6. Assets(d, o) = Limited(K(o), PageLimit(r)) /\ Assets(d, p) = Limited(K(p), 0)
  BY Zenon, <1>4 DEF Assets
<1>7. K(o) = {i \in K(p) : Greater(i, next)}
  BY Zenon, <1>4, <1>5
<1>8. K(p) \in SUBSET Nat /\ IsFiniteSet(K(p))
  <2>1. K(p) \subseteq Ids
    BY Zenon
  <2> HIDE DEF K
  <2> QED BY Zenon, <2>1, SubsetKeys
<1> HIDE DEF K
<1> QED BY Zenon, <1>3, <1>6, <1>7, <1>8, PlainPage DEF u

LEMMA SearchForApplicationsPage ==
  ASSUME NEW r \in RequestRecords, NEW d, NEW next, r.op = "SearchForApplications"
  PROVE  IsPage(d, r, next)
<1> DEFINE u == Unlimited(r)
           o == appParamsToApplicationQuery(r, next)
           p == appParamsToApplicationQuery(u, {})
           K(q) == {i \in Ids :
                      /\ Shown(d.app[i], q.includeDeleted)
                      /\ Equal(i, q.id) /\ Greater(i, q.greaterThan)
                      /\ Equal(d.app[i].creator, q.creator)}
<1>1. u.op = r.op /\ u.all = r.all /\ u.id = r.id /\ u.addr = r.addr
  BY Zenon, UnlimitedFields
<1>2. PageLimit(u) = 0
  BY Zenon, UnlimitedLimit
<1> HIDE DEF u
<1>3. Rows(d, r, next) = Applications(d, o) /\ Rows(d, u, {}) = Applications(d, p)
  BY Zenon, <1>1 DEF Rows
<1>4. /\ o.includeDeleted = p.includeDeleted /\ o.id = p.id /\ o.creator = p.creator
      /\ o.greaterThan = next /\ p.greaterThan = {} /\ o.limit = PageLimit(r) /\ p.limit = 0
  BY Zenon, <1>1, <1>2 DEF appParamsToApplicationQuery
<1>5. \A i : Greater(i, {})
  BY Zenon DEF Greater
<1> HIDE DEF o, p
<1>6. Applications(d, o) = Limited(K(o), PageLimit(r)) /\ Applications(d, p) = Limited(K(p), 0)
  BY Zenon, <1>4 DEF Applications
<1>7. K(o) = {i \in K(p) : Greater(i, next)}
  BY Zenon, <1>4, <1>5
<1>8. K(p) \in SUBSET Nat /\ IsFiniteSet(K(p))
  <2>1. K(p) \subseteq Ids
    BY Zenon
  <2> HIDE DEF K
  <2> QED BY Zenon, <2>1, SubsetKeys
<1> HIDE DEF K
<1> QED BY Zenon, <1>3, <1>6, <1>7, <1>8, PlainPage DEF u

LEMMA LookupAccountAppLocalStatesPage ==
  ASSUME NEW r \in RequestRecords, NEW d, NEW next, r.op = "LookupAccountAppLocalStates"
  PROVE  IsPage(d, r, next)
<1> DEFINE u == Unlimited(r)
           o == appParamsToApplicationQuery(r, next)
           p == appParamsToApplicationQuery(u, {})
           K(q) == {i \in Ids : \E a \in q.creator :
                      /\ Shown(d.local[a][i], q.includeDeleted)
                      /\ Equal(i, q.id) /\ Greater(i, q.greaterThan)}
<1>1. u.op = r.op /\ u.all = r.all /\ u.id = r.id /\ u.addr = r.addr
  BY Zenon, UnlimitedFields
<1>2. PageLimit(u) = 0
  BY Zenon, UnlimitedLimit
<1> HIDE DEF u
<1>3. Rows(d, r, next) = AppLocalState(d, o) /\ Rows(d, u, {}) = AppLocalState(d, p)
  BY Zenon, <1>1 DEF Rows
<1>4. /\ o.includeDeleted = p.includeDeleted /\ o.id = p.id /\ o.creator = p.creator
      /\ o.greaterThan = next /\ p.greaterThan = {} /\ o.limit = PageLimit(r) /\ p.limit = 0
  BY Zenon, <1>1, <1>2 DEF appParamsToApplicationQuery
<1>5. \A i : Greater(i, {})
  BY Zenon DEF Greater
<1> HIDE DEF o, p
<1>6. AppLocalState(d, o) = Limited(K(o), PageLimit(r)) /\ AppLocalState(d, p) = Limited(K(p), 0)
  BY Zenon, <1>4 DEF AppLocalState
<1>7. K(o) = {i \in K(p) : Greater(i, next)}
  BY Zenon, <1>4, <1>5
<1>8. K(p) \in SUBSET Nat /\ IsFiniteSet(K(p))
  <2>1. K(p) \subseteq Ids
    BY Zenon
  <2> HIDE DEF K
  <2> QED BY Zenon, <2>1, SubsetKeys
<1> HIDE DEF K
<1> QED BY Zenon, <1>3, <1>6, <1>7, <1>8, PlainPage DEF u

(* What LIMIT keeps of pairs. *)
FirstPairs(rows, n) ==
    {r \in rows : Cardinality({s \in rows : s[1] < r[1] \/ (s[1] = r[1] /\ s[2] < r[2])}) < n}

PairsOf(x, K) == {<<x, k>> : k \in K}
PairsTo(x, K) == {<<k, x>> : k \in K}
FirstKeys(rows)  == {row[1] : row \in rows}
SecondKeys(rows) == {row[2] : row \in rows}

(* AssetBalances sorts pairs; of one address, or of one asset, they come in *)
(* the order of the other key.                                             *)
LEMMA SameCount ==
  ASSUME NEW J, IsFiniteSet(J), NEW T, NEW f, f \in [J -> T],
         \A i, j \in J : f[i] = f[j] => i = j, \A t \in T : \E j \in J : f[j] = t
  PROVE  Cardinality(T) = Cardinality(J)
<1>1. f \in Injection(J, T) /\ f \in Surjection(J, T)
  BY Zenon DEF Injection, IsInjective, Surjection
<1>2. ExistsBijection(J, T)
  BY Zenon, <1>1 DEF ExistsBijection, Bijection
<1> QED BY Zenon, <1>2, FS_Bijection

LEMMA PairsOfAddress ==
  ASSUME NEW x \in Nat, NEW K \in SUBSET Nat, IsFiniteSet(K), NEW n
  PROVE  SecondKeys(FirstPairs(PairsOf(x, K), n)) = First(K, n)
<1> DEFINE rows == PairsOf(x, K)
<1>0. rows = {<<x, k>> : k \in K}
  BY Zenon DEF PairsOf
<1> HIDE DEF rows
<1> DEFINE below(k) == {j \in K : j < k}
           before(r) == {s \in rows : s[1] < r[1] \/ (s[1] = r[1] /\ s[2] < r[2])}
<1>1. ASSUME NEW k \in K PROVE Cardinality(before(<<x, k>>)) = Cardinality(below(k))
  <2> DEFINE J == below(k)
             T == before(<<x, k>>)
             f == [j \in J |-> <<x, j>>]
  <2>1. IsFiniteSet(J)
    BY Zenon, FS_Subset
  <2>2. T = {<<x, j>> : j \in J}
    BY <1>0
  <2> HIDE DEF J, T
  <2>3. /\ f \in [J -> T] /\ \A i, j \in J : f[i] = f[j] => i = j
        /\ \A t \in T : \E j \in J : f[j] = t
    BY Zenon, <2>2
  <2> HIDE DEF f
  <2>4. Cardinality(T) = Cardinality(J)
    BY Zenon, <2>1, <2>3, SameCount
  <2> QED BY Zenon, <2>4 DEF J, T
<1> DEFINE Q(r) == Cardinality(before(r)) < n
           P(k) == Cardinality(below(k)) < n
<1>2. \A j \in K : Q(<<x, j>>) <=> P(j)
  BY Zenon, <1>1
<1>3. First(K, n) = {j \in K : P(j)}
  BY Zenon DEF First
<1> HIDE DEF P, Q
<1>4. {row[2] : row \in {r \in rows : Q(r)}} = {j \in K : P(j)}
  <2> DEFINE sel == {r \in rows : Q(r)}
             J == {j \in K : P(j)}
  <2>1. sel = {<<x, k>> : k \in J}
    BY Zenon, <1>0, <1>2
  <2> HIDE DEF sel, J
  <2>2. {row[2] : row \in sel} = J
    <3>1. ASSUME NEW y \in J PROVE <<x, y>> \in sel /\ <<x, y>>[2] = y
      BY Zenon, <2>1
    <3>2. ASSUME NEW row \in sel PROVE row[2] \in J
      <4>1. PICK k \in J : row = <<x, k>>
        BY Zenon, <2>1
      <4> QED BY Zenon, <4>1
    <3> HIDE <2>1
    <3> QED BY Zenon, <3>1, <3>2
  <2> QED BY Zenon, <2>2 DEF sel, J
<1>5. FirstPairs(rows, n) = {r \in rows : Q(r)}
  BY Zenon DEF FirstPairs, Q
<1> QED BY Zenon, <1>3, <1>4, <1>5 DEF rows, SecondKeys

LEMMA PairsOfAsset ==
  ASSUME NEW x \in Nat, NEW K \in SUBSET Nat, IsFiniteSet(K), NEW n
  PROVE  FirstKeys(FirstPairs(PairsTo(x, K), n)) = First(K, n)
<1> DEFINE rows == PairsTo(x, K)
<1>0. rows = {<<k, x>> : k \in K}
  BY Zenon DEF PairsTo
<1> HIDE DEF rows
<1> DEFINE below(k) == {j \in K : j < k}
           before(r) == {s \in rows : s[1] < r[1] \/ (s[1] = r[1] /\ s[2] < r[2])}
<1>1. ASSUME NEW k \in K PROVE Cardinality(before(<<k, x>>)) = Cardinality(below(k))
  <2> DEFINE J == below(k)
             T == before(<<k, x>>)
             f == [j \in J |-> <<j, x>>]
  <2>1. IsFiniteSet(J)
    BY Zenon, FS_Subset
  <2>2. T = {<<j, x>> : j \in J}
    BY <1>0
  <2> HIDE DEF J, T
  <2>3. /\ f \in [J -> T] /\ \A i, j \in J : f[i] = f[j] => i = j
        /\ \A t \in T : \E j \in J : f[j] = t
    BY Zenon, <2>2
  <2> HIDE DEF f
  <2>4. Cardinality(T) = Cardinality(J)
    BY Zenon, <2>1, <2>3, SameCount
  <2> QED BY Zenon, <2>4 DEF J, T
<1> DEFINE Q(r) == Cardinality(before(r)) < n
           P(k) == Cardinality(below(k)) < n
<1>2. \A j \in K : Q(<<j, x>>) <=> P(j)
  BY Zenon, <1>1
<1>3. First(K, n) = {j \in K : P(j)}
  BY Zenon DEF First
<1> HIDE DEF P, Q
<1>4. {row[1] : row \in {r \in rows : Q(r)}} = {j \in K : P(j)}
  <2> DEFINE sel == {r \in rows : Q(r)}
             J == {j \in K : P(j)}
  <2>1. sel = {<<k, x>> : k \in J}
    BY Zenon, <1>0, <1>2
  <2> HIDE DEF sel, J
  <2>2. {row[1] : row \in sel} = J
    <3>1. ASSUME NEW y \in J PROVE <<y, x>> \in sel /\ <<y, x>>[1] = y
      BY Zenon, <2>1
    <3>2. ASSUME NEW row \in sel PROVE row[1] \in J
      <4>1. PICK k \in J : row = <<k, x>>
        BY Zenon, <2>1
      <4> QED BY Zenon, <4>1
    <3> HIDE <2>1
    <3> QED BY Zenon, <3>1, <3>2
  <2> QED BY Zenon, <2>2 DEF sel, J
<1>5. FirstPairs(rows, n) = {r \in rows : Q(r)}
  BY Zenon DEF FirstPairs, Q
<1> QED BY Zenon, <1>3, <1>4, <1>5 DEF rows, FirstKeys

LEMMA NoBound == \A x : Greater(x, {}) /\ Less(x, {}) /\ Equal(x, {})
BY Zenon DEF Greater, Less, Equal

LEMMA LookupAccountAssetsPage ==
  ASSUME NEW r \in RequestRecords, NEW d, NEW next, r.op = "LookupAccountAssets", r.addr # {}
  PROVE  IsPage(d, r, next)
<1>1. PICK x \in Addrs : r.addr = {x}
  BY DEF RequestRecords, Optional
<1> DEFINE u == Unlimited(r)
           o == HoldingsQuery(r, next)
           p == HoldingsQuery(u, {})
           K(q) == {i \in Ids : /\ Shown(d.holding[x][i], q.includeDeleted)
                                /\ Equal(i, q.id) /\ Greater(i, q.idGT)}
<1>2. u.op = r.op /\ u.all = r.all /\ u.id = r.id /\ u.addr = r.addr
  BY UnlimitedFields
<1>3. PageLimit(u) = 0
  BY Zenon, UnlimitedLimit
<1> HIDE DEF u
<1>4. /\ Rows(d, r, next) = {row[2] : row \in AssetBalances(d, o)}
      /\ Rows(d, u, {}) = {row[2] : row \in AssetBalances(d, p)}
  BY Zenon, <1>2 DEF Rows
<1>5. /\ o.includeDeleted = p.includeDeleted /\ o.id = p.id
      /\ o.idGT = next /\ p.idGT = {} /\ o.limit = PageLimit(r) /\ p.limit = 0
      /\ o.address = {x} /\ p.address = {x} /\ o.prevAddress = {} /\ p.prevAddress = {}
      /\ o.amountGT = {} /\ o.amountLT = {} /\ p.amountGT = {} /\ p.amountLT = {}
  BY Zenon, <1>1, <1>2, <1>3 DEF HoldingsQuery
<1> HIDE DEF o, p
<1>6. ASSUME NEW q, q.address = {x}, q.prevAddress = {}, q.amountGT = {}, q.amountLT = {}
      PROVE  /\ K(q) \in SUBSET Nat /\ IsFiniteSet(K(q))
             /\ {row[2] : row \in AssetBalances(d, q)} = Limited(K(q), q.limit)
  <2> DEFINE rows == AssetBalanceRows(d, q)
  <2>1. K(q) \in SUBSET Nat /\ IsFiniteSet(K(q)) /\ x \in Nat
    <3>1. K(q) \subseteq Ids
      BY Zenon
    <3> HIDE DEF K
    <3> QED BY Zenon, <3>1, SubsetKeys, KeysAssumption
  <2>2. rows = {<<x, k>> : k \in K(q)}
    <3>1. ASSUME NEW row \in rows PROVE row[2] \in K(q) /\ row = <<x, row[2]>>
      <4>1. row \in Addrs \X Ids /\ row[1] = x
        BY Zenon, <1>6 DEF AssetBalanceRows, Equal
      <4>2. row = <<x, row[2]>> /\ row[2] \in Ids
        BY SMTT(60), <4>1
      <4> QED BY Zenon, <4>1, <4>2 DEF AssetBalanceRows
    <3>2. ASSUME NEW k \in K(q) PROVE <<x, k>> \in rows
      <4>1. <<x, k>> \in Addrs \X Ids /\ <<x, k>>[1] = x /\ <<x, k>>[2] = k
        BY Zenon
      <4>2. Equal(x, {x})
        BY Zenon DEF Equal
      <4> QED BY Zenon, <1>6, <4>1, <4>2, NoBound DEF AssetBalanceRows
    <3> HIDE DEF K, rows
    <3> QED BY Zenon, <3>1, <3>2
  <2> HIDE DEF rows, K
  <2>3. CASE q.limit = 0
    <3>1. AssetBalances(d, q) = rows
      BY Zenon, <2>3 DEF AssetBalances, rows
    <3>2. Limited(K(q), q.limit) = K(q)
      BY Zenon, <2>3 DEF Limited
    <3>3. ASSUME NEW k \in K(q) PROVE <<x, k>> \in rows /\ <<x, k>>[2] = k
      BY Zenon, <2>2
    <3>4. ASSUME NEW row \in rows PROVE row[2] \in K(q)
      BY <2>2
    <3>5. {row[2] : row \in rows} = K(q)
      <4> HIDE <2>2
      <4> QED BY Zenon, <3>3, <3>4
    <3> QED BY Zenon, <2>1, <3>1, <3>2, <3>5
  <2>4. CASE q.limit # 0
    <3>1. {row[2] : row \in AssetBalances(d, q)} = First(K(q), q.limit)
      <4>1. AssetBalances(d, q) = FirstPairs(rows, q.limit)
        BY Zenon, <2>4 DEF AssetBalances, rows, FirstPairs
      <4>2. rows = PairsOf(x, K(q))
        BY Zenon, <2>2 DEF PairsOf
      <4>3. SecondKeys(FirstPairs(PairsOf(x, K(q)), q.limit)) = First(K(q), q.limit)
        <5> HIDE <2>2
        <5> QED BY Zenon, <2>1, PairsOfAddress
      <4> QED BY Zenon, <4>1, <4>2, <4>3 DEF SecondKeys
    <3> QED BY Zenon, <2>1, <2>4, <3>1 DEF Limited
  <2> QED BY Zenon, <2>3, <2>4
<1>7. K(o) = {i \in K(p) : Greater(i, next)}
  BY Zenon, <1>5, NoBound
<1> HIDE DEF K
<1>8. /\ Rows(d, r, next) = Limited({i \in K(p) : Greater(i, next)}, PageLimit(r))
      /\ Rows(d, u, {}) = Limited(K(p), 0) /\ K(p) \in SUBSET Nat /\ IsFiniteSet(K(p))
  BY Zenon, <1>4, <1>5, <1>6, <1>7
<1> QED BY Zenon, <1>8, PlainPage DEF u

LEMMA LookupAssetBalancesPage ==
  ASSUME NEW r \in RequestRecords, NEW d, NEW next, r.op = "LookupAssetBalances",
         r.id # {}, r.id \subseteq Ids
  PROVE  IsPage(d, r, next)
<1>1. PICK x \in Ids : r.id = {x}
  BY DEF RequestRecords, Optional
<1> DEFINE u == Unlimited(r)
           o == BalancesQuery(r, next)
           p == BalancesQuery(u, {})
           K(q) == {a \in Addrs : /\ Shown(d.holding[a][x], q.includeDeleted)
                                  /\ Greater(a, q.prevAddress)
                                  /\ Greater(d.holding[a][x].amount, q.amountGT)
                                  /\ Less(d.holding[a][x].amount, q.amountLT)}
<1>2. u.op = r.op /\ u.all = r.all /\ u.id = r.id /\ u.gt = r.gt /\ u.lt = r.lt
  BY UnlimitedFields
<1>3. PageLimit(u) = 0
  BY Zenon, UnlimitedLimit
<1> HIDE DEF u
<1>4. /\ Rows(d, r, next) = FirstKeys(AssetBalances(d, o))
      /\ Rows(d, u, {}) = FirstKeys(AssetBalances(d, p))
  BY Zenon, <1>2 DEF Rows, FirstKeys
<1>5. /\ o.includeDeleted = p.includeDeleted /\ o.amountGT = p.amountGT /\ o.amountLT = p.amountLT
      /\ o.prevAddress = next /\ p.prevAddress = {} /\ o.limit = PageLimit(r) /\ p.limit = 0
      /\ o.id = {x} /\ p.id = {x} /\ o.idGT = {} /\ p.idGT = {}
      /\ o.address = {} /\ p.address = {}
  BY Zenon, <1>1, <1>2, <1>3 DEF BalancesQuery
<1> HIDE DEF o, p
<1>6. ASSUME NEW q, q.id = {x}, q.idGT = {}, q.address = {}
      PROVE  /\ K(q) \in SUBSET Nat /\ IsFiniteSet(K(q))
             /\ FirstKeys(AssetBalances(d, q)) = Limited(K(q), q.limit)
  <2> DEFINE rows == AssetBalanceRows(d, q)
  <2>1. K(q) \in SUBSET Nat /\ IsFiniteSet(K(q)) /\ x \in Nat
    <3>1. K(q) \subseteq Addrs
      BY Zenon
    <3> HIDE DEF K
    <3> QED BY Zenon, <3>1, SubsetKeys, KeysAssumption
  <2>2. rows = PairsTo(x, K(q))
    <3>1. ASSUME NEW row \in rows PROVE row[1] \in K(q) /\ row = <<row[1], x>>
      <4>1. row \in Addrs \X Ids /\ row[2] = x
        BY Zenon, <1>6 DEF AssetBalanceRows, Equal
      <4>2. row = <<row[1], x>> /\ row[1] \in Addrs
        BY SMTT(60), <4>1
      <4> QED BY Zenon, <4>1, <4>2 DEF AssetBalanceRows
    <3>2. ASSUME NEW k \in K(q) PROVE <<k, x>> \in rows
      <4>1. <<k, x>> \in Addrs \X Ids /\ <<k, x>>[1] = k /\ <<k, x>>[2] = x
        BY Zenon
      <4>2. Equal(x, {x})
        BY Zenon DEF Equal
      <4> QED BY Zenon, <1>6, <4>1, <4>2, NoBound DEF AssetBalanceRows
    <3> HIDE DEF K, rows
    <3> QED BY Zenon, <3>1, <3>2 DEF PairsTo
  <2> HIDE DEF rows, K
  <2>3. CASE q.limit = 0
    <3>1. AssetBalances(d, q) = rows
      BY Zenon, <2>3 DEF AssetBalances, rows
    <3>2. Limited(K(q), q.limit) = K(q)
      BY Zenon, <2>3 DEF Limited
    <3>3. ASSUME NEW k \in K(q) PROVE <<k, x>> \in rows /\ <<k, x>>[1] = k
      BY Zenon, <2>2 DEF PairsTo
    <3>4. ASSUME NEW row \in rows PROVE row[1] \in K(q)
      BY <2>2 DEF PairsTo
    <3>5. FirstKeys(rows) = K(q)
      <4> HIDE <2>2
      <4> QED BY Zenon, <3>3, <3>4 DEF FirstKeys
    <3> QED BY Zenon, <2>1, <3>1, <3>2, <3>5
  <2>4. CASE q.limit # 0
    <3>1. AssetBalances(d, q) = FirstPairs(rows, q.limit)
      BY Zenon, <2>4 DEF AssetBalances, rows, FirstPairs
    <3>2. FirstKeys(FirstPairs(PairsTo(x, K(q)), q.limit)) = First(K(q), q.limit)
      BY Zenon, <2>1, PairsOfAsset
    <3> QED BY Zenon, <2>1, <2>2, <2>4, <3>1, <3>2 DEF Limited
  <2> QED BY Zenon, <2>3, <2>4
<1>7. K(o) = {i \in K(p) : Greater(i, next)}
  BY Zenon, <1>5, NoBound
<1> HIDE DEF K
<1>8. /\ Rows(d, r, next) = Limited({i \in K(p) : Greater(i, next)}, PageLimit(r))
      /\ Rows(d, u, {}) = Limited(K(p), 0) /\ K(p) \in SUBSET Nat /\ IsFiniteSet(K(p))
  BY Zenon, <1>4, <1>5, <1>6, <1>7
<1> QED BY Zenon, <1>8, PlainPage DEF u

(* The null row of an application without further boxes is not a box. *)
LEMMA SearchForApplicationBoxesPage ==
  ASSUME NEW r \in RequestRecords, NEW d, NEW next, r.op = "SearchForApplicationBoxes"
  PROVE  IsPage(d, r, next)
<1> DEFINE u == Unlimited(r)
           app == The(r.id)
           A == IF d.app[app] = None THEN {} ELSE {n \in Names : <<app, n>> \in d.box}
           B == {n \in A : Greater(n, next)}
<1>1. u.op = r.op /\ u.id = r.id
  BY Zenon, UnlimitedFields
<1>2. PageLimit(u) = 0
  BY Zenon, UnlimitedLimit
<1> HIDE DEF u
<1>3. /\ Rows(d, r, next) = ApplicationBoxes(d, BoxesQuery(r, next))
      /\ Rows(d, u, {}) = ApplicationBoxes(d, BoxesQuery(u, {}))
  BY Zenon, <1>1 DEF Rows
<1>4. A \in SUBSET Nat /\ IsFiniteSet(A)
  <2>1. A \subseteq Names
    BY Zenon
  <2> HIDE DEF A
  <2> QED BY Zenon, <2>1, SubsetKeys
<1>5. ASSUME NEW q, NEW t, q.app = app, q.boxName = {}, q.prevFinalBox = t
      PROVE  ApplicationBoxes(d, q) \ {NullName} = Limited({n \in A : Greater(n, t)}, q.limit)
  <2> DEFINE names == {n \in Names : /\ <<q.app, n>> \in d.box
                                     /\ IF q.boxName # {} THEN Equal(n, q.boxName)
                                                          ELSE Greater(n, q.prevFinalBox)}
             C == {n \in A : Greater(n, t)}
  <2>1. d.app[app] # None => names = C
    BY Zenon, <1>5
  <2>2. d.app[app] = None => C = {}
    BY Zenon
  <2>3. ApplicationBoxes(d, q) = IF d.app[app] = None THEN {}
                                 ELSE IF names = {} THEN {NullName} ELSE Limited(names, q.limit)
    BY Zenon, <1>5 DEF ApplicationBoxes
  <2>4. \A n : NullName \notin Limited(C, n)
    <3>1. C \subseteq Nat
      <4> HIDE DEF A
      <4> QED BY Zenon, <1>4
    <3> HIDE DEF C
    <3> QED BY <3>1, LimitedSubset DEF NullName
  <2>5. \A n : Limited({}, n) = {}
    BY Zenon, LimitedSubset
  <2> HIDE DEF names, C
  <2>6. CASE d.app[app] = None
    BY Zenon, <2>2, <2>3, <2>5, <2>6 DEF C
  <2>7. CASE d.app[app] # None /\ C = {}
    BY Zenon, <2>1, <2>3, <2>5, <2>7 DEF C
  <2>8. CASE d.app[app] # None /\ C # {}
    <3>1. ApplicationBoxes(d, q) = Limited(C, q.limit)
      BY Zenon, <2>1, <2>3, <2>8
    <3>2. ApplicationBoxes(d, q) \ {NullName} = Limited(C, q.limit)
      BY Zenon, <3>1, <2>4
    <3> QED BY Zenon, <3>2 DEF C
  <2> QED BY Zenon, <2>6, <2>7, <2>8
<1> HIDE DEF A
<1>6. /\ Rows(d, r, next) \ {NullName} = Limited(B, PageLimit(r))
      /\ Rows(d, u, {}) \ {NullName} = Limited({n \in A : Greater(n, {})}, 0)
  <2> DEFINE o == BoxesQuery(r, next)
             p == BoxesQuery(u, {})
  <2>1. /\ o.app = app /\ o.boxName = {} /\ o.prevFinalBox = next /\ o.limit = PageLimit(r)
        /\ p.app = app /\ p.boxName = {} /\ p.prevFinalBox = {} /\ p.limit = 0
    BY Zenon, <1>1, <1>2 DEF BoxesQuery
  <2> HIDE DEF o, p
  <2>2. /\ ApplicationBoxes(d, o) \ {NullName} = Limited({n \in A : Greater(n, next)}, PageLimit(r))
        /\ ApplicationBoxes(d, p) \ {NullName} = Limited({n \in A : Greater(n, {})}, 0)
    BY Zenon, <1>5, <2>1
  <2> QED BY Zenon, <1>3, <2>2 DEF o, p
<1>7. Matches(d, r) = A
  <2>1. {n \in A : Greater(n, {})} = A
    BY Zenon, NoBound
  <2>2. Matches(d, r) = Rows(d, u, {}) \ {NullName}
    BY Zenon DEF Matches, Unlimited, u
  <2>3. Limited(A, 0) = A
    BY Zenon DEF Limited
  <2> QED BY Zenon, <1>6, <2>1, <2>2, <2>3
<1> QED BY Zenon, <1>4, <1>6, <1>7 DEF IsPage

(* The subqueries of a time window select the headers of those times, as   *)
(* the times of the headers are in order.                                  *)
LEMMA WindowIsOfTimes ==
  ASSUME NEW d, WellFormed(d), NEW after \in SUBSET Nat, NEW before \in SUBSET Nat, NEW f,
         f.afterTime = after, f.beforeTime = before
  PROVE  TimeWindow(d, f) = {k \in 0 .. d.round : /\ \A t \in after : d.header[k].time > t
                                                 /\ \A t \in before : d.header[k].time < t}
<1> DEFINE R == 0 .. d.round
           After(t)  == {k \in R : d.header[k].time > t}
           Before(t) == {k \in R : d.header[k].time < t}
<1>1. /\ d.round \in Nat /\ R \subseteq Nat /\ IsFiniteSet(R)
      /\ \A k \in R : d.header[k].time \in Nat
      /\ \A j, k \in R : j <= k => d.header[j].time <= d.header[k].time
  <2>1. d.round \in Nat /\ d.header \in [R -> HeaderRecords]
    BY Zenon DEF WellFormed
  <2>2. \A k \in R : d.header[k].time \in Nat
    BY Zenon, <2>1 DEF HeaderRecords
  <2>3. IsFiniteSet(R)
    BY <2>1, FS_Interval
  <2> QED BY <2>1, <2>2, <2>3 DEF WellFormed
<1>2. TimeWindow(d, f) = {k \in R : /\ \A t \in after : After(t) # {} /\ k >= Min(After(t))
                                    /\ \A t \in before : Before(t) # {} /\ k <= Max(Before(t))}
  BY Zenon DEF TimeWindow
<1> HIDE DEF R
<1>3. ASSUME NEW k \in R, NEW t \in Nat
      PROVE  (After(t) # {} /\ k >= Min(After(t))) <=> d.header[k].time > t
  <2>1. After(t) \in SUBSET Nat /\ (k \in After(t) <=> d.header[k].time > t)
    BY Zenon, <1>1
  <2>2. \A j \in After(t) : j \in R /\ d.header[j].time > t
    BY Zenon
  <2> HIDE DEF After
  <2>3. CASE After(t) = {}
    BY Zenon, <2>1, <2>3
  <2>4. CASE After(t) # {}
    <3> DEFINE m == Min(After(t))
    <3>1. m \in After(t) /\ \A n \in After(t) : m <= n
      BY Zenon, <2>1, <2>4, MinIsLeast
    <3>2. m \in R /\ d.header[m].time > t
      BY Zenon, <3>1, <2>2
    <3> HIDE DEF m
    <3>3. m \in Nat /\ k \in Nat /\ d.header[m].time \in Nat /\ d.header[k].time \in Nat
      BY Zenon, <1>1, <3>2
    <3>4. k >= m => d.header[m].time <= d.header[k].time
      BY Zenon, <1>1, <3>2, <3>3
    <3>5. k >= m <=> d.header[k].time > t
      BY <2>1, <3>1, <3>2, <3>3, <3>4
    <3> QED BY Zenon, <2>4, <3>5 DEF m
  <2> QED BY Zenon, <2>3, <2>4
<1>4. ASSUME NEW k \in R, NEW t \in Nat
      PROVE  (Before(t) # {} /\ k <= Max(Before(t))) <=> d.header[k].time < t
  <2>1. Before(t) \in SUBSET Nat /\ (k \in Before(t) <=> d.header[k].time < t)
    BY Zenon, <1>1
  <2>2. \A j \in Before(t) : j \in R /\ d.header[j].time < t
    BY Zenon
  <2>3. IsFiniteSet(Before(t))
    BY Zenon, <1>1, FS_Subset
  <2> HIDE DEF Before
  <2>4. CASE Before(t) = {}
    BY Zenon, <2>1, <2>4
  <2>5. CASE Before(t) # {}
    <3> DEFINE m == Max(Before(t))
    <3>1. m \in Before(t) /\ \A n \in Before(t) : n <= m
      BY Zenon, <2>1, <2>3, <2>5, MaxIsGreatest
    <3>2. m \in R /\ d.header[m].time < t
      BY Zenon, <3>1, <2>2
    <3> HIDE DEF m
    <3>3. m \in Nat /\ k \in Nat /\ d.header[m].time \in Nat /\ d.header[k].time \in Nat
      BY Zenon, <1>1, <3>2
    <3>4. k <= m => d.header[k].time <= d.header[m].time
      BY Zenon, <1>1, <3>2, <3>3
    <3>5. k <= m <=> d.header[k].time < t
      BY <2>1, <3>1, <3>2, <3>3, <3>4
    <3> QED BY Zenon, <2>5, <3>5 DEF m
  <2> QED BY Zenon, <2>4, <2>5
<1>5. ASSUME NEW k \in R
      PROVE  /\ (\A t \in after : After(t) # {} /\ k >= Min(After(t)))
                  <=> \A t \in after : d.header[k].time > t
             /\ (\A t \in before : Before(t) # {} /\ k <= Max(Before(t)))
                  <=> \A t \in before : d.header[k].time < t
  <2> HIDE DEF After, Before
  <2> QED BY Zenon, <1>3, <1>4
<1> HIDE DEF After, Before
<1>6. TimeWindow(d, f) = {k \in R : /\ \A t \in after : d.header[k].time > t
                                   /\ \A t \in before : d.header[k].time < t}
  BY Zenon, <1>2, <1>5
<1> QED BY Zenon, <1>6 DEF R

LEMMA OptionalFinite ==
  ASSUME NEW S, NEW s \in Optional(S)
  PROVE  s \subseteq S /\ IsFiniteSet(s)
<1>1. s \subseteq S /\ \A x, y \in s : x = y
  BY Zenon DEF Optional
<1>2. CASE s = {}
  BY Zenon, <1>1, <1>2, FS_EmptySet
<1>3. CASE s # {}
  <2>1. PICK v \in s : TRUE
    BY Zenon, <1>3
  <2>2. s = {v}
    BY Zenon, <1>1, <2>1
  <2> QED BY Zenon, <1>1, <2>2, FS_Singleton
<1> QED BY Zenon, <1>2, <1>3

(* The token moves the least round up to the one after it. *)
LowRounds(min, next) == min \cup {n + 1 : n \in next}

LEMMA LowRound ==
  ASSUME NEW min \in Optional(Nat), NEW next \in Optional(Nat), NEW k \in Nat
  PROVE  (\A m \in (IF LowRounds(min, next) = {} THEN {} ELSE {Max(LowRounds(min, next))}) : k >= m)
           <=> (\A m \in min : k >= m) /\ Greater(k, next)
<1> DEFINE up == {n + 1 : n \in next}
           low == min \cup up
<1>0. LowRounds(min, next) = low
  BY Zenon DEF LowRounds
<1>1. min \subseteq Nat /\ next \subseteq Nat /\ IsFiniteSet(min) /\ IsFiniteSet(next)
  BY Zenon, OptionalFinite
<1>2. /\ up \subseteq Nat
      /\ (\A n \in up : k >= n) <=> \A n \in next : k > n
  <2>1. \A n \in next : n \in Nat /\ (k >= n + 1 <=> k > n)
    BY <1>1
  <2>2. (\A n \in up : k >= n) <=> \A n \in next : k >= n + 1
    BY Zenon
  <2>3. up \subseteq Nat
    BY <2>1
  <2> HIDE DEF up
  <2> QED BY Zenon, <2>1, <2>2, <2>3
<1>3. IsFiniteSet(up)
  <2> DEFINE g == [n \in next |-> n + 1]
  <2>1. g \in [next -> up] /\ \A y \in up : \E n \in next : g[n] = y
    BY Zenon
  <2>2. g \in Surjection(next, up)
    BY Zenon, <2>1 DEF Surjection
  <2> HIDE DEF g, up
  <2> QED BY Zenon, <1>1, <2>2, FS_Surjection
<1> HIDE DEF up
<1>4. low \in SUBSET Nat /\ IsFiniteSet(low)
  BY Zenon, <1>1, <1>2, <1>3, FS_Union
<1>5. (\A n \in low : k >= n) <=> (\A m \in min : k >= m) /\ Greater(k, next)
  BY Zenon, <1>2 DEF Greater
<1> HIDE DEF low
<1>6. CASE low = {}
  BY Zenon, <1>0, <1>5, <1>6
<1>7. CASE low # {}
  <2>1. Max(low) \in low /\ \A n \in low : n <= Max(low)
    BY Zenon, <1>4, <1>7, MaxIsGreatest
  <2>2. k >= Max(low) <=> \A n \in low : k >= n
    <3>1. Max(low) \in Nat
      BY Zenon, <1>4, <2>1
    <3>2. \A n \in low : n \in Nat
      BY Zenon, <1>4
    <3> QED BY <2>1, <3>1, <3>2
  <2> QED BY Zenon, <1>0, <1>5, <1>7, <2>2
<1> QED BY Zenon, <1>6, <1>7

LEMMA SearchForBlockHeadersPage ==
  ASSUME NEW r \in RequestRecords, NEW d, WellFormed(d), NEW next \in Optional(Nat),
         r.op = "SearchForBlockHeaders"
  PROVE  /\ Matches(d, r) \in SUBSET Nat /\ IsFiniteSet(Matches(d, r))
         /\ Rows(d, r, next) = First({k \in Matches(d, r) : Greater(k, next)}, PageLimit(r))
<1> DEFINE f == blockParamsToBlockFilter(r, next)
           low == LowRounds(r.min, next)
           h == d.header
           R == 0 .. d.round
           Filters(n) == /\ \A m \in r.max : n <= m
                         /\ r.proposers # {} => h[n].proposer \in r.proposers
                         /\ r.expired # {} => h[n].expired \cap r.expired # {}
                         /\ r.absent # {} => h[n].absent \cap r.absent # {}
           Timely(n) == /\ \A t \in r.after : h[n].time > t
                        /\ \A t \in r.before : h[n].time < t
<1>1. /\ f.limit = PageLimit(r) /\ f.maxRound = r.max
      /\ f.minRound = (IF low = {} THEN {} ELSE {Max(low)})
      /\ f.afterTime = r.after /\ f.beforeTime = r.before /\ f.proposers = r.proposers
      /\ f.expired = r.expired /\ f.absent = r.absent
  BY Zenon DEF blockParamsToBlockFilter, LowRounds
<1> HIDE DEF f
<1>2. R \in SUBSET Nat /\ IsFiniteSet(R)
  <2>1. d.round \in Nat
    BY Zenon DEF WellFormed
  <2> QED BY SMTT(60), <2>1, FS_Interval
<1>3. r.min \in Optional(Nat) /\ r.after \in SUBSET Nat /\ r.before \in SUBSET Nat
  BY Zenon DEF RequestRecords, Optional
<1>4. TimeWindow(d, f) = {k \in R : Timely(k)}
  BY <1>1, <1>3, WindowIsOfTimes, SMTT(60)
<1>5. Matches(d, r) = {n \in R : (\A m \in r.min : n >= m) /\ Timely(n) /\ Filters(n)}
  BY Zenon DEF Matches
<1>6. Rows(d, r, next) = BlockHeaders(d, f)
  BY Zenon DEF Rows, f
<1> DEFINE High(k) == \A m \in f.minRound : k >= m
<1>7. BlockHeaders(d, f) = First({k \in TimeWindow(d, f) : High(k) /\ Filters(k)}, PageLimit(r))
  BY Zenon, <1>1 DEF BlockHeaders
<1>8. \A k \in R : High(k) <=> (\A m \in r.min : k >= m) /\ Greater(k, next)
  <2>2. ASSUME NEW k \in Nat
        PROVE  (\A m \in (IF low = {} THEN {} ELSE {Max(low)}) : k >= m)
                 <=> (\A m \in r.min : k >= m) /\ Greater(k, next)
    BY Zenon, <1>3, LowRound
  <2> HIDE DEF R
  <2> QED BY Zenon, <1>1, <1>2, <2>2
<1> HIDE DEF High, Filters, Timely, R
<1>9. {k \in TimeWindow(d, f) : High(k) /\ Filters(k)} = {k \in Matches(d, r) : Greater(k, next)}
  BY Zenon, <1>4, <1>5, <1>8
<1>10. Matches(d, r) \in SUBSET R
  BY Zenon, <1>5
<1> QED BY Zenon, <1>2, <1>6, <1>7, <1>9, <1>10, FS_Subset

-----------------------------------------------------------------------------
(* A page of any list. *)
Headless(r) == r.op = "SearchForBlockHeaders" /\ r.limit = {0}
Whole(r) == r.op # "SearchForBlockHeaders" /\ r.limit = {0}
Beyond(d, r, next) == {k \in Matches(d, r) : Greater(k, next)}
Page(d, r, next) == Rows(d, r, next) \ {NullName}

LEMMA ListPage ==
  ASSUME NEW r \in Requests, r.op \in Lists, NEW d, WellFormed(d), NEW next \in Optional(Nat)
  PROVE  /\ Matches(d, r) \in SUBSET Nat /\ IsFiniteSet(Matches(d, r))
         /\ Page(d, r, next) \subseteq Beyond(d, r, next) /\ IsFiniteSet(Page(d, r, next))
         /\ \A k \in Beyond(d, r, next) \ Page(d, r, next), p \in Page(d, r, next) : p < k
         /\ Beyond(d, r, next) # {} /\ ~Headless(r) => Page(d, r, next) # {}
         /\ ~Whole(r) => Cardinality(Page(d, r, next)) <= MaxLimit
         /\ Whole(r) => Page(d, r, next) = Beyond(d, r, next)
<1> DEFINE M == Matches(d, r)
           N == Beyond(d, r, next)
           P == Page(d, r, next)
           n == PageLimit(r)
<1>1. /\ r \in RequestRecords
      /\ r.op \in {"LookupAccountAssets", "LookupAccountAppLocalStates"} => r.addr # {}
      /\ r.op = "LookupAssetBalances" => r.id # {} /\ r.id \subseteq Ids
  BY Zenon, RequestsAssumption
<1>2. n \in Nat /\ n <= MaxLimit /\ (r.limit = {0} <=> n = 0) /\ MaxLimit \in Nat
  BY Zenon, <1>1, PageLimits, LimitsAssumption
<1>3. CASE r.op = "SearchForBlockHeaders"
  <2>1. M \in SUBSET Nat /\ IsFiniteSet(M) /\ Rows(d, r, next) = First(N, n)
    BY Zenon, <1>1, <1>3, SearchForBlockHeadersPage DEF Beyond
  <2>2. N \in SUBSET M /\ N \in SUBSET Nat /\ IsFiniteSet(N)
    <3>1. N \in SUBSET M
      BY Zenon DEF Beyond
    <3> QED BY Zenon, <2>1, <3>1, FS_Subset
  <2>3. First(N, n) \subseteq N
    BY Zenon DEF First
  <2>4. P = First(N, n)
    BY <2>1, <2>2, <2>3 DEF Page, NullName
  <2>5. IsFiniteSet(P)
    BY <2>2, <2>3, <2>4, FS_Subset
  <2>6. Cardinality(P) \in Nat
    BY Zenon, <2>5, FS_CardinalityType
  <2>7. /\ \A k \in N \ First(N, n), p \in First(N, n) : p < k
        /\ n > 0 /\ N # {} => First(N, n) # {}
        /\ Cardinality(First(N, n)) <= n
    <3> HIDE DEF N, n
    <3> QED BY Zenon, <1>2, <2>2, FirstIsPage
  <2>8. Headless(r) <=> n = 0
    BY Zenon, <1>2, <1>3 DEF Headless
  <2>9. ~Whole(r)
    BY Zenon, <1>3 DEF Whole
  <2> HIDE DEF M, N, P, n
  <2>10. Cardinality(P) <= MaxLimit
    BY SMTT(60), <1>2, <2>4, <2>6, <2>7
  <2>11. /\ P \subseteq N
         /\ \A k \in N \ P, p \in P : p < k
         /\ N # {} /\ ~Headless(r) => P # {}
    BY SMTT(60), <1>2, <2>3, <2>4, <2>7, <2>8
  <2> QED BY Zenon, <2>1, <2>5, <2>9, <2>10, <2>11 DEF M, N, P
<1>4. CASE r.op # "SearchForBlockHeaders"
  <2>1. IsPage(d, r, next)
    BY Zenon, <1>1, <1>4, SearchForAccountsPage, SearchForAssetsPage, SearchForApplicationsPage,
       LookupAccountAssetsPage, LookupAccountAppLocalStatesPage, LookupAssetBalancesPage,
       SearchForApplicationBoxesPage DEF Lists
  <2>2. M \in SUBSET Nat /\ IsFiniteSet(M) /\ P = Limited(N, n)
    BY Zenon, <2>1 DEF IsPage, Beyond, Page
  <2>3. N \in SUBSET M /\ N \in SUBSET Nat /\ IsFiniteSet(N)
    <3>1. N \in SUBSET M
      BY Zenon DEF Beyond
    <3> QED BY Zenon, <2>2, <3>1, FS_Subset
  <2>4. ~Headless(r) /\ (Whole(r) <=> n = 0)
    BY Zenon, <1>2, <1>4 DEF Headless, Whole
  <2>5. P \subseteq N
    BY Zenon, <2>2, LimitedSubset
  <2>6. IsFiniteSet(P)
    BY Zenon, <2>3, <2>5, FS_Subset
  <2>7. Cardinality(P) \in Nat
    BY Zenon, <2>6, FS_CardinalityType
  <2> HIDE DEF M, N, P, n
  <2>8. CASE n = 0
    <3>1. P = N
      BY Zenon, <2>2, <2>8 DEF Limited
    <3> QED BY Zenon, <2>2, <2>4, <2>6, <2>8, <3>1 DEF M, N, P
  <2>9. CASE n # 0
    <3>1. P = First(N, n)
      BY Zenon, <2>2, <2>9 DEF Limited
    <3>2. /\ \A k \in N \ First(N, n), p \in First(N, n) : p < k
          /\ n > 0 /\ N # {} => First(N, n) # {}
          /\ Cardinality(First(N, n)) <= n
      BY Zenon, <1>2, <2>3, FirstIsPage
    <3>3. Cardinality(P) <= MaxLimit
      BY <1>2, <2>7, <3>1, <3>2
    <3>4. /\ \A k \in N \ P, p \in P : p < k
          /\ N # {} => P # {}
      BY <1>2, <2>9, <3>1, <3>2
    <3> QED BY Zenon, <2>2, <2>4, <2>5, <2>6, <2>9, <3>3, <3>4 DEF M, N, P
  <2> QED BY Zenon, <2>8, <2>9
<1> QED BY Zenon, <1>3, <1>4

(* The keys a handler makes of a page. *)
LEMMA KeysOfPage ==
  ASSUME NEW r \in Requests, r.op \in Lists, NEW d, NEW next
  PROVE  Keys(r, Rows(d, r, next)) = Page(d, r, next) \ LeftOut(r)
<1>1. CASE r.op = "SearchForAccounts"
  <2>1. Rows(d, r, next) \subseteq Addrs
    <3>1. AccountKeys(d, AccountOptions(r, next)) \subseteq Addrs
      BY Zenon DEF AccountKeys
    <3>2. Rows(d, r, next) = buildAccountQuery(d, AccountOptions(r, next))
      BY Zenon, <1>1 DEF Rows
    <3> QED BY Zenon, <3>1, <3>2, LimitedSubset DEF buildAccountQuery
  <2>2. NullName \notin Rows(d, r, next)
    BY <2>1, KeysAssumption DEF NullName
  <2> QED BY Zenon, <1>1, <2>2 DEF Keys, Page, LeftOut
<1>2. CASE r.op # "SearchForAccounts"
  BY Zenon, <1>2 DEF Keys, Page, LeftOut
<1> QED BY Zenon, <1>1, <1>2

-----------------------------------------------------------------------------
(* What a look-up should find. *)
Found(d, r) ==
    CASE r.op = "LookupAccountByID" -> Shown(d.account[The(r.addr)], r.all)
      [] r.op = "LookupAssetByID" -> Shown(d.asset[The(r.id)], r.all)
      [] r.op = "LookupApplicationByID" -> Shown(d.app[The(r.id)], r.all)
      [] r.op = "LookupApplicationBoxByIDAndName" ->
           /\ d.app[The(r.id)] # None
           /\ r.name = {0} \/ <<The(r.id), The(r.name)>> \in d.box
      [] r.op = "LookupBlock" ->
           /\ The(r.id) <= d.round
           /\ r.headerOnly \/ d.header[The(r.id)].txns <= MaxTransactions

OneOf(shown, x) == IF shown THEN {x} ELSE {}

LEMMA LimitedOne == \A x \in Nat : Limited({x}, 1) = {x} /\ Limited({}, 1) = {}
<1> SUFFICES ASSUME NEW x \in Nat PROVE Limited({x}, 1) = {x} /\ Limited({}, 1) = {}
  BY Zenon
<1>1. Limited({}, 1) = {}
  BY Zenon, LimitedSubset
<1>2. {j \in {x} : j < x} = {}
  OBVIOUS
<1>3. Cardinality({j \in {x} : j < x}) = 0
  BY Zenon, <1>2, FS_EmptySet
<1>4. First({x}, 1) = {x}
  BY <1>3 DEF First
<1> QED BY Zenon, <1>1, <1>4 DEF Limited

LEMMA TheOne == \A x : The({x}) = x
BY Zenon DEF The

(* The status of a look-up of a row by its key. *)
LEMMA OneRow ==
  ASSUME NEW x \in Nat, NEW shown \in BOOLEAN, NEW rows, rows = Limited(OneOf(shown, x), 1),
         NEW d, NEW r, r.op \in {"LookupAccountByID", "LookupAssetByID", "LookupApplicationByID"}
  PROVE  /\ LookupStatus(d, r, rows) \in {200, 404, 500} /\ rows \ {NullName} \in SUBSET Nat
         /\ LookupStatus(d, r, rows) # 500 => (LookupStatus(d, r, rows) = 200 <=> shown)
<1>1. rows = IF shown THEN {x} ELSE {}
  BY Zenon, LimitedOne DEF OneOf
<1>2. Cardinality({x}) = 1 /\ {x} # {}
  BY Zenon, FS_Singleton
<1>3. /\ LookupStatus(d, r, rows) \in {200, 404, 500}
      /\ LookupStatus(d, r, rows) # 500 => (LookupStatus(d, r, rows) = 200 <=> shown)
  <2>1. CASE r.op = "LookupAccountByID" /\ r.rewind /\ rows \cap Special # {}
    BY Zenon, <2>1 DEF LookupStatus
  <2>2. CASE ~(r.op = "LookupAccountByID" /\ r.rewind /\ rows \cap Special # {})
    <3>1. LookupStatus(d, r, rows) = CASE rows = {} -> 404
                                      [] Cardinality(rows) = 1 -> 200
                                      [] OTHER -> 500
      BY <2>2 DEF LookupStatus
    <3>2. rows = {x} => LookupStatus(d, r, rows) = 200
      <4> HIDE <1>1
      <4> QED BY <1>2, <3>1
    <3>3. rows = {} => LookupStatus(d, r, rows) = 404
      <4>1. rows = {} => Cardinality(rows) = 0
        BY Zenon, FS_EmptySet
      <4> HIDE <1>1
      <4> QED BY <3>1, <4>1
    <3>4. (shown /\ rows = {x}) \/ (~shown /\ rows = {})
      BY Zenon, <1>1
    <3> HIDE <1>1
    <3> QED BY <3>2, <3>3, <3>4
  <2> QED BY Zenon, <2>1, <2>2
<1>4. rows \ {NullName} \in SUBSET Nat
  <2>1. rows \subseteq {x}
    BY Zenon, LimitedSubset DEF OneOf
  <2> QED BY Zenon, <2>1
<1> QED BY Zenon, <1>3, <1>4

LEMMA LookupAccountFinds ==
  ASSUME NEW r \in Requests, NEW d, NEW next, r.op = "LookupAccountByID"
  PROVE  \E x \in Addrs, shown \in BOOLEAN :
           /\ Rows(d, r, next) = Limited(OneOf(shown, x), 1)
           /\ shown <=> Found(d, r)
<1>1. r \in RequestRecords /\ r.addr # {}
  BY Zenon, RequestsAssumption
<1>2. PICK x \in Addrs : r.addr = {x}
  BY SMTT(60), <1>1 DEF RequestRecords, Optional
<1> DEFINE o == AccountByIDOptions(r)
           shown == Shown(d.account[x], r.all)
<1>3. /\ o.hasAssetID = {} /\ o.hasAppID = {} /\ o.equalToAuthAddr = {} /\ o.includeDeleted = r.all
      /\ o.onlineOnly = FALSE /\ o.algosGT = {} /\ o.algosLT = {} /\ o.greaterThanAddress = {}
      /\ o.equalToAddress = {x} /\ o.limit = 1
  BY Zenon, <1>2 DEF AccountByIDOptions
<1> HIDE DEF o
<1>4. \A a \in Addrs : a \in AccountKeys(d, o) <=> Shown(d.account[a], r.all) /\ a = x
  BY Zenon, <1>3, NoBound DEF AccountKeys, Equal
<1>5. AccountKeys(d, o) \subseteq Addrs
  BY Zenon DEF AccountKeys
<1>6. shown \in BOOLEAN
  BY Zenon DEF Shown
<1>7. shown <=> Found(d, r)
  BY Zenon, <1>2, TheOne DEF Found
<1> HIDE DEF shown
<1>8. AccountKeys(d, o) = OneOf(shown, x)
  BY Zenon, <1>4, <1>5 DEF shown, OneOf
<1>9. Rows(d, r, next) = Limited(AccountKeys(d, o), 1)
  BY Zenon, <1>3 DEF Rows, buildAccountQuery, o
<1> QED BY Zenon, <1>6, <1>7, <1>8, <1>9

LEMMA LookupAssetFinds ==
  ASSUME NEW r \in Requests, NEW d, NEW next, r.op = "LookupAssetByID"
  PROVE  \E x \in Ids, shown \in BOOLEAN :
           /\ Rows(d, r, next) = Limited(OneOf(shown, x), 1)
           /\ shown <=> Found(d, r)
<1>1. r \in RequestRecords /\ r.id # {} /\ r.id \subseteq Ids
  BY Zenon, RequestsAssumption
<1>2. PICK x \in Ids : r.id = {x}
  BY <1>1 DEF RequestRecords, Optional
<1> DEFINE s == [Blank EXCEPT !.id = r.id, !.limit = {1}, !.all = r.all]
           q == assetParamsToAssetQuery(s, {})
           shown == Shown(d.asset[x], r.all)
           A == {i \in Ids :
                   /\ Shown(d.asset[i], q.includeDeleted)
                   /\ Equal(i, q.id) /\ Greater(i, q.greaterThan)
                   /\ Equal(d.asset[i].creator, q.creator)
                   /\ Equal(d.asset[i].name, q.name) /\ Equal(d.asset[i].unit, q.unit)
                   /\ Equal(d.asset[i].name, q.query) \/ Equal(d.asset[i].unit, q.query)}
<1>3. s.id = {x} /\ s.limit = {1} /\ s.all = r.all /\ s.addr = {} /\ s.name = {} /\ s.unit = {}
  BY Zenon, <1>2 DEF Blank
<1> HIDE DEF s
<1>4. PageLimit(s) = 1
  <2>1. uintOrDefaultValue(s.limit, DefaultLimit) = 1
    BY Zenon, <1>3, TheOne DEF uintOrDefaultValue
  <2> QED BY <2>1, LimitsAssumption DEF PageLimit
<1>5. /\ q.id = {x} /\ q.greaterThan = {} /\ q.creator = {} /\ q.name = {} /\ q.unit = {}
      /\ q.query = {} /\ q.includeDeleted = r.all /\ q.limit = 1
  BY Zenon, <1>3, <1>4 DEF assetParamsToAssetQuery
<1> HIDE DEF q
<1>6. \A i \in Ids : i \in A <=> Shown(d.asset[i], r.all) /\ i = x
  BY Zenon, <1>5, NoBound DEF Equal
<1>7. A \subseteq Ids /\ Assets(d, q) = Limited(A, 1)
  BY Zenon, <1>5 DEF Assets
<1>8. shown \in BOOLEAN /\ (shown <=> Found(d, r))
  BY Zenon, <1>2, TheOne DEF Found, Shown
<1>9. Rows(d, r, next) = Assets(d, q)
  BY Zenon DEF Rows, q, s
<1> HIDE DEF A
<1>10. A = OneOf(shown, x)
  BY Zenon, <1>6, <1>7 DEF OneOf
<1> HIDE DEF shown
<1> QED BY Zenon, <1>7, <1>8, <1>9, <1>10

LEMMA LookupApplicationFinds ==
  ASSUME NEW r \in Requests, NEW d, NEW next, r.op = "LookupApplicationByID"
  PROVE  \E x \in Ids, shown \in BOOLEAN :
           /\ Rows(d, r, next) = Limited(OneOf(shown, x), 1)
           /\ shown <=> Found(d, r)
<1>1. r \in RequestRecords /\ r.id # {} /\ r.id \subseteq Ids
  BY Zenon, RequestsAssumption
<1>2. PICK x \in Ids : r.id = {x}
  BY <1>1 DEF RequestRecords, Optional
<1> DEFINE q == ApplicationByIDQuery(r)
           shown == Shown(d.app[x], r.all)
           A == {i \in Ids :
                   /\ Shown(d.app[i], q.includeDeleted)
                   /\ Equal(i, q.id) /\ Greater(i, q.greaterThan)
                   /\ Equal(d.app[i].creator, q.creator)}
<1>3. /\ q.id = {x} /\ q.greaterThan = {} /\ q.creator = {} /\ q.includeDeleted = r.all /\ q.limit = 1
  BY Zenon, <1>2 DEF ApplicationByIDQuery
<1> HIDE DEF q
<1>4. \A i \in Ids : i \in A <=> Shown(d.app[i], r.all) /\ i = x
  BY Zenon, <1>3, NoBound DEF Equal
<1>5. A \subseteq Ids /\ Applications(d, q) = Limited(A, 1)
  BY Zenon, <1>3 DEF Applications
<1>6. shown \in BOOLEAN /\ (shown <=> Found(d, r))
  BY Zenon, <1>2, TheOne DEF Found, Shown
<1>7. Rows(d, r, next) = Applications(d, q)
  BY Zenon DEF Rows, q
<1> HIDE DEF A
<1>8. A = OneOf(shown, x)
  BY Zenon, <1>4, <1>5 DEF OneOf
<1> HIDE DEF shown
<1> QED BY Zenon, <1>5, <1>6, <1>7, <1>8

(* The one row of a look-up of a box is a box of that name, or null. *)
LEMMA LookupBoxFinds ==
  ASSUME NEW r \in Requests, NEW d, NEW next, WellFormed(d), NEW rows, rows = Rows(d, r, next),
         r.op = "LookupApplicationBoxByIDAndName"
  PROVE  /\ LookupStatus(d, r, rows) \in {200, 404} /\ rows \ {NullName} \in SUBSET Nat
         /\ LookupStatus(d, r, rows) = 200 <=> Found(d, r)
<1>1. r \in RequestRecords /\ r.id # {} /\ r.id \subseteq Ids /\ r.name # {} /\ r.name \in SUBSET Nat
  <2>1. r \in RequestRecords /\ r.id # {} /\ r.id \subseteq Ids /\ r.name # {}
    BY Zenon, RequestsAssumption
  <2>2. r.name \in SUBSET Nat
    BY Zenon, <2>1 DEF RequestRecords, Optional
  <2> QED BY Zenon, <2>1, <2>2
<1>2. PICK x \in Ids : r.id = {x}
  BY <1>1 DEF RequestRecords, Optional
<1>3. PICK m \in Nat : r.name = {m}
  BY SMTT(60), <1>1 DEF RequestRecords, Optional
<1> DEFINE q == BoxByNameQuery(r)
           names == {n \in Names : /\ <<q.app, n>> \in d.box
                                   /\ IF q.boxName # {} THEN Equal(n, q.boxName)
                                                        ELSE Greater(n, q.prevFinalBox)}
<1>4. q.app = x /\ q.boxName = {m} /\ q.limit = 0
  BY Zenon, <1>2, <1>3, TheOne DEF BoxByNameQuery
<1>5. rows = IF d.app[x] = None THEN {} ELSE IF names = {} THEN {NullName} ELSE names
  BY Zenon, <1>4 DEF Rows, ApplicationBoxes, Limited
<1>6. names = {n \in Names : <<x, n>> \in d.box /\ n = m}
  <2> HIDE DEF q
  <2> QED BY Zenon, <1>4 DEF Equal
<1>7. names = IF <<x, m>> \in d.box THEN {m} ELSE {}
  <2>1. <<x, m>> \in d.box => m \in Names
    <3>1. d.box \in SUBSET (Ids \X Names)
      BY Zenon DEF WellFormed
    <3> QED BY Zenon, <3>1
  <2> HIDE DEF names
  <2> QED BY Zenon, <1>6, <2>1
<1>8. Found(d, r) <=> d.app[x] # None /\ (m = 0 \/ <<x, m>> \in d.box)
  BY Zenon, <1>2, <1>3, TheOne DEF Found
<1>9. LookupStatus(d, r, rows) =
        IF rows = {} \/ (rows = {NullName} /\ m # 0) THEN 404 ELSE 200
  BY <1>3 DEF LookupStatus
<1> HIDE DEF names
<1>10. {m} # {} /\ {m} # {NullName} /\ {NullName} # {}
  BY DEF NullName
<1> QED BY <1>5, <1>7, <1>8, <1>9, <1>10, SMTT(60)

LEMMA LookupBlockFinds ==
  ASSUME NEW r \in Requests, NEW d, NEW next, WellFormed(d), NEW rows, rows = Rows(d, r, next),
         r.op = "LookupBlock"
  PROVE  /\ LookupStatus(d, r, rows) \in {200, 400, 404} /\ rows \ {NullName} \in SUBSET Nat
         /\ LookupStatus(d, r, rows) # 400 => (LookupStatus(d, r, rows) = 200 <=> Found(d, r))
<1>1. r \in RequestRecords /\ r.id # {} /\ r.id \in SUBSET Nat /\ r.headerOnly \in BOOLEAN
  <2>1. r \in RequestRecords /\ r.id # {}
    BY Zenon, RequestsAssumption
  <2> QED BY Zenon, <2>1 DEF RequestRecords, Optional
<1>2. PICK x \in Nat : r.id = {x}
  BY SMTT(60), <1>1 DEF RequestRecords, Optional
<1> DEFINE g == GetBlock(d, x, ~r.headerOnly, MaxTransactions)
<1>3. d.round \in Nat /\ (x \in 0 .. d.round => d.header[x].txns \in Nat)
  BY Zenon DEF WellFormed, HeaderRecords
<1>4. /\ g \in {"found", "ErrorBlockNotFound", "MaxTransactionsError"}
      /\ g = "ErrorBlockNotFound" <=> x > d.round
      /\ g = "found" <=> x <= d.round /\ (r.headerOnly \/ d.header[x].txns <= MaxTransactions)
  BY <1>3, LimitsAssumption DEF GetBlock
<1>5. Found(d, r) <=> x <= d.round /\ (r.headerOnly \/ d.header[x].txns <= MaxTransactions)
  BY Zenon, <1>2, TheOne DEF Found
<1>6. LookupStatus(d, r, rows) = CASE g = "ErrorBlockNotFound" -> 404
                                  [] g = "MaxTransactionsError" -> 400
                                  [] OTHER -> 200
  <2>1. g = GetBlock(d, The(r.id), ~r.headerOnly, MaxTransactions)
    BY Zenon, <1>2, TheOne
  <2> HIDE DEF g
  <2> QED BY Zenon, <2>1 DEF LookupStatus
<1>7. rows \subseteq r.id
  BY Zenon DEF Rows
<1> HIDE DEF g
<1>8. /\ LookupStatus(d, r, rows) \in {200, 400, 404}
      /\ LookupStatus(d, r, rows) # 400 => (LookupStatus(d, r, rows) = 200 <=> g = "found")
  BY SMTT(60), <1>4, <1>6
<1> QED BY <1>1, <1>4, <1>5, <1>7, <1>8, SMTT(60)

LEMMA LookupFinds ==
  ASSUME NEW r \in Requests, r.op \in Lookups, NEW d, NEW next, WellFormed(d),
         NEW rows, rows = Rows(d, r, next)
  PROVE  /\ LookupStatus(d, r, rows) \in {200, 400, 404, 500} /\ rows \ {NullName} \in SUBSET Nat
         /\ LookupStatus(d, r, rows) \in {200, 404} => (LookupStatus(d, r, rows) = 200 <=> Found(d, r))
<1>1. CASE r.op \in {"LookupAccountByID", "LookupAssetByID", "LookupApplicationByID"}
  <2>1. PICK x \in Nat, shown \in BOOLEAN :
          /\ rows = Limited(OneOf(shown, x), 1)
          /\ shown <=> Found(d, r)
    BY SMTT(60), <1>1, LookupAccountFinds, LookupAssetFinds, LookupApplicationFinds, KeysAssumption
  <2> QED BY <1>1, <2>1, OneRow, SMTT(60)
<1>2. CASE r.op = "LookupApplicationBoxByIDAndName"
  BY <1>2, LookupBoxFinds, SMTT(60)
<1>3. CASE r.op = "LookupBlock"
  BY <1>3, LookupBlockFinds, SMTT(60)
<1> QED BY Zenon, <1>1, <1>2, <1>3 DEF Lookups

LEMMA LookupRowsFinite ==
  ASSUME NEW r \in Requests, r.op \in Lookups, NEW d, NEW next
  PROVE  IsFiniteSet(Rows(d, r, next))
<1>1. CASE r.op \in {"LookupAccountByID", "LookupAssetByID", "LookupApplicationByID"}
  <2>1. PICK x \in Nat, shown \in BOOLEAN : Rows(d, r, next) = Limited(OneOf(shown, x), 1)
    BY <1>1, LookupAccountFinds, LookupAssetFinds, LookupApplicationFinds, KeysAssumption
  <2>2. Limited(OneOf(shown, x), 1) \subseteq {x}
    BY Zenon, LimitedSubset DEF OneOf
  <2>3. IsFiniteSet({x})
    BY Zenon, FS_Singleton
  <2> QED BY Zenon, <2>1, <2>2, <2>3, FS_Subset
<1>2. CASE r.op = "LookupApplicationBoxByIDAndName"
  <2>1. Rows(d, r, next) = ApplicationBoxes(d, BoxByNameQuery(r))
    BY Zenon, <1>2 DEF Rows
  <2>2. Rows(d, r, next) \subseteq Names \cup {NullName}
    <3> DEFINE q == BoxByNameQuery(r)
               names == {n \in Names : /\ <<q.app, n>> \in d.box
                                       /\ IF q.boxName # {} THEN Equal(n, q.boxName)
                                                            ELSE Greater(n, q.prevFinalBox)}
    <3>1. Rows(d, r, next) \in {{}, {NullName}, Limited(names, q.limit)}
      BY Zenon, <2>1 DEF ApplicationBoxes
    <3>2. names \subseteq Names
      BY Zenon
    <3> HIDE DEF names, q
    <3>3. Limited(names, q.limit) \subseteq Names
      BY Zenon, <3>2, LimitedSubset
    <3> QED BY Zenon, <3>1, <3>3
  <2>3. IsFiniteSet(Names \cup {NullName})
    BY Zenon, KeysAssumption, FS_AddElement
  <2> QED BY Zenon, <2>2, <2>3, FS_Subset
<1>3. CASE r.op = "LookupBlock"
  <2>1. Rows(d, r, next) \subseteq r.id
    BY Zenon, <1>3 DEF Rows
  <2>2. IsFiniteSet(r.id)
    <3>1. r.id \in Optional(Nat)
      BY Zenon, RequestsAssumption DEF RequestRecords
    <3> QED BY Zenon, <3>1, OptionalFinite
  <2> QED BY Zenon, <2>1, <2>2, FS_Subset
<1> QED BY Zenon, <1>1, <1>2, <1>3 DEF Lookups

-----------------------------------------------------------------------------
(* The tables with these headers, apart from what relates one to another. *)
Tables(header) ==
    [round : Nat, header : {header},
     account : [Addrs -> AccountRecords \cup {None}],
     holding : [Addrs -> [Ids -> HoldingRecords \cup {None}]],
     asset : [Ids -> AssetRecords \cup {None}], app : [Ids -> AppRecords \cup {None}],
     local : [Addrs -> [Ids -> LocalRecords \cup {None}]],
     box : SUBSET (Ids \X Names)]

LEMMA NoneIsNone ==
  /\ None \notin AccountRecords /\ None \notin HoldingRecords /\ None \notin AssetRecords
  /\ None \notin AppRecords /\ None \notin LocalRecords
<1>1. None.st = "none" /\ "none" \notin States
  BY Zenon DEF None, States
<1>2. /\ \A x \in AccountRecords : x.st \in States
      /\ \A x \in HoldingRecords : x.st \in States
      /\ \A x \in AssetRecords : x.st \in States
      /\ \A x \in AppRecords : x.st \in States
      /\ \A x \in LocalRecords : x.st \in States
  BY Zenon DEF AccountRecords, HoldingRecords, AssetRecords, AppRecords, LocalRecords
<1> QED BY Zenon, <1>1, <1>2

LEMMA LiveCountSame ==
  ASSUME NEW d, NEW e, NEW k \in Kinds, NEW a,
         e.holding = d.holding, e.asset = d.asset, e.local = d.local, e.app = d.app
  PROVE  LiveCount(e, k, a) = LiveCount(d, k, a) /\ LiveCount(d, k, a) \in Nat
<1>1. Owned(e, k, a) = Owned(d, k, a) /\ \A i : OwnedRow(e, k, a, i) = OwnedRow(d, k, a, i)
  BY Zenon DEF Owned, OwnedRow, Kinds
<1>2. Owned(d, k, a) \subseteq Ids
  BY Zenon DEF Owned, Kinds
<1> DEFINE S == {i \in Owned(d, k, a) : OwnedRow(d, k, a, i).st = "live"}
<1>3. LiveCount(e, k, a) = LiveCount(d, k, a)
  <2>1. {i \in Owned(e, k, a) : OwnedRow(e, k, a, i).st = "live"} = S
    BY SMTT(60), <1>1
  <2> HIDE DEF S
  <2>2. LiveCount(e, k, a) = Cardinality(S)
    BY Zenon, <2>1 DEF LiveCount
  <2> QED BY Zenon, <2>2 DEF LiveCount, S
<1>4. S \subseteq Ids
  BY Zenon, <1>2
<1> HIDE DEF S
<1>5. Cardinality(S) \in Nat
  BY Zenon, <1>4, KeysAssumption, FS_Subset, FS_CardinalityType
<1> QED BY Zenon, <1>3, <1>5 DEF S, LiveCount

LEMMA WithTotalsFields ==
  ASSUME NEW header, NEW d \in Tables(header), NEW w, w = WithTotals(d)
  PROVE  /\ w \in Tables(header) /\ w.round = d.round /\ w.holding = d.holding
         /\ w.asset = d.asset /\ w.local = d.local /\ w.app = d.app
         /\ \A a \in Addrs : /\ d.account[a] = None => w.account[a] = None
                             /\ d.account[a] # None =>
                                  /\ w.account[a] \in AccountRecords
                                  /\ w.account[a].base = d.account[a].base
                                  /\ w.account[a].total = [k \in Kinds |-> LiveCount(d, k, a)]
<1> DEFINE totals(a) == [k \in Kinds |-> LiveCount(d, k, a)]
           rows == [a \in Addrs |-> IF d.account[a] = None THEN None
                                    ELSE [d.account[a] EXCEPT !.total = totals(a)]]
<1>1. w = [d EXCEPT !.account = rows]
  BY Zenon DEF WithTotals
<1>2. \A a : totals(a) \in [Kinds -> Nat]
  BY Zenon, LiveCountSame
<1> HIDE DEF totals
<1>3. ASSUME NEW a \in Addrs, d.account[a] # None
      PROVE  /\ rows[a] \in AccountRecords /\ rows[a].base = d.account[a].base
             /\ rows[a].total = totals(a)
  <2>1. d.account[a] \in AccountRecords
    BY Zenon, <1>3 DEF Tables
  <2>2. rows[a] = [d.account[a] EXCEPT !.total = totals(a)]
    BY Zenon, <1>3
  <2> HIDE DEF rows
  <2> QED BY <1>2, <2>1, <2>2 DEF AccountRecords
<1>4. rows \in [Addrs -> AccountRecords \cup {None}]
  BY Zenon, <1>3
<1>5. \A a \in Addrs : d.account[a] = None => rows[a] = None
  BY Zenon
<1> HIDE DEF rows
<1>6. /\ w \in Tables(header) /\ w.round = d.round /\ w.holding = d.holding
      /\ w.asset = d.asset /\ w.local = d.local /\ w.app = d.app /\ w.account = rows
  BY Zenon, <1>1, <1>4 DEF Tables
<1> QED BY Zenon, <1>3, <1>5, <1>6 DEF totals

LEMMA AddHeaderFields ==
  ASSUME NEW header, NEW w \in Tables(header), NEW h, NEW e, e = AddHeader(w, h)
  PROVE  /\ e.round = w.round + 1 /\ e.account = w.account /\ e.holding = w.holding
         /\ e.asset = w.asset /\ e.local = w.local /\ e.app = w.app
         /\ e.header = [r \in 0 .. w.round + 1 |-> IF r <= w.round THEN header[r] ELSE h]
         /\ e \in Tables(e.header)
<1> DEFINE longer == [r \in 0 .. w.round + 1 |-> IF r <= w.round THEN w.header[r] ELSE h]
<1>1. e = [w EXCEPT !.round = @ + 1, !.header = longer]
  BY Zenon DEF AddHeader
<1> HIDE DEF longer
<1>2. /\ e.round = w.round + 1 /\ e.account = w.account /\ e.holding = w.holding
      /\ e.asset = w.asset /\ e.local = w.local /\ e.app = w.app /\ e.header = longer
      /\ w.header = header /\ e \in Tables(longer)
  <2>1. w.round \in Nat
    BY Zenon DEF Tables
  <2>2. e = [w EXCEPT !.round = w.round + 1, !.header = longer]
    BY Zenon, <1>1
  <2>3. w.round + 1 \in Nat
    BY <2>1
  <2> QED BY Zenon, <2>2, <2>3 DEF Tables
<1> QED BY Zenon, <1>2 DEF longer

LEMMA UpToNext ==
  ASSUME NEW n \in Nat
  PROVE  /\ \A r \in 0 .. n + 1 : (r \in 0 .. n /\ r <= n) \/ (r = n + 1 /\ ~(r <= n))
         /\ n + 1 \in 0 .. n + 1 /\ n \in 0 .. n /\ ~(n + 1 <= n)
  OBVIOUS

(* The headers of rounds 0 to n, whose times do not go back. *)
Timely(n, header) ==
    /\ header \in [0 .. n -> HeaderRecords]
    /\ \A r, s \in 0 .. n : r <= s => header[r].time <= header[s].time
Appended(n, header, g) == [r \in 0 .. n + 1 |-> IF r <= n THEN header[r] ELSE g]

(* A header that is not older than the last one keeps the times in order. *)
LEMMA AppendedHeader ==
  ASSUME NEW n \in Nat, NEW old, Timely(n, old), NEW g \in HeaderRecords, g.time >= old[n].time
  PROVE  Timely(n + 1, Appended(n, old, g)) /\ Appended(n, old, g)[n + 1] = g
<1> DEFINE new == [r \in 0 .. n + 1 |-> IF r <= n THEN old[r] ELSE g]
<1> USE DEF Timely, Appended
<1>1. /\ \A r \in 0 .. n + 1 : (r \in 0 .. n /\ r <= n) \/ (r = n + 1 /\ ~(r <= n))
      /\ n + 1 \in 0 .. n + 1 /\ n \in 0 .. n /\ ~(n + 1 <= n)
  BY Zenon, UpToNext
<1>2. \A r \in 0 .. n + 1 : new[r] = IF r <= n THEN old[r] ELSE g
  BY Zenon
<1>3. \A r \in 0 .. n + 1 : new[r] \in HeaderRecords
  BY Zenon, <1>1, <1>2
<1>4. new \in [0 .. n + 1 -> HeaderRecords]
  BY Zenon, <1>1
<1>5. ASSUME NEW r \in 0 .. n + 1, NEW s \in 0 .. n + 1, r <= s
      PROVE  new[r].time <= new[s].time
  <2>1. \A h \in HeaderRecords : h.time \in Nat
    BY Zenon DEF HeaderRecords
  <2>2. CASE s <= n
    <3>1. r <= n /\ r \in 0 .. n /\ s \in 0 .. n
      BY <1>5, <2>2
    <3> QED BY Zenon, <1>2, <1>5, <2>2, <3>1
  <2>3. CASE r <= n /\ ~(s <= n)
    <3>1. r \in 0 .. n
      BY <2>3
    <3>2. /\ new[r] = old[r] /\ new[s] = g /\ old[r].time <= old[n].time
          /\ old[r].time \in Nat /\ old[n].time \in Nat /\ g.time \in Nat
      BY Zenon, <1>1, <1>2, <2>1, <2>3, <3>1
    <3> QED BY <3>2
  <2>4. CASE ~(r <= n) /\ ~(s <= n)
    <3>1. new[r] = g /\ new[s] = g /\ g.time \in Nat
      BY Zenon, <1>2, <2>1, <2>4
    <3> QED BY <3>1
  <2> QED BY Zenon, <2>2, <2>3, <2>4
<1>6. new[n + 1] = g
  BY Zenon, <1>1, <1>2
<1> QED BY Zenon, <1>4, <1>5, <1>6

(* A block keeps the tables well formed. *)
LEMMA CommitWellFormed ==
  ASSUME NEW b, WellFormed(b), NEW d \in Tables(b.header), d.round = b.round,
         \A a \in Addrs : d.account[a] # None =>
           d.account[a].base <= b.header[b.round].level + 1,
         NEW h \in HeaderRecords, h.time >= b.header[b.round].time,
         NEW e, e = AddHeader(WithTotals(d), [h EXCEPT !.level = b.header[b.round].level + 1])
  PROVE  WellFormed(e)
<1> DEFINE last == b.header[b.round]
           w == WithTotals(d)
           g == [h EXCEPT !.level = last.level + 1]
<1>1. /\ b.round \in Nat /\ b.header \in [0 .. b.round -> HeaderRecords] /\ last \in HeaderRecords
      /\ \A r, s \in 0 .. b.round : r <= s => b.header[r].time <= b.header[s].time
  BY DEF WellFormed
<1>2. g \in HeaderRecords /\ g.time = h.time /\ g.level = last.level + 1
  <2>1. last.level + 1 \in Nat
    <3>1. last \in HeaderRecords
      BY Zenon, <1>1
    <3> HIDE DEF last
    <3>2. last.level \in Nat
      BY Zenon, <3>1 DEF HeaderRecords
    <3> QED BY <3>2
  <2> DEFINE level == last.level + 1
  <2> HIDE DEF level, last
  <2>2. g = [h EXCEPT !.level = level]
    BY Zenon DEF level, last
  <2>3. level \in Nat
    BY Zenon, <2>1 DEF level
  <2> HIDE DEF g
  <2>4. g \in HeaderRecords /\ g.time = h.time /\ g.level = level
    BY Zenon, <2>2, <2>3 DEF HeaderRecords
  <2> QED BY Zenon, <2>4 DEF level
<1>3. last.time \in Nat /\ last.level \in Nat /\ h.time \in Nat /\ h.time >= last.time
  BY Zenon, <1>1 DEF HeaderRecords
<1>4. /\ w \in Tables(b.header) /\ w.round = b.round /\ w.holding = d.holding
      /\ w.asset = d.asset /\ w.local = d.local /\ w.app = d.app
      /\ \A a \in Addrs : /\ d.account[a] = None => w.account[a] = None
                          /\ d.account[a] # None =>
                               /\ w.account[a] \in AccountRecords
                               /\ w.account[a].base = d.account[a].base
                               /\ w.account[a].total = [k \in Kinds |-> LiveCount(d, k, a)]
  BY WithTotalsFields
<1>5. e = AddHeader(w, g)
  BY Zenon
<1> HIDE DEF w, g
<1>6. /\ e.round = w.round + 1 /\ e.account = w.account /\ e.holding = w.holding
      /\ e.asset = w.asset /\ e.local = w.local /\ e.app = w.app
      /\ e.header = [r \in 0 .. w.round + 1 |-> IF r <= w.round THEN b.header[r] ELSE g]
      /\ e \in Tables(e.header)
  BY <1>4, <1>5, AddHeaderFields
<1>7. e.round = b.round + 1
  BY Zenon, <1>4, <1>6
<1>8. e.header = [r \in 0 .. b.round + 1 |-> IF r <= b.round THEN b.header[r] ELSE g]
  BY Zenon, <1>4, <1>6
<1>9. g.time >= last.time
  BY Zenon, <1>2, <1>3
<1> HIDE DEF last
<1>10. /\ e.header \in [0 .. e.round -> HeaderRecords]
       /\ \A r, s \in 0 .. e.round : r <= s => e.header[r].time <= e.header[s].time
       /\ e.header[e.round] = g
  <2>1. Timely(b.round, b.header)
    BY Zenon, <1>1 DEF Timely
  <2>2. b.round \in Nat /\ g \in HeaderRecords /\ g.time >= b.header[b.round].time
    BY Zenon, <1>1, <1>2, <1>9 DEF last
  <2>3. e.header = Appended(b.round, b.header, g)
    BY Zenon, <1>8 DEF Appended
  <2>4. /\ Timely(b.round + 1, Appended(b.round, b.header, g))
        /\ Appended(b.round, b.header, g)[b.round + 1] = g
    BY <2>1, <2>2, AppendedHeader
  <2> QED BY Zenon, <1>7, <2>3, <2>4 DEF Timely
<1>11. e.header[e.round].level = last.level + 1
  BY Zenon, <1>2, <1>10
<1>12. ASSUME NEW a \in Addrs, e.account[a] # None
       PROVE  /\ e.account[a].base <= e.header[e.round].level
              /\ e.account[a].total = [k \in Kinds |-> LiveCount(e, k, a)]
  <2>1. d.account[a] # None
    BY ZenonT(30), <1>4, <1>6, <1>12
  <2>2. e.account[a].base <= e.header[e.round].level
    BY <1>4, <1>6, <1>11, <2>1, ZenonT(60) DEF last
  <2>3. \A k \in Kinds : LiveCount(e, k, a) = LiveCount(d, k, a)
    BY <1>4, <1>6, LiveCountSame, SMTT(60)
  <2>4. [k \in Kinds |-> LiveCount(e, k, a)] = [k \in Kinds |-> LiveCount(d, k, a)]
    BY Zenon, <2>3
  <2> QED BY ZenonT(30), <1>4, <1>6, <2>1, <2>2, <2>4
<1> QED BY Zenon, <1>6, <1>10, <1>12 DEF WellFormed, Tables

(* The tables a block may leave. *)
Written(d) ==
    /\ d \in Tables(db.header) /\ d.round = db.round
    /\ \A a \in Addrs : d.account[a] # None => d.account[a].base <= db.header[db.round].level + 1

LEMMA CommitInv ==
  ASSUME IInv, NEW table, NEW d, Written(d), Commit(table, d)
  PROVE  IInv'
<1> USE DEF IInv
<1>1. PICK h \in Headers[request.op] :
        /\ h.time >= db.header[db.round].time
        /\ db' = AddHeader(WithTotals(d), [h EXCEPT !.level = db.header[db.round].level + 1])
  BY Zenon DEF Commit
<1>2. h \in HeaderRecords
  BY Zenon, DatabasesAssumption DEF Shape
<1>3. WellFormed(db')
  BY Zenon, <1>1, <1>2, CommitWellFormed DEF Shape, Written
<1>4. /\ request' = request /\ token' = token /\ pc' = pc /\ snap' = snap /\ answer' = answer
      /\ seen' = seen /\ pc # "done" /\ blocks < MaxBlocks /\ blocks' = blocks + 1
      /\ always' = always \cap Matches(db', request)
  BY Zenon DEF Commit
<1>5. blocks' \in 0 .. MaxBlocks
  BY <1>4, LimitsAssumption, SMTT(60) DEF Shape
<1>6. Answers' = Answers /\ Seen' = Seen
  BY Zenon, <1>4 DEF Answers, Seen
<1>7. Shape'
  BY Zenon, <1>3, <1>4, <1>5, <1>6 DEF Shape
<1>8. Reading'
  BY Zenon, <1>4 DEF Reading, Open
<1>9. Walk'
  BY Zenon, <1>4, <1>6 DEF Walk
<1>10. NoRepeats' /\ NothingMissed' /\ AccountsWithinLimits'
  BY Zenon, <1>4 DEF NoRepeats, NothingMissed, AccountsWithinLimits
<1>11. PageIsOfItsRound'
  BY Zenon, <1>4 DEF PageIsOfItsRound
<1>12. LookupsFind'
  BY <1>4, ZenonT(60) DEF LookupsFind
<1> QED BY Zenon, <1>7, <1>8, <1>9, <1>10, <1>11, <1>12

LEMMA DatabaseWritten ==
  ASSUME WellFormed(db)
  PROVE  Written(db) /\ db.header[db.round].level \in Nat
<1>1. db \in Tables(db.header) /\ db.header \in [0 .. db.round -> HeaderRecords] /\ db.round \in Nat
  BY Zenon DEF WellFormed, Tables
<1>2. db.header[db.round] \in HeaderRecords
  BY <1>1
<1>3. db.header[db.round].level \in Nat
  BY Zenon, <1>2 DEF HeaderRecords
<1>4. ASSUME NEW a \in Addrs, db.account[a] # None
      PROVE  db.account[a].base <= db.header[db.round].level + 1
  <2>1. db.account[a].base <= db.header[db.round].level
    BY Zenon, <1>4 DEF WellFormed
  <2>2. db.account[a].base \in Nat
    <3>1. db.account[a] \in AccountRecords
      BY Zenon, <1>1, <1>4 DEF Tables
    <3> QED BY Zenon, <3>1 DEF AccountRecords
  <2> QED BY SMTT(60), <1>3, <2>1, <2>2
<1> QED BY Zenon, <1>1, <1>3, <1>4 DEF Written

(* The delete statements leave rows of their tables. *)
LEMMA DeletedRows ==
  /\ \A row \in AccountRecords : DeletedAccount(row) \in AccountRecords /\ DeletedAccount(row).base = 0
  /\ \A row \in HoldingRecords : DeletedHolding(row) \in HoldingRecords
  /\ \A row \in AssetRecords : DeletedAsset(row) \in AssetRecords
  /\ \A row \in AppRecords : Deleted(row) \in AppRecords
  /\ \A row \in LocalRecords : Deleted(row) \in LocalRecords
<1>0. "deleted" \in States
  BY Zenon DEF States
<1>1. ASSUME NEW row \in AccountRecords
      PROVE  DeletedAccount(row) \in AccountRecords /\ DeletedAccount(row).base = 0
  <2> DEFINE x == Deleted(row)
  <2>1. x \in AccountRecords
    BY Zenon, <1>0 DEF Deleted, AccountRecords
  <2>2. DeletedAccount(row) = [x EXCEPT !.algos = 0, !.auth = 0, !.online = FALSE, !.base = 0]
    BY Zenon DEF DeletedAccount
  <2> HIDE DEF x
  <2>3. ASSUME NEW o \in BOOLEAN
        PROVE  /\ [x EXCEPT !.algos = 0, !.auth = 0, !.online = o, !.base = 0] \in AccountRecords
               /\ [x EXCEPT !.algos = 0, !.auth = 0, !.online = o, !.base = 0].base = 0
    BY Zenon, <2>1 DEF AccountRecords
  <2> QED BY Zenon, <2>2, <2>3
<1>2. ASSUME NEW row \in HoldingRecords PROVE DeletedHolding(row) \in HoldingRecords
  BY Zenon, <1>0 DEF Deleted, DeletedHolding, HoldingRecords
<1>3. ASSUME NEW row \in AssetRecords PROVE DeletedAsset(row) \in AssetRecords
  BY Zenon, <1>0 DEF Deleted, DeletedAsset, AssetRecords
<1>4. ASSUME NEW row \in AppRecords PROVE Deleted(row) \in AppRecords
  BY Zenon, <1>0 DEF Deleted, AppRecords
<1>5. ASSUME NEW row \in LocalRecords PROVE Deleted(row) \in LocalRecords
  BY Zenon, <1>0 DEF Deleted, LocalRecords
<1> QED BY Zenon, <1>1, <1>2, <1>3, <1>4, <1>5

(* Changing one row. *)
LEMMA RowWritten ==
  ASSUME Written(db), db.header[db.round].level \in Nat
  PROVE  /\ \A a \in Addrs, row \in AccountRecords :
              row.base <= db.header[db.round].level + 1 => Written([db EXCEPT !.account[a] = row])
         /\ \A a \in Addrs, i \in Ids, row \in HoldingRecords :
              Written([db EXCEPT !.holding[a][i] = row])
         /\ \A a \in Addrs, i \in Ids, row \in LocalRecords :
              Written([db EXCEPT !.local[a][i] = row])
         /\ \A i \in Ids, row \in AssetRecords : Written([db EXCEPT !.asset[i] = row])
         /\ \A i \in Ids, row \in AppRecords : Written([db EXCEPT !.app[i] = row])
         /\ \A box \in SUBSET (Ids \X Names) : Written([db EXCEPT !.box = box])
<1> DEFINE header == db.header
<1>1. db \in Tables(header)
  BY Zenon DEF Written
<1>2. ASSUME NEW a \in Addrs, NEW row \in AccountRecords,
             row.base <= db.header[db.round].level + 1
      PROVE  Written([db EXCEPT !.account[a] = row])
  <2> DEFINE account == [db.account EXCEPT ![a] = row]
             d == [db EXCEPT !.account = account]
  <2>1. account \in [Addrs -> AccountRecords \cup {None}]
    BY Zenon, <1>1 DEF Tables
  <2>2. \A c \in Addrs : account[c] = IF c = a THEN row ELSE db.account[c]
    BY Zenon, <1>1 DEF Tables
  <2>3. d = [db EXCEPT !.account[a] = row]
    BY Zenon, <1>1 DEF Tables
  <2> HIDE DEF account
  <2>4. d \in Tables(header) /\ d.account = account /\ d.round = db.round
    BY Zenon, <1>1, <2>1 DEF Tables
  <2> HIDE DEF d
  <2>5. Written(d)
    BY Zenon, <1>2, <2>2, <2>4 DEF Written
  <2> QED BY Zenon, <2>3, <2>5
<1>3. ASSUME NEW d, d \in Tables(header), d.account = db.account, d.round = db.round
      PROVE  Written(d)
  BY Zenon, <1>3 DEF Written
<1>4. ASSUME NEW a \in Addrs, NEW i \in Ids, NEW row \in HoldingRecords
      PROVE  Written([db EXCEPT !.holding[a][i] = row])
  <2> DEFINE d == [db EXCEPT !.holding[a][i] = row]
             t == [db.holding EXCEPT ![a][i] = row]
  <2>1. t \in [Addrs -> [Ids -> HoldingRecords \cup {None}]]
    BY Zenon, <1>1 DEF Tables
  <2>2. d = [db EXCEPT !.holding = t]
    BY Zenon, <1>1 DEF Tables
  <2> HIDE DEF t, d
  <2>3. d \in Tables(header) /\ d.account = db.account /\ d.round = db.round
    BY Zenon, <1>1, <2>1, <2>2 DEF Tables
  <2>4. Written(d)
    BY Zenon, <1>3, <2>3
  <2> QED BY Zenon, <2>4 DEF d
<1>5. ASSUME NEW a \in Addrs, NEW i \in Ids, NEW row \in LocalRecords
      PROVE  Written([db EXCEPT !.local[a][i] = row])
  <2> DEFINE d == [db EXCEPT !.local[a][i] = row]
             t == [db.local EXCEPT ![a][i] = row]
  <2>1. t \in [Addrs -> [Ids -> LocalRecords \cup {None}]]
    BY Zenon, <1>1 DEF Tables
  <2>2. d = [db EXCEPT !.local = t]
    BY Zenon, <1>1 DEF Tables
  <2> HIDE DEF t, d
  <2>3. d \in Tables(header) /\ d.account = db.account /\ d.round = db.round
    BY Zenon, <1>1, <2>1, <2>2 DEF Tables
  <2>4. Written(d)
    BY Zenon, <1>3, <2>3
  <2> QED BY Zenon, <2>4 DEF d
<1>6. ASSUME NEW i \in Ids, NEW row \in AssetRecords
      PROVE  Written([db EXCEPT !.asset[i] = row])
  <2> DEFINE d == [db EXCEPT !.asset[i] = row]
             t == [db.asset EXCEPT ![i] = row]
  <2>1. t \in [Ids -> AssetRecords \cup {None}]
    BY Zenon, <1>1 DEF Tables
  <2>2. d = [db EXCEPT !.asset = t]
    BY Zenon, <1>1 DEF Tables
  <2> HIDE DEF t, d
  <2>3. d \in Tables(header) /\ d.account = db.account /\ d.round = db.round
    BY Zenon, <1>1, <2>1, <2>2 DEF Tables
  <2>4. Written(d)
    BY Zenon, <1>3, <2>3
  <2> QED BY Zenon, <2>4 DEF d
<1>7. ASSUME NEW i \in Ids, NEW row \in AppRecords
      PROVE  Written([db EXCEPT !.app[i] = row])
  <2> DEFINE d == [db EXCEPT !.app[i] = row]
             t == [db.app EXCEPT ![i] = row]
  <2>1. t \in [Ids -> AppRecords \cup {None}]
    BY Zenon, <1>1 DEF Tables
  <2>2. d = [db EXCEPT !.app = t]
    BY Zenon, <1>1 DEF Tables
  <2> HIDE DEF t, d
  <2>3. d \in Tables(header) /\ d.account = db.account /\ d.round = db.round
    BY Zenon, <1>1, <2>1, <2>2 DEF Tables
  <2>4. Written(d)
    BY Zenon, <1>3, <2>3
  <2> QED BY Zenon, <2>4 DEF d
<1>8. ASSUME NEW box \in SUBSET (Ids \X Names)
      PROVE  Written([db EXCEPT !.box = box])
  <2> DEFINE d == [db EXCEPT !.box = box]
  <2>1. d \in Tables(header) /\ d.account = db.account /\ d.round = db.round
    BY Zenon, <1>1 DEF Tables
  <2> HIDE DEF d
  <2>2. Written(d)
    BY Zenon, <1>3, <2>1
  <2> QED BY Zenon, <2>2 DEF d
<1> QED BY Zenon, <1>2, <1>4, <1>5, <1>6, <1>7, <1>8

LEMMA ImportInv ==
  ASSUME IInv, Import
  PROVE  IInv'
<1>1. WellFormed(db) /\ request \in Requests
  BY Zenon DEF IInv, Shape
<1>2. Written(db) /\ db.header[db.round].level \in Nat /\ db \in Tables(db.header)
  BY Zenon, <1>1, DatabaseWritten DEF Written
<1>3. TouchedIds[request.op] \subseteq Ids
  BY Zenon, <1>1, DatabasesAssumption
<1> DEFINE level == db.header[db.round].level
<1>4. CASE ImportHeader
  BY Zenon, <1>2, <1>4, CommitInv DEF ImportHeader
<1>5. CASE ImportAccount
  <2>1. PICK a \in Addrs :
          \/ \E row \in AccountRows : Commit("account", WriteAccount(db, a, row))
          \/ /\ db.account[a] # None
             /\ Commit("account", [db EXCEPT !.account[a] = DeletedAccount(@)])
    BY Zenon, <1>5 DEF ImportAccount
  <2>2. ASSUME NEW row \in AccountRows, Commit("account", WriteAccount(db, a, row)) PROVE IInv'
    <3> DEFINE x == [row EXCEPT !.base = level + 1]
    <3>1. row \in AccountRecords
      BY Zenon, RowsAssumption
    <3>2. x \in AccountRecords /\ x.base = level + 1 /\ level + 1 \in Nat
      BY <1>2, <3>1 DEF AccountRecords
    <3>3. WriteAccount(db, a, row) = [db EXCEPT !.account[a] = x]
      BY Zenon DEF WriteAccount
    <3> HIDE DEF x
    <3>4. Written(WriteAccount(db, a, row))
      BY <1>2, <3>2, <3>3, RowWritten
    <3> QED BY Zenon, <2>2, <3>4, CommitInv
  <2>3. ASSUME db.account[a] # None,
               Commit("account", [db EXCEPT !.account[a] = DeletedAccount(@)])
        PROVE  IInv'
    <3> DEFINE x == DeletedAccount(db.account[a])
    <3>1. db.account[a] \in AccountRecords
      BY Zenon, <1>2, <2>3 DEF Tables
    <3>2. x \in AccountRecords /\ x.base <= level + 1
      BY SMTT(60), <1>2, <3>1, DeletedRows
    <3> HIDE DEF x
    <3>3. Written([db EXCEPT !.account[a] = x])
      BY Zenon, <1>2, <3>2, RowWritten
    <3>4. Commit("account", [db EXCEPT !.account[a] = x])
      BY Zenon, <2>3 DEF x
    <3> QED BY Zenon, <3>3, <3>4, CommitInv
  <2> QED BY Zenon, <2>1, <2>2, <2>3
<1>6. CASE ImportHolding
  <2>1. PICK a \in Addrs, i \in Ids :
          \/ \E row \in HoldingRows : Commit("holding", [db EXCEPT !.holding[a][i] = row])
          \/ /\ db.holding[a][i] # None
             /\ Commit("holding", [db EXCEPT !.holding[a][i] = DeletedHolding(@)])
    BY Zenon, <1>3, <1>6 DEF ImportHolding
  <2>2. ASSUME NEW row \in HoldingRecords, Commit("holding", [db EXCEPT !.holding[a][i] = row])
        PROVE  IInv'
    <3>1. Written([db EXCEPT !.holding[a][i] = row])
      BY Zenon, <1>2, RowWritten
    <3> QED BY Zenon, <2>2, <3>1, CommitInv
  <2>3. ASSUME db.holding[a][i] # None,
               Commit("holding", [db EXCEPT !.holding[a][i] = DeletedHolding(@)])
        PROVE  IInv'
    <3> DEFINE x == DeletedHolding(db.holding[a][i])
    <3>1. x \in HoldingRecords
      BY <1>2, <2>3, DeletedRows DEF Tables
    <3>2. Commit("holding", [db EXCEPT !.holding[a][i] = x])
      BY Zenon, <2>3
    <3> HIDE DEF x
    <3> QED BY Zenon, <2>2, <3>1, <3>2
  <2> QED BY Zenon, <2>1, <2>2, <2>3, RowsAssumption
<1>7. CASE ImportLocal
  <2>1. PICK a \in Addrs, i \in Ids :
          \/ \E row \in LocalRows : Commit("local", [db EXCEPT !.local[a][i] = row])
          \/ /\ db.local[a][i] # None
             /\ Commit("local", [db EXCEPT !.local[a][i] = Deleted(@)])
    BY Zenon, <1>3, <1>7 DEF ImportLocal
  <2>2. ASSUME NEW row \in LocalRecords, Commit("local", [db EXCEPT !.local[a][i] = row])
        PROVE  IInv'
    <3>1. Written([db EXCEPT !.local[a][i] = row])
      BY Zenon, <1>2, RowWritten
    <3> QED BY Zenon, <2>2, <3>1, CommitInv
  <2>3. ASSUME db.local[a][i] # None,
               Commit("local", [db EXCEPT !.local[a][i] = Deleted(@)])
        PROVE  IInv'
    <3> DEFINE x == Deleted(db.local[a][i])
    <3>1. x \in LocalRecords
      BY <1>2, <2>3, DeletedRows DEF Tables
    <3>2. Commit("local", [db EXCEPT !.local[a][i] = x])
      BY Zenon, <2>3
    <3> HIDE DEF x
    <3> QED BY Zenon, <2>2, <3>1, <3>2
  <2> QED BY Zenon, <2>1, <2>2, <2>3, RowsAssumption
<1>8. CASE ImportAsset
  <2>1. PICK i \in Ids :
          \/ \E row \in AssetRows : Commit("asset", [db EXCEPT !.asset[i] = row])
          \/ /\ db.asset[i] # None
             /\ Commit("asset", [db EXCEPT !.asset[i] = DeletedAsset(@)])
    BY Zenon, <1>3, <1>8 DEF ImportAsset
  <2>2. ASSUME NEW row \in AssetRecords, Commit("asset", [db EXCEPT !.asset[i] = row]) PROVE IInv'
    <3>1. Written([db EXCEPT !.asset[i] = row])
      BY Zenon, <1>2, RowWritten
    <3> QED BY Zenon, <2>2, <3>1, CommitInv
  <2>3. ASSUME db.asset[i] # None, Commit("asset", [db EXCEPT !.asset[i] = DeletedAsset(@)])
        PROVE  IInv'
    <3> DEFINE x == DeletedAsset(db.asset[i])
    <3>1. x \in AssetRecords
      BY Zenon, <1>2, <2>3, DeletedRows DEF Tables
    <3>2. Commit("asset", [db EXCEPT !.asset[i] = x])
      BY Zenon, <2>3
    <3> HIDE DEF x
    <3> QED BY Zenon, <2>2, <3>1, <3>2
  <2> QED BY Zenon, <2>1, <2>2, <2>3, RowsAssumption
<1>9. CASE ImportApp
  <2>1. PICK i \in Ids :
          \/ \E row \in AppRows : Commit("app", [db EXCEPT !.app[i] = row])
          \/ /\ db.app[i] # None
             /\ Commit("app", [db EXCEPT !.app[i] = Deleted(@)])
    BY Zenon, <1>3, <1>9 DEF ImportApp
  <2>2. ASSUME NEW row \in AppRecords, Commit("app", [db EXCEPT !.app[i] = row]) PROVE IInv'
    <3>1. Written([db EXCEPT !.app[i] = row])
      BY Zenon, <1>2, RowWritten
    <3> QED BY Zenon, <2>2, <3>1, CommitInv
  <2>3. ASSUME db.app[i] # None, Commit("app", [db EXCEPT !.app[i] = Deleted(@)])
        PROVE  IInv'
    <3> DEFINE x == Deleted(db.app[i])
    <3>1. x \in AppRecords
      BY Zenon, <1>2, <2>3, DeletedRows DEF Tables
    <3>2. Commit("app", [db EXCEPT !.app[i] = x])
      BY Zenon, <2>3
    <3> HIDE DEF x
    <3> QED BY Zenon, <2>2, <3>1, <3>2
  <2> QED BY Zenon, <2>1, <2>2, <2>3, RowsAssumption
<1>10. CASE ImportBox
  <2>1. PICK i \in Ids, n \in Names :
          \/ Commit("box", [db EXCEPT !.box = @ \cup {<<i, n>>}])
          \/ Commit("box", [db EXCEPT !.box = @ \ {<<i, n>>}])
    BY Zenon, <1>3, <1>10 DEF ImportBox
  <2>2. db.box \cup {<<i, n>>} \in SUBSET (Ids \X Names) /\ db.box \ {<<i, n>>} \in SUBSET (Ids \X Names)
    BY <1>2 DEF Tables
  <2>3. /\ Written([db EXCEPT !.box = db.box \cup {<<i, n>>}])
        /\ Written([db EXCEPT !.box = db.box \ {<<i, n>>}])
    BY Zenon, <1>2, <2>2, RowWritten
  <2> QED BY Zenon, <2>1, <2>3, CommitInv
<1> QED BY Zenon, <1>4, <1>5, <1>6, <1>7, <1>8, <1>9, <1>10 DEF Import

-----------------------------------------------------------------------------
LEMMA EmptySum ==
  ASSUME NEW f, DOMAIN f = {}
  PROVE  SumOver(f) = 0
<1> DEFINE F(g) == [s \in SUBSET {} |-> IF s = {} THEN 0
                      ELSE f[CHOOSE x \in s : TRUE] + g[s \ {CHOOSE x \in s : TRUE}]]
           iter == CHOOSE g : g = F(g)
<1>1. SumOver(f) = iter[{}]
  BY Zenon DEF SumOver, MapThenSumSet, MapThenFoldSet
<1>2. \A g : F(g) = [s \in SUBSET {} |-> 0]
  BY Zenon
<1> HIDE DEF F
<1>3. iter = F(iter)
  <2>1. F([s \in SUBSET {} |-> 0]) = [s \in SUBSET {} |-> 0]
    BY Zenon, <1>2
  <2> QED BY Zenon, <2>1
<1> HIDE DEF iter
<1> QED BY Zenon, <1>1, <1>2, <1>3

(* The totals that are checked are the numbers of rows that are listed. *)
LEMMA TotalsAreListed ==
  ASSUME NEW d, WellFormed(d), NEW o, o.include \subseteq Kinds, o.includeDeleted \in BOOLEAN,
         NEW a \in Addrs, d.account[a] # None
  PROVE  [k \in o.include |-> IF o.includeDeleted THEN Cardinality(Listed(d, o, a)[k])
                                                  ELSE d.account[a].total[k]]
           = [k \in o.include |-> Cardinality(Listed(d, o, a)[k])]
<1> SUFFICES ASSUME NEW k \in o.include, ~o.includeDeleted
             PROVE  d.account[a].total[k] = Cardinality(Listed(d, o, a)[k])
  BY Zenon
<1>1. d.account[a].total = [j \in Kinds |-> LiveCount(d, j, a)]
  BY Zenon DEF WellFormed
<1>2. d.account[a].total[k] = LiveCount(d, k, a)
  BY Zenon, <1>1
<1>3. Listed(d, o, a)[k] = {i \in Owned(d, k, a) : Shown(OwnedRow(d, k, a, i), o.includeDeleted)}
  BY Zenon DEF Listed
<1>4. \A i \in Owned(d, k, a) : OwnedRow(d, k, a, i) # None
  BY Zenon DEF Owned, OwnedRow, Kinds
<1>5. Listed(d, o, a)[k] = {i \in Owned(d, k, a) : OwnedRow(d, k, a, i).st = "live"}
  BY Zenon, <1>3, <1>4 DEF Shown
<1> QED BY Zenon, <1>2, <1>5 DEF LiveCount

(* An account that passed the check is within the limit, and its rewards   *)
(* are those of a level it has reached.                                    *)
LEMMA AccountChecked ==
  ASSUME NEW d, WellFormed(d), NEW o, o.include \subseteq Kinds, o.includeDeleted \in BOOLEAN,
         o.maxResources = MaxResources, checkAccountResourceLimit(d, o),
         NEW a \in buildAccountQuery(d, o)
  PROVE  /\ a \in Addrs /\ d.account[a].base \in Nat
         /\ d.account[a].base <= d.header[d.round].level
         /\ MaxResources # 0 => Total(d, o, a) <= MaxResources
<1>1. a \in AccountKeys(d, o)
  BY Zenon, LimitedSubset DEF buildAccountQuery
<1>2. a \in Addrs /\ d.account[a] # None
  BY Zenon, <1>1 DEF AccountKeys, Shown
<1>3. d.account[a] \in AccountRecords
  BY Zenon, <1>2 DEF WellFormed
<1>4. d.account[a].base \in Nat /\ d.account[a].base <= d.header[d.round].level
  BY Zenon, <1>2, <1>3 DEF WellFormed, AccountRecords
<1>5. CASE o.include = {}
  <2> DEFINE f == [k \in o.include |-> Cardinality(Listed(d, o, a)[k])]
  <2>1. DOMAIN f = {} /\ Total(d, o, a) = SumOver(f)
    BY Zenon, <1>5 DEF Total
  <2> HIDE DEF f
  <2>2. Total(d, o, a) = 0
    BY Zenon, <2>1, EmptySum
  <2> QED BY <1>2, <1>4, <2>2, LimitsAssumption, SMTT(60)
<1>6. CASE o.include # {}
  <2>1. MaxResources # 0 =>
          SumOver([k \in o.include |-> IF o.includeDeleted THEN Cardinality(Listed(d, o, a)[k])
                                                           ELSE d.account[a].total[k]])
            <= MaxResources
    BY Zenon, <1>6 DEF checkAccountResourceLimit
  <2>2. MaxResources # 0 => Total(d, o, a) <= MaxResources
    BY <1>2, <2>1, TotalsAreListed, SMTT(60) DEF Total
  <2> QED BY Zenon, <1>2, <1>4, <2>2
<1> QED BY Zenon, <1>5, <1>6

LEMMA OptionsFields ==
  ASSUME NEW r \in Requests, NEW d, NEW next, r.op \in Accounts
  PROVE  /\ Options(r, next).include \subseteq Kinds /\ Options(r, next).includeDeleted \in BOOLEAN
         /\ Options(r, next).maxResources = MaxResources
         /\ Rows(d, r, next) = buildAccountQuery(d, Options(r, next))
         /\ Keys(r, Rows(d, r, next)) \subseteq Rows(d, r, next)
<1>1. r.all \in BOOLEAN
  BY Zenon, RequestsAssumption DEF RequestRecords
<1>2. Rows(d, r, next) = buildAccountQuery(d, Options(r, next))
  BY Zenon DEF Rows, Options, Accounts
<1>3. /\ Options(r, next).include \subseteq Kinds /\ Options(r, next).includeDeleted = r.all
      /\ Options(r, next).maxResources = MaxResources
  BY Zenon DEF Options, AccountOptions, AccountByIDOptions
<1>4. Keys(r, Rows(d, r, next)) \subseteq Rows(d, r, next)
  BY Zenon DEF Keys
<1> QED BY Zenon, <1>1, <1>2, <1>3, <1>4

-----------------------------------------------------------------------------
LEMMA InitInv == Init => IInv
<1> SUFFICES ASSUME Init PROVE IInv
  BY Zenon
<1>1. /\ answer.status = 0 /\ answer.keys = {} /\ answer.rows = {} /\ answer.round = 0
      /\ answer.level = 0 /\ answer.deltas = {} /\ answer.listed = {} /\ answer \in Answers
  BY Zenon DEF Init, NoAnswer, Answers
<1>2. WellFormed(db) /\ snap = db
  BY Zenon, DatabasesAssumption DEF Init
<1>3. /\ request \in Requests /\ token = {} /\ pc = "idle" /\ seen = {} /\ blocks = 0
      /\ always = Matches(db, request)
  BY Zenon DEF Init
<1>4. Shape
  BY SMTT(60), <1>1, <1>2, <1>3, LimitsAssumption DEF Shape, Optional
<1>5. Reading /\ NothingMissed /\ NoRepeats /\ PageIsOfItsRound /\ AccountsWithinLimits
  BY <1>1, <1>3, SMTT(60) DEF Reading, Open, NothingMissed, NoRepeats, PageIsOfItsRound, AccountsWithinLimits
<1>6. LookupsFind
  BY <1>1 DEF LookupsFind
<1>7. Walk
  BY Zenon, <1>1, <1>3 DEF Walk, Seen
<1> QED BY Zenon, <1>4, <1>5, <1>6, <1>7 DEF IInv

LEMMA GetMaxRoundInv ==
  ASSUME IInv, GetMaxRoundAccounted
  PROVE  IInv'
<1> DEFINE fresh == [NoAnswer EXCEPT !.round = db.round]
<1>1. /\ pc = "idle" /\ snap' = db /\ seen' = seen \cup answer.keys /\ answer' = fresh
      /\ pc' = IF request.op \in Accounts THEN "round" ELSE "limit"
      /\ db' = db /\ request' = request /\ token' = token /\ always' = always /\ blocks' = blocks
  BY Zenon DEF GetMaxRoundAccounted
<1>2. db.round \in Nat
  BY Zenon DEF IInv, Shape, WellFormed
<1>3. /\ answer'.status = 0 /\ answer'.keys = {} /\ answer'.deltas = {} /\ answer'.listed = {}
      /\ answer'.round = db.round /\ answer' \in Answers'
  <2>1. fresh = [status |-> 0, keys |-> {}, rows |-> {}, round |-> db.round, level |-> 0,
                 deltas |-> {}, listed |-> {}]
    BY DEF NoAnswer
  <2> HIDE DEF fresh
  <2> QED BY Zenon, <1>1, <1>2, <2>1 DEF Answers
<1>4. Seen' = Seen
  BY Zenon, <1>1, <1>3 DEF Seen
<1>5. Shape'
  <2>1. answer.keys \in SUBSET Nat /\ seen \in SUBSET Nat
    BY DEF IInv, Shape, Answers
  <2>2. seen' \in SUBSET Nat
    BY Zenon, <1>1, <2>1
  <2> QED BY Zenon, <1>1, <1>3, <2>2 DEF IInv, Shape
<1>6. Reading'
  BY Zenon, <1>1, <1>3 DEF IInv, Shape, Reading, Open
<1>7. Walk'
  BY Zenon, <1>1, <1>4 DEF IInv, Walk
<1>8. NothingMissed' /\ NoRepeats' /\ PageIsOfItsRound' /\ AccountsWithinLimits'
  BY <1>1, <1>3 DEF NothingMissed, NoRepeats, PageIsOfItsRound, AccountsWithinLimits
<1>9. LookupsFind'
  BY <1>3 DEF LookupsFind
<1> QED BY Zenon, <1>5, <1>6, <1>7, <1>8, <1>9 DEF IInv

LEMMA ReadHeaderInv ==
  ASSUME IInv, ReadHeader
  PROVE  IInv'
<1> DEFINE level == snap.header[snap.round].level
<1>1. /\ pc = "round" /\ pc' = "header" /\ answer.round = snap.round
      /\ answer' = [answer EXCEPT !.level = level]
      /\ db' = db /\ request' = request /\ token' = token /\ always' = always /\ blocks' = blocks
      /\ snap' = snap /\ seen' = seen
  BY Zenon DEF ReadHeader, View, IInv, Reading, Open
<1>2. level \in Nat
  <2>1. snap.round \in Nat /\ snap.header \in [0 .. snap.round -> HeaderRecords]
    BY Zenon DEF IInv, Shape, WellFormed
  <2>2. snap.header[snap.round] \in HeaderRecords
    BY <2>1
  <2> QED BY Zenon, <2>2 DEF HeaderRecords
<1> HIDE DEF level
<1>3. answer \in Answers
  BY Zenon DEF IInv, Shape
<1>4. /\ answer'.status = answer.status /\ answer'.keys = answer.keys
      /\ answer'.deltas = answer.deltas /\ answer'.listed = answer.listed
      /\ answer'.round = answer.round /\ answer'.level = level
  BY <1>1, <1>3 DEF Answers
<1>5. answer' \in Answers'
  BY <1>1, <1>2, <1>3 DEF Answers
<1>6. Seen' = Seen
  BY Zenon, <1>1, <1>4 DEF Seen
<1>7. answer.status = 0 /\ answer.keys = {} /\ answer.deltas = {} /\ answer.listed = {}
  BY Zenon, <1>1 DEF IInv, Reading, Open
<1>8. Shape'
  BY Zenon, <1>1, <1>5 DEF IInv, Shape
<1>9. Reading'
  BY Zenon, <1>1, <1>4, <1>7 DEF IInv, Shape, Reading, Open, level
<1>10. Walk'
  BY Zenon, <1>1, <1>6 DEF IInv, Walk
<1>11. NothingMissed' /\ NoRepeats' /\ PageIsOfItsRound' /\ AccountsWithinLimits'
  BY <1>1, <1>4, <1>7 DEF NothingMissed, NoRepeats, PageIsOfItsRound, AccountsWithinLimits
<1>12. LookupsFind'
  BY <1>4, <1>7 DEF LookupsFind
<1> QED BY Zenon, <1>8, <1>9, <1>10, <1>11, <1>12 DEF IInv

LEMMA CheckResourceLimitInv ==
  ASSUME IInv, CheckResourceLimit
  PROVE  IInv'
<1>1. /\ pc = "header" /\ request.op \in Accounts
      /\ db' = db /\ request' = request /\ token' = token /\ always' = always /\ blocks' = blocks
      /\ snap' = snap /\ seen' = seen
  BY Zenon DEF CheckResourceLimit, IInv, Shape
<1>2. answer \in Answers
  BY Zenon DEF IInv, Shape
<1>3. answer.status = 0 /\ answer.keys = {} /\ answer.deltas = {} /\ answer.listed = {}
  BY Zenon, <1>1 DEF IInv, Reading, Open
<1>4. CASE /\ checkAccountResourceLimit(snap, Options(request, token))
           /\ pc' = "limit" /\ answer' = answer
  <2>1. Answers' = Answers /\ Seen' = Seen
    BY SMTT(60), <1>1, <1>4 DEF Answers, Seen
  <2>2. Shape'
    BY Zenon, <1>1, <1>4, <2>1 DEF IInv, Shape
  <2>3. Reading'
    BY Zenon, <1>1, <1>4 DEF IInv, Reading, Open
  <2>4. Walk'
    BY Zenon, <1>1, <1>4, <2>1 DEF IInv, Walk
  <2>5. NothingMissed' /\ NoRepeats' /\ PageIsOfItsRound' /\ AccountsWithinLimits'
    BY <1>3, <1>4, SMTT(60) DEF NothingMissed, NoRepeats, PageIsOfItsRound, AccountsWithinLimits
  <2>6. LookupsFind'
    BY <1>3, <1>4 DEF LookupsFind
  <2> QED BY Zenon, <2>2, <2>3, <2>4, <2>5, <2>6 DEF IInv
<1>5. CASE pc' = "done" /\ answer' = [answer EXCEPT !.status = 400]
  <2>1. /\ answer'.status = 400 /\ answer'.keys = {} /\ answer'.deltas = {} /\ answer'.listed = {}
    BY <1>2, <1>3, <1>5 DEF Answers
  <2>2. answer' \in Answers'
    BY <1>2, <1>5 DEF Answers
  <2>3. Shape'
    BY Zenon, <1>1, <1>5, <2>2 DEF IInv, Shape
  <2>4. Reading' /\ Walk'
    BY Zenon, <1>5 DEF Reading, Open, Walk
  <2>5. NothingMissed' /\ NoRepeats' /\ PageIsOfItsRound' /\ AccountsWithinLimits'
    BY <2>1, SMTT(60) DEF NothingMissed, NoRepeats, PageIsOfItsRound, AccountsWithinLimits
  <2>6. LookupsFind'
    BY SMTT(60), <2>1 DEF LookupsFind
  <2> QED BY Zenon, <2>3, <2>4, <2>5, <2>6 DEF IInv
<1> QED BY <1>4, <1>5 DEF CheckResourceLimit, View

(* A page and what came before it. *)
LEMMA PageOfWalk ==
  ASSUME IInv, pc = "limit", request.op \in Lists,
         NEW P, P = Page(snap, request, token), NEW keys, keys = P \ LeftOut(request)
  PROVE  /\ keys \in SUBSET Nat /\ P \in SUBSET Nat /\ IsFiniteSet(keys)
         /\ P \subseteq Matches(snap, request)
         /\ \A m \in seen, n \in keys : m < n
         /\ ~Whole(request) => Cardinality(keys) <= MaxLimit
         /\ Whole(request) /\ seen = {} => P = Matches(snap, request)
         /\ P = {} => Headless(request) \/ always \subseteq seen \cup LeftOut(request)
         /\ \A t \in keys : (\A k \in keys : k <= t) =>
              /\ \A k \in seen \cup keys : k <= t
              /\ \A k \in always : k <= t => k \in seen \cup keys \cup LeftOut(request)
<1> DEFINE M == Matches(snap, request)
           N == Beyond(snap, request, token)
<1>1. request \in Requests /\ WellFormed(snap) /\ token \in Optional(Nat) /\ seen \in SUBSET Nat
  BY Zenon DEF IInv, Shape
<1>2. always \subseteq M /\ answer.keys = {} /\ Seen = seen
  BY Zenon DEF IInv, Reading, Open, Seen
<1>3. /\ \A k \in seen : \E t \in token : k <= t
      /\ token # {} => seen # {}
      /\ \A k \in always : (\E t \in token : k <= t) => k \in seen \cup LeftOut(request)
  BY Zenon, <1>2 DEF IInv, Walk
<1>4. /\ M \in SUBSET Nat /\ P \subseteq N /\ IsFiniteSet(P)
      /\ \A k \in N \ P, p \in P : p < k
      /\ N # {} /\ ~Headless(request) => P # {}
      /\ ~Whole(request) => Cardinality(P) <= MaxLimit
      /\ Whole(request) => P = N
  BY Zenon, <1>1, ListPage
<1>5. N = {k \in M : Greater(k, token)}
  BY Zenon DEF Beyond
<1>6. token \subseteq Nat
  BY Zenon, <1>1, OptionalFinite
<1> HIDE DEF M, N
<1>7. \A k \in M : k \in N \/ \E t \in token : k <= t
  <2>1. \A k \in M : Greater(k, token) \/ \E t \in token : k <= t
    BY SMTT(60), <1>4, <1>6 DEF Greater
  <2> QED BY Zenon, <1>5, <2>1
<1>8. keys \subseteq P /\ IsFiniteSet(keys) /\ keys \in SUBSET Nat /\ P \in SUBSET Nat /\ P \subseteq M
  <2>1. keys \subseteq P
    BY Zenon
  <2> QED BY Zenon, <1>4, <1>5, <2>1, FS_Subset
<1>9. \A m \in seen, n \in keys : m < n
  <2> SUFFICES ASSUME NEW m \in seen, NEW n \in keys PROVE m < n
    BY Zenon
  <2>1. PICK t \in token : m <= t
    BY Zenon, <1>3
  <2>2. n > t
    BY Zenon, <1>4, <1>5, <1>8 DEF Greater
  <2>3. m \in Nat /\ n \in Nat /\ t \in Nat
    BY Zenon, <1>1, <1>6, <1>8
  <2> QED BY <2>1, <2>2, <2>3
<1>10. ~Whole(request) => Cardinality(keys) <= MaxLimit
  <2>1. Cardinality(keys) <= Cardinality(P) /\ Cardinality(keys) \in Nat /\ Cardinality(P) \in Nat
    BY Zenon, <1>4, <1>8, FS_Subset, FS_CardinalityType
  <2> QED BY SMTT(60), <1>4, <2>1, LimitsAssumption
<1>11. Whole(request) /\ seen = {} => P = M
  BY Zenon, <1>3, <1>4, <1>5 DEF Greater
<1>12. P = {} => Headless(request) \/ always \subseteq seen \cup LeftOut(request)
  BY Zenon, <1>2, <1>3, <1>4, <1>7 DEF M
<1>13. ASSUME NEW t \in keys, \A k \in keys : k <= t
       PROVE  /\ \A k \in seen \cup keys : k <= t
              /\ \A k \in always : k <= t => k \in seen \cup keys \cup LeftOut(request)
  <2>1. \A k \in seen \cup keys : k <= t
    <3>1. \A k \in seen : k \in Nat /\ t \in Nat /\ k < t
      BY Zenon, <1>1, <1>8, <1>9
    <3> QED BY <1>13, <3>1
  <2>2. ASSUME NEW k \in always, k <= t, k \notin seen \cup keys \cup LeftOut(request) PROVE FALSE
    <3>1. k \in M /\ k \in Nat /\ t \in Nat /\ t \in P
      BY Zenon, <1>2, <1>4, <1>8 DEF M
    <3>2. k \in N
      BY Zenon, <1>3, <1>7, <2>2, <3>1
    <3>3. k \notin P
      BY Zenon, <2>2
    <3>4. t < k
      BY ZenonT(30), <1>4, <3>1, <3>2, <3>3
    <3> QED BY SMTT(60), <2>2, <3>1, <3>4
  <2> QED BY Zenon, <2>1, <2>2
<1> QED BY ZenonT(30), <1>8, <1>9, <1>10, <1>11, <1>12, <1>13 DEF M

(* Pending rewards and totals of the accounts of an answer. *)
LEMMA AccountsOfAnswer ==
  ASSUME IInv, pc = "limit", request.op \in Accounts,
         NEW keys, keys = Keys(request, Rows(snap, request, token))
  PROVE  \A a \in keys :
           /\ rewardsDelta(answer.level, snap.account[a]) \in Int
           /\ rewardsDelta(answer.level, snap.account[a]) >= 0
           /\ MaxResources # 0 => Total(snap, Options(request, token), a) <= MaxResources
<1> DEFINE o == Options(request, token)
<1>1. request \in Requests /\ WellFormed(snap) /\ answer.level \in Nat
  BY SMTT(60) DEF IInv, Shape, Answers
<1>2. answer.level = snap.header[snap.round].level /\ checkAccountResourceLimit(snap, o)
  BY Zenon DEF IInv, Reading, Open
<1>3. /\ o.include \subseteq Kinds /\ o.includeDeleted \in BOOLEAN /\ o.maxResources = MaxResources
      /\ keys \subseteq buildAccountQuery(snap, o)
  BY Zenon, <1>1, OptionsFields
<1> HIDE DEF o
<1> SUFFICES ASSUME NEW a \in keys
             PROVE  /\ rewardsDelta(answer.level, snap.account[a]) \in Int
                    /\ rewardsDelta(answer.level, snap.account[a]) >= 0
                    /\ MaxResources # 0 => Total(snap, o, a) <= MaxResources
  BY Zenon DEF o
<1>4. a \in buildAccountQuery(snap, o)
  BY Zenon, <1>3
<1>5. /\ snap.account[a].base \in Nat /\ snap.account[a].base <= snap.header[snap.round].level
      /\ MaxResources # 0 => Total(snap, o, a) <= MaxResources
  <2> HIDE DEF IInv
  <2> QED BY Zenon, <1>1, <1>2, <1>3, <1>4, AccountChecked
<1> QED BY <1>1, <1>2, <1>5, SMTT(60) DEF rewardsDelta

AnswersWith(listed) ==
    [status : {0, 200, 400, 404, 500}, keys : SUBSET Nat, rows : SUBSET Nat,
     round : Nat, level : Nat, deltas : SUBSET Int, listed : {listed}]

Answered(a, st, k, p, x, m) ==
    [a EXCEPT !.status = st, !.keys = k, !.rows = p, !.deltas = x, !.listed = m]

LEMMA AnswerTyped ==
  ASSUME NEW l, NEW a \in AnswersWith(l), NEW st \in {0, 200, 400, 404, 500}, NEW k \in SUBSET Nat,
         NEW p \in SUBSET Nat, NEW x \in SUBSET Int, NEW m
  PROVE  Answered(a, st, k, p, x, m) \in AnswersWith(m)
<1> DEFINE b == [a EXCEPT !.status = st]
           c == [b EXCEPT !.keys = k]
           d == [c EXCEPT !.rows = p]
           e == [d EXCEPT !.deltas = x]
           f == [e EXCEPT !.listed = m]
<1>1. b \in AnswersWith(l)
  BY DEF AnswersWith
<1>6. Answered(a, st, k, p, x, m) = f
  BY Zenon DEF Answered
<1> HIDE DEF b
<1>2. c \in AnswersWith(l)
  BY <1>1 DEF AnswersWith
<1> HIDE DEF c
<1>3. d \in AnswersWith(l)
  BY <1>2 DEF AnswersWith
<1> HIDE DEF d
<1>4. e \in AnswersWith(l)
  BY <1>3 DEF AnswersWith
<1> HIDE DEF e
<1>5. f \in AnswersWith(m)
  BY <1>4 DEF AnswersWith
<1> QED BY <1>5, <1>6

LEMMA ReadRowsInv ==
  ASSUME IInv, ReadRows
  PROVE  IInv'
<1> DEFINE rows == Rows(snap, request, token)
           keys == Keys(request, rows)
           status == IF request.op \in Lookups THEN LookupStatus(snap, request, rows) ELSE 200
           deltas == IF request.op \in Accounts
                       THEN {rewardsDelta(answer.level, snap.account[a]) : a \in keys} ELSE {}
           listed == IF request.op \in Accounts
                       THEN {Total(snap, Options(request, token), a) : a \in keys} ELSE {}
           P == rows \ {NullName}
<1>1. /\ pc = "limit" /\ token' = NextToken(keys)
      /\ answer' = [answer EXCEPT !.status = status, !.keys = keys, !.rows = P,
                                  !.deltas = deltas, !.listed = listed]
      /\ pc' = IF request.op \in Lookups \/ token' = {} THEN "done" ELSE "idle"
      /\ db' = db /\ request' = request /\ snap' = snap /\ seen' = seen /\ always' = always
      /\ blocks' = blocks
  BY DEF ReadRows, View
<1>2. /\ request \in Requests /\ request.op \in Lists \cup Lookups /\ WellFormed(snap)
      /\ answer \in Answers /\ answer.round = snap.round
  <2>1. request \in Requests
    BY Zenon DEF IInv, Shape
  <2>2. request.op \in Lists \cup Lookups
    BY Zenon, <2>1, RequestsAssumption DEF RequestRecords
  <2> QED BY Zenon, <1>1, <2>1, <2>2 DEF IInv, Shape, Reading, Open
<1>3. /\ deltas \in SUBSET Int /\ \A x \in deltas : x >= 0
      /\ \A n \in listed : MaxResources # 0 => n <= MaxResources
  <2>1. CASE request.op \in Accounts
    BY Zenon, <1>1, <2>1, AccountsOfAnswer
  <2>2. CASE request.op \notin Accounts
    BY Zenon, <2>2
  <2> QED BY Zenon, <2>1, <2>2
<1>4. Lists \cap Lookups = {}
  BY Zenon DEF Lists, Lookups
<1> HIDE DEF deltas, listed
<1>5. CASE request.op \in Lookups
  <2>1. /\ status \in {200, 400, 404, 500} /\ P \in SUBSET Nat
        /\ status \in {200, 404} => (status = 200 <=> Found(snap, request))
    BY <1>2, <1>5, LookupFinds, SMTT(60)
  <2>2. keys = P
    BY Zenon, <1>5 DEF Keys, Lookups
  <2>3. seen = {}
    BY Zenon, <1>1, <1>5 DEF IInv, Walk, Seen
  <2>4. NextToken(keys) \in Optional(Nat)
    <3>1. IsFiniteSet(keys)
      <4> SUFFICES IsFiniteSet(rows)
        BY Zenon, <2>2, FS_Subset
      <4> QED BY Zenon, <1>2, <1>5, LookupRowsFinite
    <3>2. keys # {} => Max(keys) \in Nat
      BY <2>1, <2>2, <3>1, MaxIsGreatest
    <3> QED BY Zenon, <3>2 DEF NextToken, Optional
  <2> HIDE DEF rows, keys, P, status
  <2>5. /\ answer'.status = status /\ answer'.keys = keys /\ answer'.rows = P
        /\ answer'.deltas = deltas /\ answer'.listed = listed
    BY <1>1, <1>2 DEF Answers
  <2>6. answer' \in Answers'
    <3>1. answer \in AnswersWith(answer.listed)
      BY <1>2 DEF Answers, AnswersWith
    <3>2. status \in {0, 200, 400, 404, 500} /\ keys \in SUBSET Nat /\ P \in SUBSET Nat
      BY SMTT(60), <1>1, <1>2, <1>3, <2>1, <2>2
    <3>3. answer' \in AnswersWith(listed)
      <4>1. Answered(answer, status, keys, P, deltas, listed) \in AnswersWith(listed)
        BY <1>3, <3>1, <3>2, AnswerTyped, SMTT(60)
      <4>2. answer' = Answered(answer, status, keys, P, deltas, listed)
        BY Zenon, <1>1 DEF Answered
      <4> QED BY Zenon, <4>1, <4>2
    <3>4. AnswersWith(listed) = Answers'
      BY <2>5 DEF Answers, AnswersWith
    <3> QED BY Zenon, <3>3, <3>4
  <2>7. pc' = "done"
    BY Zenon, <1>1, <1>5
  <2>8. Shape'
    BY Zenon, <1>1, <2>4, <2>6, <2>7 DEF IInv, Shape
  <2>9. Reading' /\ Walk'
    BY Zenon, <2>7 DEF Reading, Open, Walk
  <2>10. NothingMissed' /\ NoRepeats' /\ PageIsOfItsRound'
    BY Zenon, <1>1, <1>5, <2>3 DEF NothingMissed, NoRepeats, PageIsOfItsRound
  <2>11. AccountsWithinLimits'
    BY Zenon, <1>3, <2>5 DEF AccountsWithinLimits
  <2>12. LookupsFind'
    <3>1. /\ Found(snap, request)' <=> Found(snap, request)
          /\ answer'.status = status /\ request' = request /\ snap' = snap
      BY Zenon, <1>1, <2>5
    <3>2. LookupsFind' <=> ((request'.op \in Lookups /\ answer'.status \in {200, 404}) =>
                              (answer'.status = 200 <=> Found(snap, request)'))
      BY Zenon DEF LookupsFind, Found
    <3> QED BY <2>1, <3>1, <3>2
  <2> QED BY Zenon, <2>8, <2>9, <2>10, <2>11, <2>12 DEF IInv
<1>6. CASE request.op \in Lists
  <2>1. status = 200 /\ request.op \notin Lookups
    BY Zenon, <1>4, <1>6
  <2>2. P = Page(snap, request, token) /\ keys = P \ LeftOut(request)
    BY Zenon, <1>2, <1>6, KeysOfPage DEF Page
  <2> HIDE DEF rows, keys, P, status
  <2>3. /\ keys \in SUBSET Nat /\ P \in SUBSET Nat /\ IsFiniteSet(keys)
        /\ P \subseteq Matches(snap, request)
        /\ \A m \in seen, n \in keys : m < n
        /\ ~Whole(request) => Cardinality(keys) <= MaxLimit
        /\ Whole(request) /\ seen = {} => P = Matches(snap, request)
        /\ P = {} => Headless(request) \/ always \subseteq seen \cup LeftOut(request)
        /\ \A t \in keys : (\A k \in keys : k <= t) =>
             /\ \A k \in seen \cup keys : k <= t
             /\ \A k \in always : k <= t => k \in seen \cup keys \cup LeftOut(request)
    BY <1>1, <1>6, <2>2, PageOfWalk
  <2>4. /\ answer'.status = 200 /\ answer'.keys = keys /\ answer'.rows = P
        /\ answer'.deltas = deltas /\ answer'.listed = listed /\ answer'.round = snap.round
    BY <1>1, <1>2, <2>1 DEF Answers
  <2>5. answer' \in Answers'
    <3>1. answer \in AnswersWith(answer.listed)
      BY ZenonT(30), <1>2 DEF Answers, AnswersWith
    <3>2. status \in {0, 200, 400, 404, 500} /\ keys \in SUBSET Nat /\ P \in SUBSET Nat
      BY SMTT(60), <1>1, <1>2, <1>3, <2>1, <2>3
    <3>3. answer' \in AnswersWith(listed)
      <4>1. Answered(answer, status, keys, P, deltas, listed) \in AnswersWith(listed)
        BY <1>3, <3>1, <3>2, AnswerTyped, SMTT(60)
      <4>2. answer' = Answered(answer, status, keys, P, deltas, listed)
        BY Zenon, <1>1 DEF Answered
      <4> QED BY Zenon, <4>1, <4>2
    <3>4. AnswersWith(listed) = Answers'
      BY <2>4 DEF Answers, AnswersWith
    <3> QED BY Zenon, <3>3, <3>4
  <2>6. /\ keys # {} => /\ Max(keys) \in keys /\ \A k \in keys : k <= Max(keys)
                        /\ token' = {Max(keys)} /\ pc' = "idle"
        /\ keys = {} => token' = {} /\ pc' = "done"
    <3>1. keys # {} => Max(keys) \in keys /\ \A k \in keys : k <= Max(keys)
      BY Zenon, <2>3, MaxIsGreatest
    <3> QED BY Zenon, <1>1, <2>1, <3>1 DEF NextToken
  <2>7. token' \in Optional(Nat) /\ pc' \in {"idle", "done"}
    BY Zenon, <2>3, <2>6 DEF Optional
  <2>8. Shape'
    BY Zenon, <1>1, <2>5, <2>7 DEF IInv, Shape
  <2>9. Reading'
    BY Zenon, <2>7 DEF Reading, Open
  <2>10. Seen' = seen \cup keys
    BY Zenon, <1>1, <2>4 DEF Seen
  <2>11. Walk'
    <3>1. CASE keys = {}
      BY Zenon, <2>6, <3>1 DEF Walk
    <3>2. CASE keys # {}
      <4> DEFINE t == Max(keys)
      <4>1. /\ \A k \in seen \cup keys : k <= t
            /\ \A k \in always : k <= t => k \in seen \cup keys \cup LeftOut(request)
            /\ token' = {t}
        BY Zenon, <2>3, <2>6, <3>2
      <4> HIDE DEF t
      <4>2. LeftOut(request') = LeftOut(request)
        BY Zenon, <1>1
      <4> QED BY Zenon, <1>1, <2>1, <2>10, <3>2, <4>1, <4>2 DEF Walk
    <3> QED BY Zenon, <3>1, <3>2
  <2>12. NoRepeats'
    BY Zenon, <1>1, <2>3, <2>4 DEF NoRepeats
  <2>13. NothingMissed'
    <3>1. CASE keys # {}
      BY Zenon, <2>6, <3>1 DEF NothingMissed
    <3>2. CASE keys = {} /\ P # {}
      BY Zenon, <2>4, <3>2 DEF NothingMissed, CutShort
    <3>3. CASE keys = {} /\ P = {}
      <4>1. Headless(request) \/ always \subseteq seen \cup LeftOut(request)
        BY Zenon, <2>3, <3>3
      <4>2. LeftOut(request) = {} \/ (LeftOut(request) = Special /\ request.rewind)
        BY Zenon DEF LeftOut
      <4>3. Seen' = seen
        BY Zenon, <2>10, <3>3
      <4>4. CASE Headless(request)
        BY Zenon, <1>1, <4>4 DEF NothingMissed, Headless
      <4>5. CASE always \subseteq seen \cup LeftOut(request)
        <5>1. IF request.rewind THEN always \ Special \subseteq seen ELSE always \subseteq seen
          BY Zenon, <4>2, <4>5
        <5> QED BY Zenon, <1>1, <4>3, <5>1 DEF NothingMissed
      <4> QED BY Zenon, <4>1, <4>4, <4>5
    <3> QED BY Zenon, <3>1, <3>2, <3>3
  <2>14. PageIsOfItsRound'
    <3>1. keys \subseteq Matches(snap, request)
      BY Zenon, <2>2, <2>3
    <3>2. (request.limit # {0} \/ request.op = "SearchForBlockHeaders") =>
            Cardinality(keys) <= MaxLimit
      BY Zenon, <2>3 DEF Whole
    <3>3. (/\ request.limit = {0} /\ request.op # "SearchForBlockHeaders"
           /\ seen = {} /\ ~request.rewind) => keys = Matches(snap, request)
      BY Zenon, <2>2, <2>3 DEF Whole, LeftOut
    <3> QED BY Zenon, <1>1, <2>4, <3>1, <3>2, <3>3 DEF PageIsOfItsRound
  <2>15. AccountsWithinLimits'
    BY Zenon, <1>3, <2>4 DEF AccountsWithinLimits
  <2>16. LookupsFind'
    BY Zenon, <1>1, <2>1 DEF LookupsFind
  <2> QED BY Zenon, <2>8, <2>9, <2>11, <2>12, <2>13, <2>14, <2>15, <2>16 DEF IInv
<1> QED BY Zenon, <1>2, <1>5, <1>6

LEMMA NextInv ==
  ASSUME IInv, [Next]_vars
  PROVE  IInv'
<1>1. CASE GetMaxRoundAccounted
  BY Zenon, <1>1, GetMaxRoundInv
<1>2. CASE ReadHeader
  BY ZenonT(30), <1>2, ReadHeaderInv
<1>3. CASE CheckResourceLimit
  BY Zenon, <1>3, CheckResourceLimitInv
<1>4. CASE ReadRows
  BY Zenon, <1>4, ReadRowsInv
<1>5. CASE Import
  BY Zenon, <1>5, ImportInv
<1>6. CASE UNCHANGED vars
  <2>1. /\ db' = db /\ request' = request /\ token' = token /\ pc' = pc /\ snap' = snap
        /\ answer' = answer /\ seen' = seen /\ always' = always /\ blocks' = blocks
    BY ZenonT(30), <1>6 DEF vars
  <2>2. Shape' /\ Reading' /\ Walk'
    BY <2>1, SMTT(60) DEF IInv, Shape, Answers, Reading, Open, Walk, Seen
  <2>3. NoRepeats' /\ NothingMissed' /\ AccountsWithinLimits' /\ PageIsOfItsRound'
    BY Zenon, <2>1 DEF IInv, NoRepeats, NothingMissed, CutShort, Seen, AccountsWithinLimits, PageIsOfItsRound
  <2>4. LookupsFind'
    BY <2>1, ZenonT(60) DEF IInv, LookupsFind
  <2> QED BY Zenon, <2>2, <2>3, <2>4 DEF IInv
<1> QED BY ZenonT(30), <1>1, <1>2, <1>3, <1>4, <1>5, <1>6 DEF Next, Serve

(* The inductive invariant holds throughout. *)
LEMMA Invariance == Spec => []IInv
<1>1. IInv /\ [Next]_vars => IInv'
  BY Zenon, NextInv
<1> QED BY InitInv, <1>1, PTL DEF Spec

(* Whatever matches a request throughout a walk over its pages is returned, *)
(* whatever blocks are imported between the pages and between the          *)
(* statements of each (fetchAccounts, fetchAssets, ... and the handlers).  *)
THEOREM WalksMissNothing == Spec => []NothingMissed
BY Invariance, PTL DEF IInv

(* No page repeats a key of an earlier one, or goes back behind it: the    *)
(* next token is the greatest key of its page.                             *)
THEOREM PagesDoNotRepeat == Spec => []NoRepeats
BY Invariance, PTL DEF IInv

(* Every page is of the round it names, no longer than the maximum, and    *)
(* the whole list when no limit was asked for.                             *)
THEOREM PagesAreOfTheirRound == Spec => []PageIsOfItsRound
BY Invariance, PTL DEF IInv

(* A look-up finds what exists in its round and nothing else. *)
THEOREM LookupsAreRight == Spec => []LookupsFind
BY Invariance, PTL DEF IInv

(* checkAccountResourceLimit bounds what is shown of an account, and        *)
(* pending rewards are never negative.                                     *)
THEOREM AccountsAreWithinLimits == Spec => []AccountsWithinLimits
BY Invariance, PTL DEF IInv

(* The types of the client's and the handler's state. *)
THEOREM TypeCorrect == Spec => []TypeOK
<1>1. IInv => TypeOK
  <2> SUFFICES ASSUME IInv PROVE TypeOK
    BY Zenon
  <2>1. /\ request \in RequestRecords /\ token \in Optional(Nat) /\ WellFormed(db)
        /\ blocks \in 0 .. MaxBlocks /\ pc \in {"idle", "round", "header", "limit", "done"}
        /\ answer.status \in {0, 200, 400, 404, 500}
    BY SMTT(60), RequestsAssumption DEF IInv, Shape, Answers
  <2>2. DOMAIN request = DOMAIN Blank
    BY ZenonT(30), <2>1 DEF RequestRecords, Blank
  <2>3. Cardinality(token) <= 1
    <3>1. \A x, y \in token : x = y
      BY ZenonT(30), <2>1 DEF Optional
    <3>2. CASE token = {}
      BY <3>2, FS_EmptySet
    <3>3. ASSUME NEW t \in token PROVE Cardinality(token) <= 1
      <4>1. token = {t}
        BY Zenon, <3>1
      <4>2. Cardinality({t}) = 1
        BY Zenon, FS_Singleton
      <4> QED BY <4>1, <4>2
    <3> QED BY Zenon, <3>2, <3>3
  <2>4. db.round \in Nat /\ DOMAIN db.header = 0 .. db.round
    BY ZenonT(30), <2>1 DEF WellFormed
  <2> QED BY <2>1, <2>2, <2>3, <2>4 DEF TypeOK
<1> QED BY Invariance, <1>1, PTL
===============================================================================
