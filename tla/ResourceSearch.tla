---------------------------- MODULE ResourceSearch ----------------------------
(***************************************************************************)
(* A client that reads a whole list by following next tokens, or looks one *)
(* thing up, while blocks are imported: the handlers of api/handlers.go    *)
(* for accounts, assets, balances, holdings, applications, local states,   *)
(* boxes and block headers, and the read transactions behind them.         *)
(*                                                                         *)
(* A handler's query runs in one repeatable read transaction of several    *)
(* statements: the round, for accounts the header of that round and the    *)
(* check of the resource limit, and the rows.                              *)
(***************************************************************************)
EXTENDS ResourceQueries

CONSTANTS
    Requests,       \* the requests a client may make, records like Blank
    Databases,      \* the databases it may find, for each operation
    Touched,        \* the tables that blocks change, for each operation,
    TouchedIds,     \* and the ids of the rows they change
    AccountRows, HoldingRows, AssetRows, AppRows, LocalRows, \* live rows a block may write
    Headers,        \* headers it may have, for each operation
    DefaultLimit, MaxLimit, \* the limits of ExtraOptions
    MaxResources,   \* MaxAPIResourcesPerAccount
    MaxTransactions,\* MaxTransactionsLimit
    Special,        \* addresses that cannot be rewound
    MaxBlocks       \* bound on the blocks imported meanwhile

VARIABLES
    db,      \* the committed tables
    request, \* what the client asks for
    token,   \* the next token of the coming page, none or one
    pc,      \* where the handler is: "idle", "begun", "round", "limit" or "done"
    snap,    \* the snapshot of the handler's transaction
    answer,  \* the last answer, or the part of it that was read
    seen,    \* the keys of the pages before the last
    always,  \* the keys that matched the request ever since it began
    blocks

vars == <<db, request, token, pc, snap, answer, seen, always, blocks>>

Blank ==
    [op |-> "", limit |-> {}, all |-> FALSE, addr |-> {}, id |-> {}, app |-> {}, gt |-> {},
     lt |-> {}, auth |-> {}, online |-> FALSE, exclude |-> {}, rewind |-> FALSE, name |-> {},
     unit |-> {},
     min |-> {}, max |-> {}, after |-> {}, before |-> {}, proposers |-> {}, expired |-> {},
     absent |-> {}, headerOnly |-> FALSE]

Lists == {"SearchForAccounts", "SearchForAssets", "SearchForApplications",
          "LookupAccountAssets", "LookupAccountAppLocalStates", "LookupAssetBalances",
          "SearchForApplicationBoxes", "SearchForBlockHeaders"}
Lookups == {"LookupAccountByID", "LookupAssetByID", "LookupApplicationByID",
            "LookupApplicationBoxByIDAndName", "LookupBlock"}
Accounts == {"SearchForAccounts", "LookupAccountByID"}

(* A parameter is missing or has one value; those of the path are there. *)
Optional(S) == {s \in SUBSET S : \A x, y \in s : x = y}

RequestRecords ==
    [op : Lists \cup Lookups, limit : Optional(Nat), all : BOOLEAN, addr : Optional(Addrs),
     id : Optional(Nat), app : Optional(Ids), gt : Optional(Nat), lt : Optional(Nat),
     auth : Optional(Nat), online : BOOLEAN, exclude : SUBSET Kinds, rewind : BOOLEAN,
     name : Optional(Nat), unit : Optional(Nat), min : Optional(Nat), max : Optional(Nat),
     after : Optional(Nat), before : Optional(Nat), proposers : SUBSET Nat,
     expired : SUBSET Nat, absent : SUBSET Nat, headerOnly : BOOLEAN]

ASSUME RequestsAssumption ==
    \A r \in Requests :
      /\ r \in RequestRecords
      /\ r.op # "LookupBlock" => r.id \subseteq Ids
      /\ r.op \in {"LookupAccountByID", "LookupAccountAssets", "LookupAccountAppLocalStates"} =>
           r.addr # {}
      /\ r.op \in {"LookupAssetByID", "LookupApplicationByID", "LookupAssetBalances",
                   "SearchForApplicationBoxes", "LookupApplicationBoxByIDAndName",
                   "LookupBlock"} => r.id # {}
      /\ r.op = "LookupApplicationBoxByIDAndName" => r.name # {} /\ r.name \subseteq Names \cup {0}

ASSUME DatabasesAssumption ==
    \A r \in Requests :
      /\ \A d \in Databases[r.op] : WellFormed(d)
      /\ TouchedIds[r.op] \subseteq Ids /\ Headers[r.op] \subseteq HeaderRecords

ASSUME RowsAssumption ==
    /\ AccountRows \subseteq AccountRecords /\ HoldingRows \subseteq HoldingRecords
    /\ AssetRows \subseteq AssetRecords /\ AppRows \subseteq AppRecords
    /\ LocalRows \subseteq LocalRecords

(* Limits of 0, which mean no limit or no rows, are asked for and not set. *)
ASSUME LimitsAssumption ==
    /\ DefaultLimit \in Nat \ {0} /\ MaxLimit \in Nat \ {0}
    /\ MaxResources \in Nat /\ MaxTransactions \in Nat /\ MaxBlocks \in Nat

The(opt) == CHOOSE v \in opt : TRUE
uintOrDefaultValue(opt, value) == IF opt = {} THEN value ELSE The(opt)

(* min(uintOrDefaultValue(params.Limit, Default...), Max...) *)
PageLimit(r) == LET n == uintOrDefaultValue(r.limit, DefaultLimit)
                IN  IF n < MaxLimit THEN n ELSE MaxLimit

-----------------------------------------------------------------------------
(* The options each handler builds. *)
AccountOptions(r, next) ==
    [include |-> Kinds \ r.exclude, limit |-> PageLimit(r),
     hasAssetID |-> r.id, hasAppID |-> r.app, equalToAuthAddr |-> r.auth,
     includeDeleted |-> r.all, maxResources |-> MaxResources, onlineOnly |-> r.online,
     algosGT |-> IF r.id = {} THEN r.gt ELSE {}, algosLT |-> IF r.id = {} THEN r.lt ELSE {},
     assetGT |-> IF r.id = {} THEN {} ELSE r.gt, assetLT |-> IF r.id = {} THEN {} ELSE r.lt,
     greaterThanAddress |-> next, equalToAddress |-> {}]

AccountByIDOptions(r) ==
    [include |-> Kinds \ r.exclude, limit |-> 1,
     hasAssetID |-> {}, hasAppID |-> {}, equalToAuthAddr |-> {},
     includeDeleted |-> r.all, maxResources |-> MaxResources, onlineOnly |-> FALSE,
     algosGT |-> {}, algosLT |-> {}, assetGT |-> {}, assetLT |-> {},
     greaterThanAddress |-> {}, equalToAddress |-> r.addr]

assetParamsToAssetQuery(r, next) ==
    [id |-> r.id, greaterThan |-> next, creator |-> r.addr, name |-> r.name,
     unit |-> r.unit, query |-> {}, includeDeleted |-> r.all, limit |-> PageLimit(r)]

appParamsToApplicationQuery(r, next) ==
    [id |-> r.id, greaterThan |-> next, creator |-> r.addr,
     includeDeleted |-> r.all, limit |-> PageLimit(r)]

ApplicationByIDQuery(r) ==
    [id |-> r.id, greaterThan |-> {}, creator |-> {}, includeDeleted |-> r.all, limit |-> 1]

(* Mutant: the page of holdings starts over at the first asset. *)
HoldingsQueryNoNext(r, next) ==
    [address |-> r.addr, prevAddress |-> {}, id |-> r.id, idGT |-> {},
     amountGT |-> {}, amountLT |-> {}, includeDeleted |-> r.all, limit |-> PageLimit(r)]

HoldingsQuery(r, next) ==
    [address |-> r.addr, prevAddress |-> {}, id |-> r.id, idGT |-> next,
     amountGT |-> {}, amountLT |-> {}, includeDeleted |-> r.all, limit |-> PageLimit(r)]

BalancesQuery(r, next) ==
    [address |-> {}, prevAddress |-> next, id |-> r.id, idGT |-> {},
     amountGT |-> r.gt, amountLT |-> r.lt, includeDeleted |-> r.all, limit |-> PageLimit(r)]

BoxesQuery(r, next) ==
    [app |-> The(r.id), boxName |-> {}, prevFinalBox |-> next, limit |-> PageLimit(r)]

BoxByNameQuery(r) ==
    [app |-> The(r.id), boxName |-> r.name, prevFinalBox |-> {}, limit |-> 0]

(* blockParamsToBlockFilter: the token moves min-round up. *)
blockParamsToBlockFilter(r, next) ==
    [limit |-> PageLimit(r), maxRound |-> r.max,
     minRound |-> LET low == r.min \cup {n + 1 : n \in next}
                  IN  IF low = {} THEN {} ELSE {Max(low)},
     afterTime |-> r.after, beforeTime |-> r.before,
     proposers |-> r.proposers, expired |-> r.expired, absent |-> r.absent]

(* The keys of the rows that the database sends for a request. *)
Rows(d, r, next) ==
    CASE r.op = "SearchForAccounts" -> buildAccountQuery(d, AccountOptions(r, next))
      [] r.op = "LookupAccountByID" -> buildAccountQuery(d, AccountByIDOptions(r))
      [] r.op = "SearchForAssets" -> Assets(d, assetParamsToAssetQuery(r, next))
      [] r.op = "LookupAssetByID" ->
           Assets(d, assetParamsToAssetQuery([Blank EXCEPT !.id = r.id, !.limit = {1}, !.all = r.all], {}))
      [] r.op = "SearchForApplications" -> Applications(d, appParamsToApplicationQuery(r, next))
      [] r.op = "LookupApplicationByID" -> Applications(d, ApplicationByIDQuery(r))
      [] r.op = "LookupAccountAppLocalStates" ->
           AppLocalState(d, appParamsToApplicationQuery(r, next))
      [] r.op = "LookupAccountAssets" ->
           {row[2] : row \in AssetBalances(d, HoldingsQuery(r, next))}
      [] r.op = "LookupAssetBalances" ->
           {row[1] : row \in AssetBalances(d, BalancesQuery(r, next))}
      [] r.op = "SearchForApplicationBoxes" -> ApplicationBoxes(d, BoxesQuery(r, next))
      [] r.op = "LookupApplicationBoxByIDAndName" -> ApplicationBoxes(d, BoxByNameQuery(r))
      [] r.op = "SearchForBlockHeaders" -> BlockHeaders(d, blockParamsToBlockFilter(r, next))
      [] r.op = "LookupBlock" ->
           IF GetBlock(d, The(r.id), ~r.headerOnly, MaxTransactions) = "found" THEN r.id ELSE {}

-----------------------------------------------------------------------------
(* What the handlers make of the rows. *)
NoAnswer == [status |-> 0, keys |-> {}, rows |-> {}, round |-> 0, level |-> 0,
             deltas |-> {}, listed |-> {}]

(* fetchAccounts skips accounts that cannot be rewound, in a search. *)
Keys(r, rows) ==
    IF r.op = "SearchForAccounts" /\ r.rewind THEN rows \ Special ELSE rows \ {NullName}

(* Mutant: the name of the box that was found is not compared. *)
LookupStatusAnyRow(d, r, rows) == IF rows = {} THEN 404 ELSE 200

(* The status of a look-up. A box is looked up by its name, which the      *)
(* parameter may leave empty (0); the null row stands for no box.          *)
LookupStatus(d, r, rows) ==
    CASE r.op = "LookupAccountByID" /\ r.rewind /\ rows \cap Special # {} -> 500
      [] r.op = "LookupApplicationBoxByIDAndName" ->
           IF rows = {} \/ (rows = {NullName} /\ r.name # {0}) THEN 404 ELSE 200
      [] r.op = "LookupBlock" ->
           CASE GetBlock(d, The(r.id), ~r.headerOnly, MaxTransactions) = "ErrorBlockNotFound" -> 404
             [] GetBlock(d, The(r.id), ~r.headerOnly, MaxTransactions) = "MaxTransactionsError" -> 400
             [] OTHER -> 200
      [] OTHER -> CASE rows = {} -> 404
                    [] Cardinality(rows) = 1 -> 200
                    [] OTHER -> 500

(* Mutant: the token is the first key of the page. *)
NextTokenFirst(keys) == IF keys = {} THEN {} ELSE {Min(keys)}

(* The key of the last element, if there is one. *)
NextToken(keys) == IF keys = {} THEN {} ELSE {Max(keys)}

Options(r, next) ==
    IF r.op = "SearchForAccounts" THEN AccountOptions(r, next) ELSE AccountByIDOptions(r)

Total(d, o, a) == SumOver([k \in o.include |-> Cardinality(Listed(d, o, a)[k])])

-----------------------------------------------------------------------------
(* What a request asks for, without pages: the reference for the walk. *)
Matches(d, r) ==
    IF r.op = "SearchForBlockHeaders"
      THEN {n \in 0 .. d.round :
              /\ \A m \in r.min : n >= m
              /\ \A m \in r.max : n <= m
              /\ \A t \in r.after : d.header[n].time > t
              /\ \A t \in r.before : d.header[n].time < t
              /\ r.proposers # {} => d.header[n].proposer \in r.proposers
              /\ r.expired # {} => d.header[n].expired \cap r.expired # {}
              /\ r.absent # {} => d.header[n].absent \cap r.absent # {}}
      ELSE Rows(d, [r EXCEPT !.limit = {0}], {}) \ {NullName}

Init ==
    /\ request \in Requests
    /\ db \in Databases[request.op]
    /\ token = {} /\ pc = "idle" /\ snap = db /\ answer = NoAnswer /\ seen = {}
    /\ always = Matches(db, request)
    /\ blocks = 0

(* Mutant: the transaction reads what is committed when a statement runs. *)
ViewReadCommitted == db

(* readonlyRepeatableRead: every statement reads the snapshot. *)
View == snap

(* BeginTx; the snapshot is taken by the first statement, the round. *)
GetMaxRoundAccounted ==
    /\ pc = "idle"
    /\ snap' = db
    /\ answer' = [NoAnswer EXCEPT !.round = db.round]
    /\ seen' = seen \cup answer.keys
    /\ pc' = IF request.op \in Accounts THEN "round" ELSE "limit"
    /\ UNCHANGED <<db, request, token, always, blocks>>

(* GetAccounts reads the header of the round it read. *)
ReadHeader ==
    /\ pc = "round"
    /\ answer' = [answer EXCEPT !.level = View.header[answer.round].level]
    /\ pc' = "header"
    /\ UNCHANGED <<db, request, token, snap, seen, always, blocks>>

(* The error answer of checkAccountResourceLimit ends the walk. *)
CheckResourceLimit ==
    /\ pc = "header"
    /\ IF checkAccountResourceLimit(View, Options(request, token))
         THEN pc' = "limit" /\ UNCHANGED answer
         ELSE pc' = "done" /\ answer' = [answer EXCEPT !.status = 400]
    /\ UNCHANGED <<db, request, token, snap, seen, always, blocks>>

(* The rows are read and answered; a client that got a token asks for the  *)
(* page after it.                                                          *)
ReadRows ==
    /\ pc = "limit"
    /\ \E rows \in {Rows(View, request, token)} : \E keys \in {Keys(request, rows)} :
         /\ answer' =
              [answer EXCEPT
                !.status = IF request.op \in Lookups THEN LookupStatus(View, request, rows) ELSE 200,
                !.keys = keys, !.rows = rows \ {NullName},
                !.deltas = IF request.op \in Accounts
                             THEN {rewardsDelta(answer.level, View.account[a]) : a \in keys} ELSE {},
                !.listed = IF request.op \in Accounts
                             THEN {Total(View, Options(request, token), a) : a \in keys} ELSE {}]
         /\ token' = NextToken(keys)
         /\ pc' = IF request.op \in Lookups \/ token' = {} THEN "done" ELSE "idle"
    /\ UNCHANGED <<db, request, snap, seen, always, blocks>>

(* A block commits. Timestamps never go back. *)
Commit(table, d) ==
    LET last == db.header[db.round] IN
    /\ table \in Touched[request.op]
    /\ blocks < MaxBlocks /\ pc # "done"
    /\ blocks' = blocks + 1
    /\ \E h \in Headers[request.op] :
         /\ h.time >= last.time
         /\ db' = AddHeader(WithTotals(d), [h EXCEPT !.level = last.level + 1])
    /\ always' = always \cap Matches(db', request)
    /\ UNCHANGED <<request, token, pc, snap, answer, seen>>

ImportHeader == Commit("header", db)

ImportAccount ==
    \E a \in Addrs :
      \/ \E row \in AccountRows : Commit("account", WriteAccount(db, a, row))
      \/ /\ db.account[a] # None /\ db.account[a].st = "live" /\ Closable(db, a)
         /\ Commit("account", [db EXCEPT !.account[a] = DeletedAccount(@)])

ImportHolding ==
    \E a \in Addrs, i \in TouchedIds[request.op] :
      /\ db.account[a] # None /\ db.account[a].st = "live"
      /\ \/ \E row \in HoldingRows : Commit("holding", [db EXCEPT !.holding[a][i] = row])
         \/ /\ db.holding[a][i] # None /\ db.holding[a][i].st = "live"
            /\ Commit("holding", [db EXCEPT !.holding[a][i] = DeletedHolding(@)])

ImportLocal ==
    \E a \in Addrs, i \in TouchedIds[request.op] :
      /\ db.account[a] # None /\ db.account[a].st = "live"
      /\ \/ \E row \in LocalRows : Commit("local", [db EXCEPT !.local[a][i] = row])
         \/ /\ db.local[a][i] # None /\ db.local[a][i].st = "live"
            /\ Commit("local", [db EXCEPT !.local[a][i] = Deleted(@)])

(* Assets and applications keep their creator, and their ids are not used  *)
(* again.                                                                  *)
ImportAsset ==
    \E i \in TouchedIds[request.op] :
      \/ /\ db.asset[i] = None
         /\ \E row \in AssetRows : Commit("asset", [db EXCEPT !.asset[i] = row])
      \/ /\ db.asset[i] # None /\ db.asset[i].st = "live"
         /\ Commit("asset", [db EXCEPT !.asset[i] = DeletedAsset(@)])

ImportApp ==
    \E i \in TouchedIds[request.op] :
      \/ /\ db.app[i] = None
         /\ \E row \in AppRows : Commit("app", [db EXCEPT !.app[i] = row])
      \/ /\ db.app[i] # None /\ db.app[i].st = "live"
         /\ Commit("app", [db EXCEPT !.app[i] = Deleted(@)])

ImportBox ==
    \E i \in TouchedIds[request.op], n \in Names :
      \/ /\ db.app[i] # None /\ db.app[i].st = "live" /\ <<i, n>> \notin db.box
         /\ Commit("box", [db EXCEPT !.box = @ \cup {<<i, n>>}])
      \/ /\ <<i, n>> \in db.box
         /\ Commit("box", [db EXCEPT !.box = @ \ {<<i, n>>}])

Import == \/ ImportHeader \/ ImportAccount \/ ImportHolding \/ ImportLocal
          \/ ImportAsset \/ ImportApp \/ ImportBox

Serve == GetMaxRoundAccounted \/ ReadHeader \/ CheckResourceLimit \/ ReadRows

Next == Serve \/ Import

Spec == Init /\ [][Next]_vars

(* The handler and the client go on. *)
FairSpec == Spec /\ WF_vars(Serve)

-----------------------------------------------------------------------------
(* The one type invariant. *)
TypeOK ==
    /\ DOMAIN request = DOMAIN Blank /\ Cardinality(token) <= 1
    /\ pc \in {"idle", "round", "header", "limit", "done"}
    /\ answer.status \in {0, 200, 400, 404, 500}
    /\ db.round \in Nat /\ DOMAIN db.header = 0 .. db.round
    /\ blocks \in 0 .. MaxBlocks

Seen == seen \cup answer.keys

(* A page that the database filled but the handler emptied: a search that  *)
(* rewinds found only accounts that cannot be rewound.                     *)
CutShort == answer.rows # {} /\ answer.keys = {}

(* Paging: whatever matches the request throughout the walk is returned,   *)
(* although rows appear, change and disappear between the pages. The walk  *)
(* ends before the rows do only when a page holds nothing but accounts     *)
(* that cannot be rewound, and block headers with limit 0 are none.        *)
NothingMissed ==
    (pc = "done" /\ answer.status = 200 /\ request.op \notin Lookups) =>
      \/ CutShort
      \/ request.op = "SearchForBlockHeaders" /\ request.limit = {0}
      \/ IF request.rewind THEN always \ Special \subseteq Seen ELSE always \subseteq Seen

(* No page repeats a key of an earlier one, or goes back behind it. *)
NoRepeats == \A m \in seen, n \in answer.keys : m < n

(* Every page is the state of the round it names, whatever commits between *)
(* the statements of the handler's transaction, and is no longer than the  *)
(* configured maximum; limit 0 lifts the maximum except for block headers, *)
(* and the first page is then the whole list.                              *)
PageIsOfItsRound ==
    (answer.status = 200 /\ request.op \notin Lookups) =>
      /\ answer.round = snap.round
      /\ answer.keys \subseteq Matches(snap, request)
      /\ (request.limit # {0} \/ request.op = "SearchForBlockHeaders") =>
           Cardinality(answer.keys) <= MaxLimit
      /\ (/\ request.limit = {0} /\ request.op # "SearchForBlockHeaders"
          /\ seen = {} /\ ~request.rewind) =>
           answer.keys = Matches(snap, request)

(* An account is not shown with more lists' entries than the limit allows: *)
(* the totals or counts checked are those of the rows read afterwards. And *)
(* pending rewards, a difference of unsigned numbers, never wrap: no       *)
(* account was written in a round later than the header's.                 *)
AccountsWithinLimits ==
    /\ \A n \in answer.listed : MaxResources # 0 => n <= MaxResources
    /\ \A x \in answer.deltas : x >= 0

(* A look-up finds what exists in its round and nothing else, however the  *)
(* statements of its query join the tables. An empty box name is found in  *)
(* every application.                                                      *)
LookupsFind ==
    (request.op \in Lookups /\ answer.status \in {200, 404}) =>
      (answer.status = 200 <=>
             CASE request.op = "LookupAccountByID" ->
                    Shown(snap.account[The(request.addr)], request.all)
               [] request.op = "LookupAssetByID" -> Shown(snap.asset[The(request.id)], request.all)
               [] request.op = "LookupApplicationByID" ->
                    Shown(snap.app[The(request.id)], request.all)
               [] request.op = "LookupApplicationBoxByIDAndName" ->
                    /\ snap.app[The(request.id)] # None
                    /\ request.name = {0} \/ <<The(request.id), The(request.name)>> \in snap.box
               [] request.op = "LookupBlock" ->
                    /\ The(request.id) <= snap.round
                    /\ request.headerOnly \/ snap.header[The(request.id)].txns <= MaxTransactions)

(* Following the tokens comes to an end. *)
WalkEnds == <>(pc = "done")
=============================================================================
