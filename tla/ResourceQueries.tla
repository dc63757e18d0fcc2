---------------------------- MODULE ResourceQueries ----------------------------
(***************************************************************************)
(* The queries of idb/postgres behind the list and look-up endpoints other *)
(* than transactions. A query is the set of keys its rows have, since the  *)
(* rows are ordered by that key; LIMIT keeps the first ones. An optional   *)
(* option is a set of at most one value.                                   *)
(***************************************************************************)
EXTENDS ResourceTables

(* The first n keys in ascending order. *)
First(keys, n) == {k \in keys : Cardinality({j \in keys : j < k}) < n}

(* LIMIT is left out of the text of a query when it is 0. *)
Limited(keys, n) == IF n = 0 THEN keys ELSE First(keys, n)

Shown(row, includeDeleted) == row # None /\ (includeDeleted \/ row.st = "live")

Greater(x, opt) == \A y \in opt : x > y
Less(x, opt)    == \A y \in opt : x < y
Equal(x, opt)   == \A y \in opt : x = y

(* buildAccountQuery up to qaccounts. The joins with account_asset and     *)
(* account_app ask for a row, deleted or not.                              *)
AccountKeys(db, o) ==
    {a \in Addrs :
       /\ Shown(db.account[a], o.includeDeleted)
       /\ \A i \in o.hasAssetID :
            /\ db.holding[a][i] # None
            /\ Greater(db.holding[a][i].amount, o.assetGT)
            /\ Less(db.holding[a][i].amount, o.assetLT)
       /\ \A i \in o.hasAppID : db.local[a][i] # None
       /\ Greater(a, o.greaterThanAddress) /\ Equal(a, o.equalToAddress)
       /\ Greater(db.account[a].algos, o.algosGT)
       /\ Less(db.account[a].algos, o.algosLT)
       /\ Equal(db.account[a].auth, o.equalToAuthAddr)
       /\ o.onlineOnly => db.account[a].online}

buildAccountQuery(db, o) == Limited(AccountKeys(db, o), o.limit)

(* The nested selects: the rows listed under one account. *)
Listed(db, o, a) ==
    [k \in o.include |->
       {i \in Owned(db, k, a) : Shown(OwnedRow(db, k, a, i), o.includeDeleted)}]

SumOver(f) == MapThenSumSet(LAMBDA k : f[k], DOMAIN f)

(* Mutant: the stored totals are used although deleted rows are listed. *)
checkAccountResourceLimitStored(db, o) ==
    o.maxResources # 0 =>
      \A a \in buildAccountQuery(db, o) :
        SumOver([k \in o.include |-> db.account[a].total[k]]) <= o.maxResources

(* checkAccountResourceLimit: the totals of account_data, or counts of what *)
(* the query would list when deleted rows are asked for.                   *)
checkAccountResourceLimit(db, o) ==
    o.maxResources # 0 /\ o.include # {} =>
      \A a \in buildAccountQuery(db, o) :
        SumOver([k \in o.include |-> IF o.includeDeleted THEN Cardinality(Listed(db, o, a)[k])
                                                         ELSE db.account[a].total[k]])
          <= o.maxResources

(* yieldAccountsThread: the rewards not yet paid out to an account, as a    *)
(* difference of two unsigned numbers.                                     *)
rewardsDelta(level, row) == level - row.base

Assets(db, q) ==
    Limited({i \in Ids :
               /\ Shown(db.asset[i], q.includeDeleted)
               /\ Equal(i, q.id) /\ Greater(i, q.greaterThan)
               /\ Equal(db.asset[i].creator, q.creator)
               /\ Equal(db.asset[i].name, q.name) /\ Equal(db.asset[i].unit, q.unit)
               /\ Equal(db.asset[i].name, q.query) \/ Equal(db.asset[i].unit, q.query)}, q.limit)

Applications(db, q) ==
    Limited({i \in Ids :
               /\ Shown(db.app[i], q.includeDeleted)
               /\ Equal(i, q.id) /\ Greater(i, q.greaterThan)
               /\ Equal(db.app[i].creator, q.creator)}, q.limit)

AppLocalState(db, q) ==
    Limited({i \in Ids : \E a \in q.creator :
               /\ Shown(db.local[a][i], q.includeDeleted)
               /\ Equal(i, q.id) /\ Greater(i, q.greaterThan)}, q.limit)

(* AssetBalances is asked for one asset, or for one address. *)
AssetBalanceRows(db, q) ==
    {row \in Addrs \X Ids :
       LET holding == db.holding[row[1]][row[2]]
       IN  /\ Shown(holding, q.includeDeleted)
           /\ Equal(row[2], q.id) /\ Greater(row[2], q.idGT)
           /\ Equal(row[1], q.address) /\ Greater(row[1], q.prevAddress)
           /\ Greater(holding.amount, q.amountGT) /\ Less(holding.amount, q.amountLT)}

AssetBalances(db, q) ==
    LET rows == AssetBalanceRows(db, q)
        before(r, s) == r[1] < s[1] \/ (r[1] = s[1] /\ r[2] < s[2])
    IN  IF q.limit = 0 THEN rows
        ELSE {r \in rows : Cardinality({s \in rows : before(s, r)}) < q.limit}

(* ApplicationBoxes: the application LEFT OUTER JOIN its boxes. The one row *)
(* of an application without a matching box has a null name.               *)
NullName == -1

ApplicationBoxes(db, q) ==
    LET names == {n \in Names : /\ <<q.app, n>> \in db.box
                                /\ IF q.boxName # {} THEN Equal(n, q.boxName)
                                                     ELSE Greater(n, q.prevFinalBox)}
    IN  IF db.app[q.app] = None THEN {}
        ELSE IF names = {} THEN {NullName} ELSE Limited(names, q.limit)

(* Mutant: both subqueries take the first matching round. *)
TimeWindowFirst(db, f) ==
    LET after(t)  == {r \in 0 .. db.round : db.header[r].time > t}
        before(t) == {r \in 0 .. db.round : db.header[r].time < t}
    IN  {r \in 0 .. db.round :
           /\ \A t \in f.afterTime : after(t) # {} /\ r >= Min(after(t))
           /\ \A t \in f.beforeTime : before(t) # {} /\ r <= Min(before(t))}

(* A time is turned into a round by a subquery, which yields NULL, and so  *)
(* no row, when no header is that late or early.                           *)
TimeWindow(db, f) ==
    LET after(t)  == {r \in 0 .. db.round : db.header[r].time > t}
        before(t) == {r \in 0 .. db.round : db.header[r].time < t}
    IN  {r \in 0 .. db.round :
           /\ \A t \in f.afterTime : after(t) # {} /\ r >= Min(after(t))
           /\ \A t \in f.beforeTime : before(t) # {} /\ r <= Max(before(t))}

(* buildBlockHeadersQuery; LIMIT is always there. *)
BlockHeaders(db, f) ==
    First({r \in TimeWindow(db, f) :
             /\ \A m \in f.minRound : r >= m
             /\ \A m \in f.maxRound : r <= m
             /\ f.proposers # {} => db.header[r].proposer \in f.proposers
             /\ f.expired # {} => db.header[r].expired \cap f.expired # {}
             /\ f.absent # {} => db.header[r].absent \cap f.absent # {}}, f.limit)

(* GetBlock: the header, and its transactions unless there are too many. *)
GetBlock(db, round, transactions, maxTransactions) ==
    CASE round \notin 0 .. db.round -> "ErrorBlockNotFound"
      [] round \in 0 .. db.round /\ transactions /\ db.header[round].txns > maxTransactions ->
           "MaxTransactionsError"
      [] OTHER -> "found"
=============================================================================
