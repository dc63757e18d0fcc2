--------------------------- MODULE MCResourceSearch ---------------------------
(***************************************************************************)
(* An instance of ResourceSearch for TLC: three keys per list, pages of    *)
(* one or two, every endpoint with its filters.                            *)
(***************************************************************************)
EXTENDS ResourceSearch

Account(algos, auth, online) ==
    [st |-> "live", algos |-> algos, auth |-> auth, online |-> online, base |-> 0,
     total |-> [k \in Kinds |-> 0]]
Holding(amount)     == [st |-> "live", amount |-> amount]
Asset(creator, name) ==
    [st |-> "live", creator |-> creator, name |-> name, unit |-> 3 - name]
App(creator)        == [st |-> "live", creator |-> creator]
Local               == [st |-> "live"]
Header(time, who, txns) ==
    [time |-> time, level |-> 0, proposer |-> who, expired |-> {who}, absent |-> {who},
     txns |-> txns]

Operations == Lists \cup Lookups

MCAccountRows == {Account(1, 0, FALSE), Account(2, 1, TRUE)}
MCHoldingRows == {Holding(1), Holding(2)}
MCAssetRows   == {Asset(1, 1), Asset(2, 2)}
MCAppRows     == {App(1), App(2)}
MCLocalRows   == {Local}
MCHeaders == [op \in Operations |->
                IF op \in {"SearchForBlockHeaders", "LookupBlock"}
                  THEN {Header(1, 1, 0), Header(2, 2, 2)} ELSE {Header(1, 1, 0)}]

(* One live account and one header; nothing else. *)
Base ==
    [round |-> 0, header |-> [r \in {0} |-> Header(1, 1, 0)],
     account |-> [a \in Addrs |-> IF a = 1 THEN Account(1, 0, FALSE) ELSE None],
     holding |-> [a \in Addrs |-> [i \in Ids |-> None]], asset |-> [i \in Ids |-> None],
     app |-> [i \in Ids |-> None], local |-> [a \in Addrs |-> [i \in Ids |-> None]], box |-> {}]

AllLive == [Base EXCEPT !.account = [a \in Addrs |-> Account(1, 0, FALSE)]]

Gone(row) == CASE "name" \in DOMAIN row   -> DeletedAsset(row)
               [] "amount" \in DOMAIN row -> DeletedHolding(row)
               [] "algos" \in DOMAIN row  -> DeletedAccount(row)
               [] OTHER                   -> Deleted(row)

(* Accounts 2 and 3 may be missing or closed, hold asset 1 or have left it, *)
(* and account 1 may have created an application.                          *)
AccountDatabases ==
    {WithTotals([Base EXCEPT !.account = [a \in Addrs |-> IF a = 1 THEN @[1] ELSE accts[a]],
                             !.holding = [a \in Addrs |-> [i \in Ids |->
                                            IF i = 1 /\ a # 1 /\ accts[a] # None
                                              THEN IF accts[a].st = "live" THEN held
                                                   ELSE Gone(Holding(0))
                                              ELSE None]],
                             !.app = [i \in Ids |-> IF i \in 1 .. apps THEN App(1) ELSE None]]) :
       accts \in [{2, 3} -> {None, Account(2, 1, TRUE), Gone(Account(0, 0, FALSE))}],
       held \in {None, Holding(1), Gone(Holding(0))}, apps \in {0, 1}}

HeaderDatabases ==
    {[AllLive EXCEPT !.round = 2, !.header = f] :
       f \in {g \in [0 .. 2 -> {Header(1, 1, 0), Header(2, 2, 2)}] :
                g[0].time <= g[1].time /\ g[1].time <= g[2].time}}

(* Three entries: there or deleted, anything, missing or there. *)
Three(row, other) ==
    {f \in [{1, 2, 3} -> {None, row, other, Gone(row)}] :
       f[1] \in {row, Gone(row)} /\ f[3] \in {None, other}}

AssetDatabases   == {[AllLive EXCEPT !.asset = f] : f \in Three(Asset(1, 1), Asset(2, 2))}
AppDatabases     == {[AllLive EXCEPT !.app = f] : f \in Three(App(1), App(2))}
LocalDatabases   == {[AllLive EXCEPT !.local = [a \in Addrs |->
                        [i \in Ids |-> IF a = 1 THEN f[i] ELSE Local]]] :
                       f \in Three(Local, Local)}
HoldingDatabases == {[AllLive EXCEPT !.holding =
                        [a \in Addrs |-> [i \in Ids |-> IF a = 1 THEN f[i] ELSE Holding(1)]]] :
                       f \in Three(Holding(0), Holding(1))}
BalanceDatabases == {[AllLive EXCEPT !.holding =
                        [a \in Addrs |-> [i \in Ids |-> IF i = 1 THEN f[a] ELSE Holding(1)]]] :
                       f \in Three(Holding(0), Holding(2))}
BoxDatabases     == {[AllLive EXCEPT !.app = [i \in Ids |-> IF i = 1 THEN r ELSE App(1)],
                                     !.box = b] :
                       r \in {App(1), Gone(App(1))}, b \in SUBSET {<<1, n>> : n \in Names}}
                    \cup {[AllLive EXCEPT !.app[2] = App(1), !.box = {<<2, 1>>}]}

DatabasesOf ==
    [SearchForAccounts |-> AccountDatabases, LookupAccountByID |-> AccountDatabases,
     SearchForAssets |-> AssetDatabases, LookupAssetByID |-> AssetDatabases,
     SearchForApplications |-> AppDatabases, LookupApplicationByID |-> AppDatabases,
     LookupAccountAppLocalStates |-> LocalDatabases, LookupAccountAssets |-> HoldingDatabases,
     LookupAssetBalances |-> BalanceDatabases,
     SearchForApplicationBoxes |-> BoxDatabases,
     LookupApplicationBoxByIDAndName |-> BoxDatabases,
     SearchForBlockHeaders |-> HeaderDatabases, LookupBlock |-> HeaderDatabases]
MCDatabases == [op \in Operations |-> {WithTotals(d) : d \in DatabasesOf[op]}]

MCTouched ==
    [SearchForAccounts |-> {"account", "holding"}, LookupAccountByID |-> {"account", "local"},
     SearchForAssets |-> {"asset"}, LookupAssetByID |-> {"asset"},
     SearchForApplications |-> {"app"}, LookupApplicationByID |-> {"app"},
     LookupAccountAppLocalStates |-> {"local"}, LookupAccountAssets |-> {"holding"},
     LookupAssetBalances |-> {"holding"}, SearchForApplicationBoxes |-> {"box", "app"},
     LookupApplicationBoxByIDAndName |-> {"box", "app"},
     SearchForBlockHeaders |-> {"header"}, LookupBlock |-> {"header"}]

MCTouchedIds ==
    [op \in Operations |-> IF op \in Accounts \cup {"LookupAssetBalances"} THEN {1} ELSE Ids]

(* Every limit, with and without deleted rows. *)
Paged(r) == {[r EXCEPT !.limit = l, !.all = all] : l \in {{0}, {1}, {3}}, all \in BOOLEAN}
Short(r) == {[r EXCEPT !.limit = l] : l \in {{}, {1}}}

Op(op) == [Blank EXCEPT !.op = op]

MCRequests ==
    UNION {
      Paged(Op("SearchForAccounts")),
      Short([Op("SearchForAccounts") EXCEPT !.rewind = TRUE]),
      Short([Op("SearchForAccounts") EXCEPT !.id = {1}]),
      {[Op("SearchForAccounts") EXCEPT !.id = {1}, !.gt = {0}, !.exclude = Kinds],
       [Op("SearchForAccounts") EXCEPT !.gt = {1}, !.exclude = {"assets"}],
       [Op("SearchForAccounts") EXCEPT !.lt = {2}, !.limit = {1}],
       [Op("SearchForAccounts") EXCEPT !.auth = {1}, !.online = TRUE, !.limit = {1}],
       [Op("SearchForAccounts") EXCEPT !.app = {1}]},
      {[Op("LookupAccountByID") EXCEPT !.addr = {2}, !.all = all, !.rewind = w] :
         all \in BOOLEAN, w \in BOOLEAN},
      Paged(Op("SearchForAssets")), Short([Op("SearchForAssets") EXCEPT !.addr = {1}]),
      {[Op("SearchForAssets") EXCEPT !.id = {2}], [Op("SearchForAssets") EXCEPT !.name = {2}],
       [Op("SearchForAssets") EXCEPT !.unit = {2}]},
      {[Op("LookupAssetByID") EXCEPT !.id = {2}, !.all = all] : all \in BOOLEAN},
      Paged(Op("SearchForApplications")), Short([Op("SearchForApplications") EXCEPT !.addr = {2}]),
      {[Op("LookupApplicationByID") EXCEPT !.id = {2}, !.all = all] : all \in BOOLEAN},
      Paged([Op("LookupAccountAppLocalStates") EXCEPT !.addr = {1}]),
      Paged([Op("LookupAccountAssets") EXCEPT !.addr = {1}]),
      Paged([Op("LookupAssetBalances") EXCEPT !.id = {1}]),
      {[Op("LookupAssetBalances") EXCEPT !.id = {1}, !.gt = {1}, !.limit = {1}],
       [Op("LookupAssetBalances") EXCEPT !.id = {1}, !.lt = {2}]},
      Short([Op("SearchForApplicationBoxes") EXCEPT !.id = {1}]),
      {[Op("LookupApplicationBoxByIDAndName") EXCEPT !.id = {1}, !.name = {n}] : n \in {0, 2}},
      Short(Op("SearchForBlockHeaders")), {[Op("SearchForBlockHeaders") EXCEPT !.limit = {0}]},
      {[Op("SearchForBlockHeaders") EXCEPT !.limit = l, !.min = {1}] : l \in {{}, {1}}},
      {[Op("SearchForBlockHeaders") EXCEPT !.limit = l, !.max = {1}] : l \in {{}, {1}}},
      {[Op("SearchForBlockHeaders") EXCEPT !.after = {1}],
       [Op("SearchForBlockHeaders") EXCEPT !.before = {2}, !.limit = {1}],
       [Op("SearchForBlockHeaders") EXCEPT !.after = {1}, !.before = {2}],
       [Op("SearchForBlockHeaders") EXCEPT !.proposers = {2}, !.limit = {1}],
       [Op("SearchForBlockHeaders") EXCEPT !.expired = {2}],
       [Op("SearchForBlockHeaders") EXCEPT !.absent = {1}, !.limit = {1}]},
      {[Op("LookupBlock") EXCEPT !.id = {n}, !.headerOnly = h] : n \in {1, 3}, h \in BOOLEAN}}
=============================================================================
