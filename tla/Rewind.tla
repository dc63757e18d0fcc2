-------------------------------- MODULE Rewind --------------------------------
(***************************************************************************)
(* accounting.AccountAtRound under api.fetchAccounts: an account is read   *)
(* in one database transaction, the transactions that touched it since the *)
(* requested round in another, and their effects are undone one by one.    *)
(* Blocks arrive and old transactions are pruned in between.               *)
(*                                                                         *)
(* A block holds one transaction. What it does to balances is the chain's  *)
(* evaluator, which is external; Ledger records its result for every round *)
(* so that a rewound account can be compared with the true one.            *)
(***************************************************************************)
EXTENDS Integers, Sequences

CONSTANTS
    Users,     \* ordinary accounts
    FeeSink,   \* the special account that collects fees
    NoAddr,    \* the zero address
    Kinds,     \* kinds of transactions that blocks contain
    Funds,     \* algos of every account at round 0
    Total,     \* units of the one asset
    Rewards,   \* rewards an account may earn when it is touched
    Width,     \* width of an unsigned integer (64 in the code)
    MaxRound,  \* bound on the chain
    Prunes     \* whether old transactions are deleted

ASSUME RewindAssumption ==
    /\ MaxRound \in Nat /\ Width \in Nat \ {0} /\ Rewards \subseteq Nat
    /\ 2 ^ Width \in Nat \ {0, 1} /\ {Funds, Total} \subseteq 0 .. 2 ^ Width - 1
    /\ FeeSink \notin Users /\ NoAddr \notin Users \cup {FeeSink}
    /\ Prunes \in BOOLEAN
    /\ Kinds \subseteq {"pay", "close", "keyreg", "acfg", "destroy", "axfer",
                         "aclose", "clawback", "appl"}

Accounts  == Users \cup {FeeSink}
Modulus   == 2 ^ Width
NoHolding == -1         \* the asset is not in account.Assets
Fee       == 1
Amount    == 1

VARIABLES
    block,   \* the transaction of each round
    ledger,  \* balances after each round; ledger[1] is round 0
    oldest,  \* transactions of earlier rounds were deleted
    req,     \* the request: address, round, and the round at which the
             \* account was read
    acct,    \* the account the request holds
    pc       \* idle -> account -> ok or error -> idle

vars == <<block, ledger, oldest, req, acct, pc>>

Round        == Len(block)
BalanceAt(r) == ledger[r + 1]
NoRequest    == [addr |-> NoAddr, at |-> 0, read |-> 0]
NoAccount    == [algos |-> 0, asset |-> NoHolding, round |-> 0]

(* The one type invariant: amounts stay unsigned integers of the width.    *)
TypeOK ==
    /\ Round \in 0 .. MaxRound /\ Len(ledger) = Round + 1
    /\ oldest \in 0 .. MaxRound
    /\ req \in [addr : Accounts \cup {NoAddr}, at : 0 .. MaxRound, read : 0 .. MaxRound]
    /\ acct \in [algos : 0 .. Modulus - 1, asset : -1 .. Modulus - 1, round : 0 .. MaxRound]
    /\ pc \in {"idle", "account", "ok", "error"}

Init ==
    /\ block = <<>>
    /\ ledger = << [a \in Accounts |-> [algos |-> Funds, asset |-> NoHolding]] >>
    /\ oldest = 0
    /\ req = NoRequest
    /\ acct = NoAccount
    /\ pc = "idle"

-----------------------------------------------------------------------------
(* The chain. A transaction carries what the evaluator applied with it:    *)
(* rewards credited to an account when it is first touched, and the        *)
(* amounts that closing moved.                                             *)

Tx(kind, snd, rcv, cls, asnd) ==
    [kind |-> kind, snd |-> snd, rcv |-> rcv, cls |-> cls, asnd |-> asnd,
     amt |-> 0, srew |-> 0, rrew |-> 0, crew |-> 0, closing |-> 0]

AddAlgos(b, a, n) == [b EXCEPT ![a].algos = @ + n]
AddAsset(b, a, n) == [b EXCEPT ![a].asset = @ + n]
Charge(b, a, rew) == AddAlgos(AddAlgos(b, a, rew - Fee), FeeSink, Fee)

HasAsset(b, a) == b[a].asset # NoHolding
Created        == \E r \in 1 .. Round : block[r].kind = "acfg"

(* The transactions possible on balances b, each with the balances after it. *)
Payment(b, snd, rcv, rew) ==
    LET rr == IF rcv = snd THEN 0 ELSE rew
    IN  [tx |-> [Tx("pay", snd, rcv, NoAddr, NoAddr) EXCEPT
                   !.amt = Amount, !.srew = rew, !.rrew = rr],
         after |-> AddAlgos(AddAlgos(Charge(b, snd, rew), snd, 0 - Amount), rcv, Amount + rr)]

Payments(b) == {Payment(b, snd, rcv, rew) : snd \in Users, rcv \in Users, rew \in Rewards}

Closing(b, snd, rcv, cls, rew) ==
    LET cr == IF cls = rcv THEN 0 ELSE rew
        p  == Payment(b, snd, rcv, rew)
        n  == p.after[snd].algos
    IN  [tx |-> [p.tx EXCEPT !.kind = "close", !.cls = cls, !.crew = cr, !.closing = n],
         after |-> AddAlgos(AddAlgos(p.after, snd, 0 - n), cls, n + cr)]

Closings(b) ==
    {Closing(b, p[1], p[2], p[3], rew)
     : p \in {q \in Users \X Users \X Users : q[1] # q[3]}, rew \in Rewards}

FeeOnly(b, kind) ==
    {[tx |-> Tx(kind, snd, NoAddr, NoAddr, NoAddr), after |-> Charge(b, snd, 0)]
     : snd \in Users}

Creations(b) ==
    {[tx |-> [Tx("acfg", snd, NoAddr, NoAddr, NoAddr) EXCEPT !.amt = Total],
      after |-> [Charge(b, snd, 0) EXCEPT ![snd].asset = Total]]
     : snd \in {a \in Users : ~Created}}

Destructions(b) ==
    {[tx |-> Tx("destroy", snd, NoAddr, NoAddr, NoAddr),
      after |-> [Charge(b, snd, 0) EXCEPT ![snd].asset = NoHolding]]
     : snd \in {a \in Users : b[a].asset = Total}}

(* An opt-in is a transfer of nothing to oneself. *)
OptIns(b) ==
    {[tx |-> Tx("axfer", snd, snd, NoAddr, NoAddr),
      after |-> [Charge(b, snd, 0) EXCEPT ![snd].asset = 0]]
     : snd \in {a \in Users : Created /\ ~HasAsset(b, a)}}

Transfer(b, kind, snd, rcv, asnd, from) ==
    [tx |-> [Tx(kind, snd, rcv, NoAddr, asnd) EXCEPT !.amt = Amount],
     after |-> AddAsset(AddAsset(Charge(b, snd, 0), from, 0 - Amount), rcv, Amount)]

Transfers(b) ==
    {Transfer(b, "axfer", p[1], p[2], NoAddr, p[1])
     : p \in {q \in Users \X Users : b[q[1]].asset >= Amount /\ HasAsset(b, q[2])}}

Clawbacks(b) ==
    {Transfer(b, "clawback", p[1], p[2], p[3], p[3])
     : p \in {q \in Users \X Users \X Users : b[q[3]].asset >= Amount /\ HasAsset(b, q[2])}}

AssetClosing(b, snd, rcv, cls) ==
    LET n  == b[snd].asset - Amount
        b1 == AddAsset(AddAsset(Charge(b, snd, 0), rcv, Amount), cls, n)
    IN  [tx |-> [Tx("aclose", snd, rcv, cls, NoAddr) EXCEPT !.amt = Amount, !.closing = n],
         after |-> [b1 EXCEPT ![snd].asset = NoHolding]]

AssetClosings(b) ==
    {AssetClosing(b, p[1], p[2], p[3])
     : p \in {q \in Users \X Users \X Users :
                /\ q[1] \notin {q[2], q[3]} /\ b[q[1]].asset >= Amount
                /\ HasAsset(b, q[2]) /\ HasAsset(b, q[3])}}

Possible(b) ==
    UNION { Payments(b), Closings(b), FeeOnly(b, "keyreg"), FeeOnly(b, "appl"),
            Creations(b), Destructions(b), OptIns(b), Transfers(b), AssetClosings(b), Clawbacks(b) }

(* The evaluator refuses what overspends or overflows. *)
AddBlock ==
    /\ Round < MaxRound
    /\ \E p \in Possible(BalanceAt(Round)) :
         /\ p.tx.kind \in Kinds
         /\ \A a \in Accounts : /\ p.after[a].algos \in 0 .. Modulus - 1
                               /\ p.after[a].asset < Modulus
         /\ block' = Append(block, p.tx)
         /\ ledger' = Append(ledger, p.after)
    /\ UNCHANGED <<oldest, req, acct, pc>>

(* DeleteTransactions; the account tables are left alone. *)
DeleteTransactions ==
    /\ Prunes /\ oldest < Round
    /\ oldest' = Round
    /\ UNCHANGED <<block, ledger, req, acct, pc>>

-----------------------------------------------------------------------------
(* addTransactionParticipants: the rows the address filter finds. *)
Participants(tx) ==
    CASE tx.kind \in {"pay", "close"} -> {tx.snd, tx.rcv, tx.cls} \ {NoAddr}
      [] tx.kind \in {"axfer", "aclose", "clawback"} ->
           {tx.snd, tx.asnd, tx.rcv, tx.cls} \ {NoAddr}
      [] OTHER -> {tx.snd}

(* The rounds of the rows that TransactionFilter{Address, MinRound: at + 1, *)
(* MaxRound} finds in a snapshot at round s. A MaxRound of zero is no bound. *)
Rows(s) ==
    LET upper == IF acct.round = 0 THEN s ELSE acct.round
    IN  {r \in req.at + 1 .. s : /\ r <= upper /\ r >= oldest
                                 /\ req.addr \in Participants(block[r])}

If(c, n) == IF c THEN n ELSE 0

(* assetUpdate: change the holding, or append one. *)
AssetUpdate(acc, add, sub) ==
    [acc EXCEPT !.asset = ((IF @ = NoHolding THEN 0 ELSE @) + add - sub) % Modulus]

(* The body of AccountAtRound's loop for the address a. *)
UndoPay(acc, a, tx) ==
    [acc EXCEPT !.algos =
       (@ + If(a = tx.snd, Fee - tx.srew)
          + If(a = tx.snd, tx.amt)
          - If(a = tx.rcv, tx.amt + tx.rrew)
          + (IF a = tx.cls THEN 0 - tx.closing - tx.crew
             ELSE If(tx.cls # NoAddr, tx.closing))) % Modulus]

UndoFee(acc, a, tx) ==
    [acc EXCEPT !.algos = (@ + If(a = tx.snd, Fee - tx.srew)) % Modulus]

UndoTransfer(acc, a, tx) ==
    LET a1 == IF a \in {tx.asnd, tx.snd} THEN AssetUpdate(acc, tx.amt + tx.closing, 0) ELSE acc
        a2 == IF a = tx.rcv THEN AssetUpdate(a1, 0, tx.amt) ELSE a1
    IN IF a = tx.cls THEN AssetUpdate(a2, 0, tx.closing) ELSE a2

Undo(acc, a, tx) ==
    CASE tx.kind \in {"pay", "close"} -> UndoPay(acc, a, tx)
      [] tx.kind = "acfg" -> AssetUpdate(UndoFee(acc, a, tx), 0, tx.amt)
      [] tx.kind \in {"axfer", "aclose", "clawback"} ->
           UndoTransfer(UndoFee(acc, a, tx), a, tx)
      [] OTHER -> UndoFee(acc, a, tx)

(* AccountAtRound's loop: rows come newest first, so that undone[r] is the  *)
(* account after the rows beyond round r.                                  *)
Rewound(s) ==
    LET undone[r \in req.at .. Round] ==
          IF r = Round THEN acct
          ELSE IF r + 1 \in Rows(s) THEN Undo(undone[r + 1], req.addr, block[r + 1])
          ELSE undone[r + 1]
    IN  undone[req.at]

(* fetchAccounts: GetAccounts returns the account with the round of its    *)
(* snapshot; a later round than that is refused.                           *)
FetchAccounts ==
    /\ pc = "idle"
    /\ \E a \in Accounts, at \in 0 .. MaxRound :
         /\ req' = [addr |-> a, at |-> at, read |-> Round]
         /\ acct' = [algos |-> BalanceAt(Round)[a].algos,
                     asset |-> BalanceAt(Round)[a].asset,
                     round |-> Round]
         /\ pc' = IF at > Round THEN "error" ELSE "account"
    /\ UNCHANGED <<block, ledger, oldest>>

RewindFails ==
    /\ pc = "account"
    /\ pc' = "error"
    /\ UNCHANGED <<block, ledger, oldest, req, acct>>

(* Mutant: a stale answer of Transactions is not refused. *)
RefusedSpecialOnly(s) == req.addr = FeeSink

(* The checks of AccountAtRound before its loop. *)
Refused(s) == req.addr = FeeSink \/ s < acct.round

(* AccountAtRound. The snapshot of Transactions may be stale.              *)
AccountAtRound ==
    /\ pc = "account"
    /\ \E s \in 0 .. Round :
         IF Refused(s) \/ \E r \in Rows(s) : block[r].kind = "appl"
           THEN pc' = "error" /\ UNCHANGED acct
           ELSE /\ pc' = "ok"
                /\ acct' = [Rewound(s) EXCEPT !.round = req.at]
    /\ UNCHANGED <<block, ledger, oldest, req>>

Respond ==
    /\ pc \in {"ok", "error"}
    /\ pc' = "idle" /\ req' = NoRequest /\ acct' = NoAccount
    /\ UNCHANGED <<block, ledger, oldest>>

Next ==
    \/ AddBlock \/ DeleteTransactions
    \/ FetchAccounts \/ RewindFails \/ AccountAtRound \/ Respond

Spec == Init /\ [][Next]_vars

-----------------------------------------------------------------------------
Holding(h) == IF h = NoHolding THEN 0 ELSE h
True       == BalanceAt(req.at)[req.addr]

(* AccountAtRound "rewinds most fields of the account back to their values *)
(* at the requested round": the algos of the answer are those of the       *)
(* account at that round.                                                  *)
RewindsAlgos == (pc = "ok" /\ req.read > 0) => acct.algos = True.algos

(* What does hold of the code: the rewound amounts are the true ones       *)
(* whatever blocks arrived meanwhile, provided that the transactions were  *)
(* not pruned, the account was read after round 0, and none of them is of  *)
(* a shape the loop misreads: a closing payment seen by its receiver, a    *)
(* clawback seen by the clawback address, the destruction of an asset.     *)
Misread(tx, a) ==
    \/ tx.kind = "close" /\ a \notin {tx.snd, tx.cls}
    \/ tx.kind = "clawback" /\ a = tx.snd /\ tx.snd # tx.asnd
    \/ tx.kind = "destroy"

RewoundIsHistorical ==
    (/\ pc = "ok" /\ req.at + 1 >= oldest /\ req.read > 0
     /\ \A r \in req.at + 1 .. req.read :
          req.addr \in Participants(block[r]) => ~Misread(block[r], req.addr))
      => /\ acct.algos = True.algos
         /\ Holding(acct.asset) = Holding(True.asset)
=============================================================================
