----------------------------- MODULE RewindProofs -----------------------------
(***************************************************************************)
(* What a rewound account is, for any accounts, any chain of blocks, any   *)
(* rewards and any width of the amounts.                                   *)
(***************************************************************************)
EXTENDS Rewind, WellFoundedInduction, TLAPS

Amounts   == 0 .. Modulus - 1
Balances  == [algos : Amounts, asset : -1 .. Modulus - 1]
Sheet     == [Accounts -> Balances]
AnySheet  == [Accounts -> [algos : Int, asset : Int]]
AcctSet   == [algos : Amounts, asset : -1 .. Modulus - 1, round : 0 .. MaxRound]
TxKinds   == {"pay", "close", "keyreg", "acfg", "destroy", "axfer", "aclose", "clawback", "appl"}
TxSet     == [kind : TxKinds, snd : Users, rcv : Users \cup {NoAddr}, cls : Users \cup {NoAddr},
              asnd : Users \cup {NoAddr}, amt : Int, srew : Int, rrew : Int, crew : Int,
              closing : Int]

(* The account x has the amounts of y. A holding of nothing and no holding  *)
(* are not told apart.                                                     *)
Same(x, y) == x.algos = y.algos /\ Holding(x.asset) = Holding(y.asset)

(* tx took the account a from x to y, and undoing it goes back. *)
Reverses(tx, a, x, y) ==
    /\ a \notin Participants(tx) => Same(x, y)
    /\ (a \in Participants(tx) /\ ~Misread(tx, a)) =>
         \A acc \in AcctSet : Same(acc, y) => Same(Undo(acc, a, tx), x)

-----------------------------------------------------------------------------
(* Arithmetic of unsigned integers. *)

LEMMA ModulusType == Modulus \in Nat /\ Modulus > 1
  BY RewindAssumption DEF Modulus

LEMMA ModIsAmount ==
  ASSUME NEW x \in Int
  PROVE  x % Modulus \in Amounts
<1> DEFINE m == Modulus
<1>1. m \in Nat /\ m > 1
  BY Zenon, ModulusType
<1>2. x % m \in 0 .. m - 1
  <2> HIDE DEF m
  <2> QED BY <1>1
<1> QED BY Zenon, <1>2 DEF Amounts

LEMMA ModOfAmount ==
  ASSUME NEW x \in Amounts
  PROVE  x % Modulus = x
<1> DEFINE m == Modulus
<1>1. m \in Nat /\ m > 1
  BY Zenon, ModulusType
<1>2. x \in 0 .. m - 1
  BY Zenon DEF Amounts
<1>3. x % m = x
  <2> HIDE DEF m
  <2> QED BY <1>1, <1>2
<1> QED BY Zenon, <1>3

(* Adding n and subtracting it again, each modulo the width, changes       *)
(* nothing.                                                                *)
LEMMA ModThereAndBack ==
  ASSUME NEW x \in Amounts, NEW n \in Amounts
  PROVE  (((x + n) % Modulus) - n) % Modulus = x
<1> DEFINE m == Modulus
<1>1. m \in Nat /\ m > 1
  BY Zenon, ModulusType
<1>2. x \in 0 .. m - 1 /\ n \in 0 .. m - 1
  BY Zenon DEF Amounts
<1>3. (((x + n) % m) - n) % m = x
  <2> HIDE DEF m
  <2>1. CASE x + n < m
    <3>1. (x + n) % m = x + n
      BY <1>1, <1>2, <2>1
    <3>2. x % m = x
      BY <1>1, <1>2
    <3> QED BY <3>1, <3>2, <1>2
  <2>2. CASE x + n >= m
    <3>1. (x + n) % m = x + n - m
      BY <1>1, <1>2, <2>2
    <3>2. (x - m) % m = x
      BY <1>1, <1>2
    <3> QED BY <3>1, <3>2, <1>1, <1>2
  <2> QED BY <2>1, <2>2, <1>1, <1>2
<1> QED BY Zenon, <1>3

-----------------------------------------------------------------------------
(* What the evaluator's updates do to one account. *)

LEMMA AddAlgosIs ==
  ASSUME NEW b \in AnySheet, NEW a \in Accounts, NEW n \in Int
  PROVE  /\ AddAlgos(b, a, n) \in AnySheet
         /\ \A u \in Accounts : /\ AddAlgos(b, a, n)[u].algos = b[u].algos + If(u = a, n)
                                /\ AddAlgos(b, a, n)[u].asset = b[u].asset
  BY DEF AddAlgos, AnySheet, If

LEMMA AddAssetIs ==
  ASSUME NEW b \in AnySheet, NEW a \in Accounts, NEW n \in Int
  PROVE  /\ AddAsset(b, a, n) \in AnySheet
         /\ \A u \in Accounts : /\ AddAsset(b, a, n)[u].asset = b[u].asset + If(u = a, n)
                                /\ AddAsset(b, a, n)[u].algos = b[u].algos
  BY DEF AddAsset, AnySheet, If

LEMMA SetAssetIs ==
  ASSUME NEW b \in AnySheet, NEW a \in Accounts, NEW n \in Int
  PROVE  /\ [b EXCEPT ![a].asset = n] \in AnySheet
         /\ \A u \in Accounts : /\ [b EXCEPT ![a].asset = n][u].asset = IF u = a THEN n ELSE b[u].asset
                                /\ [b EXCEPT ![a].asset = n][u].algos = b[u].algos
  BY Zenon DEF AnySheet

LEMMA ChargeIs ==
  ASSUME NEW b \in AnySheet, NEW a \in Users, NEW rew \in Int
  PROVE  /\ Charge(b, a, rew) \in AnySheet
         /\ \A u \in Accounts : Charge(b, a, rew)[u].asset = b[u].asset
         /\ \A u \in Users : Charge(b, a, rew)[u].algos = b[u].algos + If(u = a, rew - Fee)
<1> DEFINE b1 == AddAlgos(b, a, rew - Fee)
<1>1. a \in Accounts /\ FeeSink \in Accounts /\ rew - Fee \in Int /\ Fee \in Int
  BY DEF Accounts, Fee
<1>2. /\ b1 \in AnySheet
      /\ \A u \in Accounts : b1[u].algos = b[u].algos + If(u = a, rew - Fee) /\ b1[u].asset = b[u].asset
  BY <1>1, AddAlgosIs
<1> HIDE DEF b1
<1>3. /\ AddAlgos(b1, FeeSink, Fee) \in AnySheet
      /\ \A u \in Accounts : /\ AddAlgos(b1, FeeSink, Fee)[u].algos = b1[u].algos + If(u = FeeSink, Fee)
                             /\ AddAlgos(b1, FeeSink, Fee)[u].asset = b1[u].asset
  BY <1>1, <1>2, AddAlgosIs
<1>4. \A u \in Users : u \in Accounts /\ If(u = FeeSink, Fee) = 0 /\ b1[u].algos \in Int
  BY Zenon, <1>2, RewindAssumption DEF Accounts, If, AnySheet
<1>5. Charge(b, a, rew) = AddAlgos(b1, FeeSink, Fee)
  BY Zenon DEF Charge, b1
<1> QED BY <1>2, <1>3, <1>4, <1>5

-----------------------------------------------------------------------------
(* What undoing does to the account. *)

LEMMA AcctParts ==
  ASSUME NEW acc \in AcctSet
  PROVE  /\ acc.algos \in Amounts /\ acc.algos \in Int
         /\ acc.asset \in Int /\ Holding(acc.asset) \in Amounts /\ Holding(acc.asset) \in Int
<1>1. acc.algos \in Amounts /\ acc.asset \in -1 .. Modulus - 1
  BY Zenon DEF AcctSet
<1>2. Modulus \in Nat /\ Modulus > 1
  BY Zenon, ModulusType
<1> QED BY <1>1, <1>2 DEF Amounts, Holding, NoHolding

LEMMA SetAlgos ==
  ASSUME NEW acc \in AcctSet, NEW n \in Amounts
  PROVE  /\ [acc EXCEPT !.algos = n] \in AcctSet
         /\ [acc EXCEPT !.algos = n].algos = n
         /\ [acc EXCEPT !.algos = n].asset = acc.asset
         /\ [acc EXCEPT !.algos = n].round = acc.round
  BY Zenon DEF AcctSet

LEMMA AssetUpdateIs ==
  ASSUME NEW acc \in AcctSet, NEW add \in Int, NEW sub \in Int
  PROVE  /\ AssetUpdate(acc, add, sub) \in AcctSet
         /\ AssetUpdate(acc, add, sub).algos = acc.algos
         /\ AssetUpdate(acc, add, sub).asset = (Holding(acc.asset) + add - sub) % Modulus
         /\ Holding(AssetUpdate(acc, add, sub).asset) = (Holding(acc.asset) + add - sub) % Modulus
         /\ AssetUpdate(acc, add, sub).round = acc.round
<1> DEFINE n == (Holding(acc.asset) + add - sub) % Modulus
<1>1. n \in Amounts
  BY AcctParts, ModIsAmount
<1>2. AssetUpdate(acc, add, sub) = [acc EXCEPT !.asset = n]
  BY Zenon DEF AssetUpdate, Holding
<1>3. n \in -1 .. Modulus - 1 /\ n # NoHolding
  BY <1>1, ModulusType DEF Amounts, NoHolding
<1> HIDE DEF n
<1>4. /\ [acc EXCEPT !.asset = n] \in AcctSet
      /\ [acc EXCEPT !.asset = n].asset = n
      /\ [acc EXCEPT !.asset = n].algos = acc.algos
      /\ [acc EXCEPT !.asset = n].round = acc.round
  BY Zenon, <1>3 DEF AcctSet
<1>5. Holding(n) = n
  BY Zenon, <1>3 DEF Holding
<1> QED BY Zenon, <1>2, <1>4, <1>5 DEF n

(* The change of the algos that UndoPay makes. *)
PayDelta(a, tx) ==
    If(a = tx.snd, Fee - tx.srew) + If(a = tx.snd, tx.amt) - If(a = tx.rcv, tx.amt + tx.rrew)
      + (IF a = tx.cls THEN 0 - tx.closing - tx.crew ELSE If(tx.cls # NoAddr, tx.closing))

LEMMA UndoPayIs ==
  ASSUME NEW acc \in AcctSet, NEW tx \in TxSet, NEW a
  PROVE  /\ UndoPay(acc, a, tx) \in AcctSet
         /\ UndoPay(acc, a, tx).algos = (acc.algos + PayDelta(a, tx)) % Modulus
         /\ UndoPay(acc, a, tx).asset = acc.asset
         /\ UndoPay(acc, a, tx).round = acc.round
<1> DEFINE n == (acc.algos + PayDelta(a, tx)) % Modulus
           p1 == If(a = tx.snd, Fee - tx.srew)
           p2 == If(a = tx.snd, tx.amt)
           p3 == If(a = tx.rcv, tx.amt + tx.rrew)
           p4 == IF a = tx.cls THEN 0 - tx.closing - tx.crew ELSE If(tx.cls # NoAddr, tx.closing)
<1>1. /\ tx.amt \in Int /\ tx.srew \in Int /\ tx.rrew \in Int /\ tx.crew \in Int
      /\ tx.closing \in Int /\ Fee \in Int
  BY DEF TxSet, Fee
<1>2. p1 \in Int /\ p2 \in Int /\ p3 \in Int /\ p4 \in Int
  BY <1>1 DEF If
<1>3. UndoPay(acc, a, tx) = [acc EXCEPT !.algos = (acc.algos + p1 + p2 - p3 + p4) % Modulus]
  BY Zenon DEF UndoPay
<1>4. PayDelta(a, tx) = p1 + p2 - p3 + p4
  BY Zenon DEF PayDelta
<1> HIDE DEF p1, p2, p3, p4
<1>5. acc.algos + p1 + p2 - p3 + p4 = acc.algos + PayDelta(a, tx) /\ PayDelta(a, tx) \in Int
  BY <1>2, <1>4, AcctParts
<1>6. n \in Amounts
  BY <1>5, AcctParts, ModIsAmount
<1>7. UndoPay(acc, a, tx) = [acc EXCEPT !.algos = n]
  BY Zenon, <1>3, <1>5
<1> QED BY <1>6, <1>7, SetAlgos

LEMMA UndoFeeIs ==
  ASSUME NEW acc \in AcctSet, NEW tx \in TxSet, NEW a
  PROVE  /\ UndoFee(acc, a, tx) \in AcctSet
         /\ UndoFee(acc, a, tx).algos = (acc.algos + If(a = tx.snd, Fee - tx.srew)) % Modulus
         /\ UndoFee(acc, a, tx).asset = acc.asset
         /\ UndoFee(acc, a, tx).round = acc.round
<1> DEFINE n == (acc.algos + If(a = tx.snd, Fee - tx.srew)) % Modulus
<1>1. tx.srew \in Int /\ Fee \in Int
  BY DEF TxSet, Fee
<1>2. If(a = tx.snd, Fee - tx.srew) \in Int
  BY <1>1 DEF If
<1>3. n \in Amounts
  BY <1>2, AcctParts, ModIsAmount
<1>4. UndoFee(acc, a, tx) = [acc EXCEPT !.algos = n]
  BY Zenon DEF UndoFee
<1> QED BY <1>3, <1>4, SetAlgos

LEMMA UndoTransferType ==
  ASSUME NEW acc \in AcctSet, NEW tx \in TxSet, NEW a
  PROVE  /\ UndoTransfer(acc, a, tx) \in AcctSet
         /\ UndoTransfer(acc, a, tx).algos = acc.algos
         /\ UndoTransfer(acc, a, tx).round = acc.round
<1> DEFINE a1 == IF a \in {tx.asnd, tx.snd} THEN AssetUpdate(acc, tx.amt + tx.closing, 0) ELSE acc
           a2 == IF a = tx.rcv THEN AssetUpdate(a1, 0, tx.amt) ELSE a1
           a3 == IF a = tx.cls THEN AssetUpdate(a2, 0, tx.closing) ELSE a2
<1>1. tx.amt \in Int /\ tx.closing \in Int /\ tx.amt + tx.closing \in Int
  BY DEF TxSet
<1>2. a1 \in AcctSet /\ a1.algos = acc.algos /\ a1.round = acc.round
  BY <1>1, AssetUpdateIs
<1> HIDE DEF a1
<1>3. a2 \in AcctSet /\ a2.algos = acc.algos /\ a2.round = acc.round
  BY <1>1, <1>2, AssetUpdateIs
<1> HIDE DEF a2
<1>4. a3 \in AcctSet /\ a3.algos = acc.algos /\ a3.round = acc.round
  BY <1>1, <1>3, AssetUpdateIs
<1>5. UndoTransfer(acc, a, tx) = a3
  BY Zenon DEF UndoTransfer, a1, a2
<1> QED BY <1>4, <1>5

LEMMA UndoType ==
  ASSUME NEW acc \in AcctSet, NEW tx \in TxSet, NEW a
  PROVE  Undo(acc, a, tx) \in AcctSet /\ Undo(acc, a, tx).round = acc.round
<1> DEFINE f == UndoFee(acc, a, tx)
<1>1. UndoPay(acc, a, tx) \in AcctSet /\ UndoPay(acc, a, tx).round = acc.round
  BY Zenon, UndoPayIs
<1>2. f \in AcctSet /\ f.round = acc.round
  BY UndoFeeIs
<1>3. tx.amt \in Int
  BY Zenon DEF TxSet
<1> HIDE DEF f
<1>4. AssetUpdate(f, 0, tx.amt) \in AcctSet /\ AssetUpdate(f, 0, tx.amt).round = acc.round
  BY <1>2, <1>3, AssetUpdateIs
<1>5. UndoTransfer(f, a, tx) \in AcctSet /\ UndoTransfer(f, a, tx).round = acc.round
  BY Zenon, <1>2, UndoTransferType
<1>6. Undo(acc, a, tx) = IF tx.kind \in {"pay", "close"} THEN UndoPay(acc, a, tx)
                         ELSE IF tx.kind = "acfg" THEN AssetUpdate(f, 0, tx.amt)
                         ELSE IF tx.kind \in {"axfer", "aclose", "clawback"} THEN UndoTransfer(f, a, tx)
                         ELSE f
  BY Zenon DEF Undo, f
<1> QED BY Zenon, <1>1, <1>2, <1>4, <1>5, <1>6

-----------------------------------------------------------------------------
(* The evaluator's blocks, one class of transactions at a time: the types  *)
(* of what it records and that undoing goes back.                          *)

Recorded(b, p) ==
    /\ p.tx \in TxSet
    /\ p.after \in Sheet
    /\ \A a \in Users : Reverses(p.tx, a, b[a], p.after[a])

Accepted(p) ==
    \A a \in Accounts : p.after[a].algos \in Amounts /\ p.after[a].asset < Modulus

LEMMA SheetIs ==
  ASSUME NEW b \in Sheet
  PROVE  /\ b \in AnySheet
         /\ \A u \in Accounts : b[u] \in Balances
         /\ \A u \in Accounts : /\ b[u].algos \in Amounts /\ b[u].algos \in Int
                                /\ b[u].asset \in Int /\ b[u].asset >= -1 /\ b[u].asset < Modulus
         /\ Users \subseteq Accounts
<1>1. \A u \in Accounts : b[u] \in Balances
  BY Zenon DEF Sheet
<1>2. Modulus \in Nat
  BY Zenon, ModulusType
<1>3. \A u \in Accounts : /\ b[u].algos \in Amounts /\ b[u].algos \in Int
                          /\ b[u].asset \in Int /\ b[u].asset >= -1 /\ b[u].asset < Modulus
  BY <1>1, <1>2 DEF Balances, Amounts
<1>4. b = [u \in Accounts |-> b[u]]
  BY Zenon DEF Sheet
<1>5. \A u \in Accounts : b[u] \in [algos : Int, asset : Int]
  BY Zenon, <1>1, <1>3 DEF Balances
<1> HIDE DEF Balances, Amounts
<1> QED BY Zenon, <1>1, <1>3, <1>4, <1>5 DEF AnySheet, Accounts

LEMMA SheetFrom ==
  ASSUME NEW c \in AnySheet,
         \A u \in Accounts : c[u].algos \in Amounts /\ c[u].asset >= -1 /\ c[u].asset < Modulus
  PROVE  c \in Sheet
<1>1. \A u \in Accounts : c[u] \in [algos : Int, asset : Int]
  BY Zenon DEF AnySheet
<1>2. \A u \in Accounts : c[u].asset \in -1 .. Modulus - 1
  BY <1>1, ModulusType
<1>3. \A u \in Accounts : c[u] \in Balances
  BY Zenon, <1>1, <1>2 DEF Balances
<1> QED BY Zenon, <1>3 DEF Sheet, AnySheet

(* An account that pays, is paid or is closed: only its algos change. *)
LEMMA PayReverses ==
  ASSUME NEW tx \in TxSet, tx.kind \in {"pay", "close"}, NEW a \in Users,
         NEW x \in Balances, NEW y \in Balances, y.asset = x.asset,
         a \notin Participants(tx) => y.algos = x.algos,
         (a \in Participants(tx) /\ ~Misread(tx, a)) => x.algos = y.algos + PayDelta(a, tx)
  PROVE  Reverses(tx, a, x, y)
<1>1. a \notin Participants(tx) => Same(x, y)
  BY Zenon DEF Same
<1>2. ASSUME a \in Participants(tx), ~Misread(tx, a), NEW acc \in AcctSet, Same(acc, y)
      PROVE  Same(Undo(acc, a, tx), x)
  <2>1. Undo(acc, a, tx) = UndoPay(acc, a, tx)
    BY Zenon DEF Undo
  <2>2. /\ UndoPay(acc, a, tx).algos = (y.algos + PayDelta(a, tx)) % Modulus
        /\ Holding(UndoPay(acc, a, tx).asset) = Holding(y.asset)
    BY <1>2, UndoPayIs DEF Same
  <2>3. x.algos \in Amounts
    BY Zenon DEF Balances
  <2>4. x.algos % Modulus = x.algos
    BY Zenon, <2>3, ModOfAmount
  <2> QED BY Zenon, <1>2, <2>1, <2>2, <2>4 DEF Same
<1> QED BY Zenon, <1>1, <1>2 DEF Reverses

(* The payment, as a change of each user's algos. *)
LEMMA PaymentIs ==
  ASSUME NEW b \in Sheet, NEW snd \in Users, NEW rcv \in Users, NEW rew \in Rewards,
         NEW p, p = Payment(b, snd, rcv, rew), NEW rr, rr = IF rcv = snd THEN 0 ELSE rew
  PROVE  /\ p.tx = [kind |-> "pay", snd |-> snd, rcv |-> rcv, cls |-> NoAddr, asnd |-> NoAddr,
                    amt |-> Amount, srew |-> rew, rrew |-> rr, crew |-> 0, closing |-> 0]
         /\ p.after \in AnySheet
         /\ \A u \in Accounts : p.after[u].asset = b[u].asset
         /\ \A u \in Users : p.after[u].algos =
              b[u].algos + If(u = snd, rew - Fee) + If(u = snd, 0 - Amount) + If(u = rcv, Amount + rr)
         /\ rew \in Nat /\ rr \in Nat /\ snd # NoAddr /\ rcv # NoAddr
<1> DEFINE neg == 0 - Amount
           pos == Amount + rr
           c1 == Charge(b, snd, rew)
           c2 == AddAlgos(c1, snd, neg)
           c3 == AddAlgos(c2, rcv, pos)
<1>1. /\ p.after = c3
      /\ p.tx = [kind |-> "pay", snd |-> snd, rcv |-> rcv, cls |-> NoAddr, asnd |-> NoAddr,
                 amt |-> Amount, srew |-> rew, rrew |-> rr, crew |-> 0, closing |-> 0]
  BY Zenon DEF Tx, Payment
<1>2. /\ rr \in Nat /\ rew \in Nat /\ neg \in Int /\ pos \in Int /\ rew \in Int
      /\ snd \in Accounts /\ rcv \in Accounts
  BY RewindAssumption DEF Amount, Accounts
<1>3. snd # NoAddr /\ rcv # NoAddr
  BY Zenon, RewindAssumption
<1> HIDE DEF neg, pos
<1>4. /\ c1 \in AnySheet
      /\ \A u \in Accounts : c1[u].asset = b[u].asset
      /\ \A u \in Users : c1[u].algos = b[u].algos + If(u = snd, rew - Fee)
  BY <1>2, SheetIs, ChargeIs
<1> HIDE DEF c1
<1>5. /\ c2 \in AnySheet
      /\ \A u \in Accounts : c2[u].algos = c1[u].algos + If(u = snd, neg) /\ c2[u].asset = c1[u].asset
  <2>1. c1 \in AnySheet /\ snd \in Accounts /\ neg \in Int
    BY Zenon, <1>2, <1>4
  <2> QED BY <2>1, AddAlgosIs
<1> HIDE DEF c2
<1>6. /\ c3 \in AnySheet
      /\ \A u \in Accounts : c3[u].algos = c2[u].algos + If(u = rcv, pos) /\ c3[u].asset = c2[u].asset
  BY SMTT(60), <1>2, <1>5, AddAlgosIs
<1> HIDE DEF c3
<1>7. \A u \in Users : c3[u].algos =
        b[u].algos + If(u = snd, rew - Fee) + If(u = snd, neg) + If(u = rcv, pos)
  <2> TAKE u \in Users
  <2>1. u \in Accounts
    BY Zenon DEF Accounts
  <2> QED BY <1>4, <1>5, <1>6, <2>1
<1>8. \A u \in Accounts : c3[u].asset = b[u].asset
  BY Zenon, <1>4, <1>5, <1>6
<1>9. neg = 0 - Amount /\ pos = Amount + rr
  BY Zenon DEF neg, pos
<1>10. /\ p.after \in AnySheet
       /\ \A u \in Accounts : p.after[u].asset = b[u].asset
       /\ \A u \in Users : p.after[u].algos =
            b[u].algos + If(u = snd, rew - Fee) + If(u = snd, 0 - Amount) + If(u = rcv, Amount + rr)
  BY Zenon, <1>1, <1>6, <1>7, <1>8, <1>9
<1> QED BY Zenon, <1>1, <1>2, <1>3, <1>10

LEMMA PaymentRecorded ==
  ASSUME NEW b \in Sheet, NEW p \in Payments(b), Accepted(p)
  PROVE  Recorded(b, p) /\ \A u \in Users : p.after[u].asset = b[u].asset
<1>1. PICK snd \in Users, rcv \in Users, rew \in Rewards : p = Payment(b, snd, rcv, rew)
  BY DEF Payments
<1> DEFINE rr == IF rcv = snd THEN 0 ELSE rew
<1>2. /\ p.tx = [kind |-> "pay", snd |-> snd, rcv |-> rcv, cls |-> NoAddr, asnd |-> NoAddr,
                 amt |-> Amount, srew |-> rew, rrew |-> rr, crew |-> 0, closing |-> 0]
      /\ p.after \in AnySheet
      /\ \A u \in Accounts : p.after[u].asset = b[u].asset
      /\ \A u \in Users : p.after[u].algos =
           b[u].algos + If(u = snd, rew - Fee) + If(u = snd, 0 - Amount) + If(u = rcv, Amount + rr)
      /\ rew \in Nat /\ rr \in Nat /\ snd # NoAddr /\ rcv # NoAddr
  BY <1>1, PaymentIs
<1>3. rcv = snd => rr = 0
  BY Zenon
<1> HIDE DEF rr
<1>4. Amount \in Int /\ Fee \in Int
  BY DEF Amount, Fee
<1>5. p.tx \in TxSet
  BY <1>2, <1>4 DEF TxSet, TxKinds
<1>6. \A u \in Accounts : /\ p.after[u].algos \in Amounts
                          /\ p.after[u].asset >= -1 /\ p.after[u].asset < Modulus
  BY Zenon, <1>2, SheetIs DEF Accepted
<1>7. p.after \in Sheet
  BY Zenon, <1>2, <1>6, SheetFrom
<1>8. ASSUME NEW a \in Users
      PROVE  Reverses(p.tx, a, b[a], p.after[a])
  <2> a \in Accounts
    BY Zenon DEF Accounts
  <2>1. /\ b[a] \in Balances /\ p.after[a] \in Balances /\ p.after[a].asset = b[a].asset
        /\ b[a].algos \in Int /\ p.after[a].algos \in Int /\ a # NoAddr
    BY Zenon, <1>2, <1>7, SheetIs, RewindAssumption
  <2>2. p.after[a].algos = b[a].algos + If(a = snd, rew - Fee) + If(a = snd, 0 - Amount)
                             + If(a = rcv, Amount + rr)
    BY Zenon, <1>2
  <2>3. Participants(p.tx) = {snd, rcv}
    BY <1>2 DEF Participants
  <2>4. a \notin {snd, rcv} => p.after[a].algos = b[a].algos
    BY <2>1, <2>2 DEF If
  <2>5. PayDelta(a, p.tx) = If(a = snd, Fee - rew) + If(a = snd, Amount) - If(a = rcv, Amount + rr) + 0
    BY <1>2, <2>1 DEF PayDelta, If
  <2>6. b[a].algos = p.after[a].algos + PayDelta(a, p.tx)
    BY <1>2, <1>4, <2>1, <2>2, <2>5 DEF If
  <2>7. p.tx.kind \in {"pay", "close"}
    BY <1>2
  <2> QED BY Zenon, <1>5, <2>1, <2>3, <2>4, <2>6, <2>7, PayReverses
<1> QED BY Zenon, <1>2, <1>5, <1>7, <1>8, SheetIs DEF Recorded

LEMMA ClosingRecorded ==
  ASSUME NEW b \in Sheet, NEW p \in Closings(b), Accepted(p)
  PROVE  Recorded(b, p) /\ \A u \in Users : p.after[u].asset = b[u].asset
<1>1. PICK snd \in Users, rcv \in Users, cls \in Users, rew \in Rewards :
        snd # cls /\ p = Closing(b, snd, rcv, cls, rew)
  <2>1. PICK t \in {q \in Users \X Users \X Users : q[1] # q[3]}, rew \in Rewards :
          p = Closing(b, t[1], t[2], t[3], rew)
    BY DEF Closings
  <2>2. t[1] \in Users /\ t[2] \in Users /\ t[3] \in Users /\ t[1] # t[3]
    BY Zenon
  <2> QED BY Zenon, <2>1, <2>2
<1> DEFINE rr == IF rcv = snd THEN 0 ELSE rew
           cr == IF cls = rcv THEN 0 ELSE rew
           q  == Payment(b, snd, rcv, rew)
           n  == q.after[snd].algos
           neg == 0 - n
           pos == n + cr
           c0 == q.after
           c1 == AddAlgos(c0, snd, neg)
           c2 == AddAlgos(c1, cls, pos)
<1>2. /\ q.tx = [kind |-> "pay", snd |-> snd, rcv |-> rcv, cls |-> NoAddr, asnd |-> NoAddr,
                 amt |-> Amount, srew |-> rew, rrew |-> rr, crew |-> 0, closing |-> 0]
      /\ c0 \in AnySheet
      /\ \A u \in Accounts : c0[u].asset = b[u].asset
      /\ \A u \in Users : c0[u].algos =
           b[u].algos + If(u = snd, rew - Fee) + If(u = snd, 0 - Amount) + If(u = rcv, Amount + rr)
      /\ rew \in Nat /\ rr \in Nat /\ snd # NoAddr /\ rcv # NoAddr
  <2> HIDE DEF rr, q
  <2> QED BY PaymentIs DEF rr, q
<1>3. p.after = c2
  BY Zenon, <1>1 DEF Closing
<1>8. p.tx = [kind |-> "close", snd |-> snd, rcv |-> rcv, cls |-> cls, asnd |-> NoAddr,
              amt |-> Amount, srew |-> rew, rrew |-> rr, crew |-> cr, closing |-> n]
  BY ZenonT(30), <1>1 DEF Closing, Payment, Tx
<1>4. /\ snd \in Accounts /\ cls \in Accounts
      /\ \A u \in Users : u # NoAddr
  BY Zenon, RewindAssumption DEF Accounts
<1>5. (rcv = snd => rr = 0) /\ cr \in Int
  BY <1>2
<1>6. n \in Int
  BY Zenon, <1>2, <1>4 DEF AnySheet
<1>7. neg \in Int /\ pos \in Int
  BY <1>5, <1>6
<1> HIDE DEF rr, cr, q, n, neg, pos, c0
<1>9. /\ c1 \in AnySheet
      /\ \A u \in Accounts : c1[u].algos = c0[u].algos + If(u = snd, neg)
                             /\ c1[u].asset = c0[u].asset
  <2>1. c0 \in AnySheet /\ snd \in Accounts /\ neg \in Int
    BY Zenon, <1>2, <1>4, <1>7
  <2> QED BY <2>1, AddAlgosIs
<1> HIDE DEF c1
<1>10. /\ c2 \in AnySheet
       /\ \A u \in Accounts : c2[u].algos = c1[u].algos + If(u = cls, pos)
                              /\ c2[u].asset = c1[u].asset
  <2>1. c1 \in AnySheet /\ cls \in Accounts /\ pos \in Int
    BY Zenon, <1>4, <1>7, <1>9
  <2> QED BY <2>1, AddAlgosIs
<1> HIDE DEF c2
<1>11. Amount \in Int /\ Fee \in Int
  BY DEF Amount, Fee
<1>12. p.tx \in TxSet
  BY <1>2, <1>5, <1>6, <1>8, <1>11 DEF TxSet, TxKinds
<1>13. \A u \in Accounts : c2[u].asset = b[u].asset
  BY Zenon, <1>2, <1>9, <1>10
<1>14. \A u \in Accounts : /\ c2[u].algos \in Amounts
                           /\ c2[u].asset >= -1 /\ c2[u].asset < Modulus
  BY Zenon, <1>3, <1>13, SheetIs DEF Accepted
<1>15. c2 \in Sheet
  BY Zenon, <1>10, <1>14, SheetFrom
<1>16. ASSUME NEW a \in Users
       PROVE  Reverses(p.tx, a, b[a], c2[a])
  <2> a \in Accounts
    BY Zenon DEF Accounts
  <2>1. /\ b[a] \in Balances /\ c2[a] \in Balances /\ c2[a].asset = b[a].asset
        /\ b[a].algos \in Int /\ c2[a].algos \in Int
    BY Zenon, <1>13, <1>15, SheetIs
  <2>2. c2[a].algos = (b[a].algos + If(a = snd, rew - Fee) + If(a = snd, 0 - Amount)
                        + If(a = rcv, Amount + rr)) + If(a = snd, neg) + If(a = cls, pos)
    BY <1>2, <1>9, <1>10
  <2>3. Participants(p.tx) = {snd, rcv, cls}
    BY <1>2, <1>4, <1>8 DEF Participants
  <2>4. a \notin {snd, rcv, cls} => c2[a].algos = b[a].algos
    BY <2>1, <2>2 DEF If
  <2>5. PayDelta(a, p.tx) = If(a = snd, Fee - rew) + If(a = snd, Amount) - If(a = rcv, Amount + rr)
                              + (IF a = cls THEN 0 - n - cr ELSE n)
    BY <1>8, <1>4 DEF PayDelta, If
  <2>6. Misread(p.tx, a) <=> a \notin {snd, cls}
    BY <1>8 DEF Misread
  <2>7. neg = 0 - n /\ pos = n + cr
    BY Zenon DEF neg, pos
  <2>8. a \in {snd, cls} => b[a].algos = c2[a].algos + PayDelta(a, p.tx)
    <3>1. CASE a = snd
      BY <3>1, <1>1, <1>2, <1>5, <1>6, <1>11, <2>1, <2>2, <2>5, <2>7 DEF If
    <3>2. CASE a = cls
      BY SMTT(60), <3>2, <1>1, <1>2, <1>5, <1>6, <1>11, <2>1, <2>2, <2>5, <2>7 DEF If
    <3> QED BY Zenon, <3>1, <3>2
  <2>9. p.tx.kind \in {"pay", "close"}
    BY <1>8
  <2> QED BY Zenon, <1>12, <2>1, <2>3, <2>4, <2>6, <2>8, <2>9, PayReverses
<1> QED BY Zenon, <1>3, <1>12, <1>13, <1>15, <1>16, SheetIs DEF Recorded

(* An account whose assets, if anything, the transaction changes: the fee. *)
LEMMA FeeUndone ==
  ASSUME NEW tx \in TxSet, tx.srew = 0, NEW a \in Users,
         NEW x \in Balances, NEW y \in Balances, y.algos = x.algos + If(a = tx.snd, 0 - Fee),
         NEW acc \in AcctSet, Same(acc, y)
  PROVE  /\ UndoFee(acc, a, tx) \in AcctSet
         /\ UndoFee(acc, a, tx).algos = x.algos
         /\ UndoFee(acc, a, tx).asset = acc.asset
         /\ a # tx.snd => y.algos = x.algos
<1>1. x.algos \in Amounts /\ x.algos \in Int /\ y.algos \in Int /\ Fee \in Int
  BY ModulusType DEF Balances, Amounts, Fee
<1>2. acc.algos = y.algos
  BY Zenon DEF Same
<1>3. acc.algos + If(a = tx.snd, Fee - tx.srew) = x.algos /\ (a # tx.snd => y.algos = x.algos)
  BY <1>1, <1>2 DEF If
<1>4. x.algos % Modulus = x.algos
  BY Zenon, <1>1, ModOfAmount
<1> QED BY <1>3, <1>4, UndoFeeIs

(* The fee alone. *)
LEMMA FeeCharged ==
  ASSUME NEW b \in Sheet, NEW snd \in Users
  PROVE  /\ Charge(b, snd, 0) \in AnySheet
         /\ \A u \in Accounts : Charge(b, snd, 0)[u].asset = b[u].asset
         /\ \A u \in Users : Charge(b, snd, 0)[u].algos = b[u].algos + If(u = snd, 0 - Fee)
  BY SheetIs, ChargeIs

LEMMA FeeOnlyRecorded ==
  ASSUME NEW b \in Sheet, NEW kind \in {"keyreg", "appl"}, NEW p \in FeeOnly(b, kind), Accepted(p)
  PROVE  Recorded(b, p) /\ \A u \in Users : p.after[u].asset = b[u].asset
<1>1. PICK snd \in Users :
        p = [tx |-> Tx(kind, snd, NoAddr, NoAddr, NoAddr), after |-> Charge(b, snd, 0)]
  BY Zenon DEF FeeOnly
<1> DEFINE c1 == Charge(b, snd, 0)
<1>2. /\ p.after = c1
      /\ p.tx = [kind |-> kind, snd |-> snd, rcv |-> NoAddr, cls |-> NoAddr, asnd |-> NoAddr,
                 amt |-> 0, srew |-> 0, rrew |-> 0, crew |-> 0, closing |-> 0]
  BY Zenon, <1>1 DEF Tx
<1>3. /\ c1 \in AnySheet
      /\ \A u \in Accounts : c1[u].asset = b[u].asset
      /\ \A u \in Users : c1[u].algos = b[u].algos + If(u = snd, 0 - Fee)
  BY FeeCharged
<1> HIDE DEF c1
<1>4. p.tx \in TxSet
  BY <1>2 DEF TxSet, TxKinds
<1>5. \A u \in Accounts : /\ c1[u].algos \in Amounts
                          /\ c1[u].asset >= -1 /\ c1[u].asset < Modulus
  BY Zenon, <1>2, <1>3, SheetIs DEF Accepted
<1>6. c1 \in Sheet
  BY Zenon, <1>3, <1>5, SheetFrom
<1>7. ASSUME NEW a \in Users
      PROVE  Reverses(p.tx, a, b[a], c1[a])
  <2>1. b[a] \in Balances /\ c1[a] \in Balances /\ c1[a].asset = b[a].asset
    BY Zenon, <1>3, <1>6, SheetIs
  <2>2. c1[a].algos = b[a].algos + If(a = snd, 0 - Fee) /\ b[a].algos \in Int
    BY Zenon, <1>3, SheetIs
  <2>3. Participants(p.tx) = {snd} /\ p.tx.snd = snd /\ p.tx.srew = 0
    BY <1>2 DEF Participants
  <2>4. a # snd => Same(b[a], c1[a])
    BY <2>1, <2>2 DEF Same, If
  <2>5. ASSUME NEW acc \in AcctSet, Same(acc, c1[a])
        PROVE  Same(Undo(acc, a, p.tx), b[a])
    <3>1. UndoFee(acc, a, p.tx).algos = b[a].algos /\ UndoFee(acc, a, p.tx).asset = acc.asset
      BY <1>4, <2>1, <2>2, <2>3, <2>5, FeeUndone
    <3>2. Undo(acc, a, p.tx) = UndoFee(acc, a, p.tx)
      BY <1>2 DEF Undo
    <3> QED BY Zenon, <2>1, <2>5, <3>1, <3>2 DEF Same
  <2> QED BY Zenon, <2>3, <2>4, <2>5 DEF Reverses
<1> QED BY Zenon, <1>2, <1>3, <1>4, <1>6, <1>7, SheetIs DEF Recorded

LEMMA CreationRecorded ==
  ASSUME NEW b \in Sheet, NEW p \in Creations(b), Accepted(p),
         ~Created => \A u \in Users : b[u].asset = NoHolding
  PROVE  Recorded(b, p) /\ p.tx.kind = "acfg"
<1>1. PICK snd \in Users :
        /\ ~Created
        /\ p = [tx |-> [Tx("acfg", snd, NoAddr, NoAddr, NoAddr) EXCEPT !.amt = Total],
                after |-> [Charge(b, snd, 0) EXCEPT ![snd].asset = Total]]
  BY Zenon DEF Creations
<1> DEFINE c1 == Charge(b, snd, 0)
           c2 == [c1 EXCEPT ![snd].asset = Total]
<1>2. /\ p.after = c2
      /\ p.tx = [kind |-> "acfg", snd |-> snd, rcv |-> NoAddr, cls |-> NoAddr, asnd |-> NoAddr,
                 amt |-> Total, srew |-> 0, rrew |-> 0, crew |-> 0, closing |-> 0]
  BY Zenon, <1>1 DEF Tx
<1>3. /\ c1 \in AnySheet
      /\ \A u \in Accounts : c1[u].asset = b[u].asset
      /\ \A u \in Users : c1[u].algos = b[u].algos + If(u = snd, 0 - Fee)
  BY FeeCharged
<1> HIDE DEF c1
<1>4. Total \in Amounts
  BY Zenon, RewindAssumption DEF Amounts, Modulus
<1>5. Total \in Int /\ Total >= 0 /\ Total < Modulus /\ snd \in Accounts
  BY <1>4, ModulusType DEF Amounts, Accounts
<1>6. /\ c2 \in AnySheet
      /\ \A u \in Accounts : /\ c2[u].asset = IF u = snd THEN Total ELSE c1[u].asset
                             /\ c2[u].algos = c1[u].algos
  BY <1>3, <1>5, SetAssetIs
<1> HIDE DEF c2
<1>7. p.tx \in TxSet
  BY <1>2, <1>5 DEF TxSet, TxKinds
<1>8. \A u \in Accounts : /\ c2[u].algos \in Amounts
                          /\ c2[u].asset >= -1 /\ c2[u].asset < Modulus
  <2> TAKE u \in Accounts
  <2>1. b[u].asset \in Int /\ b[u].asset >= -1
    BY Zenon, SheetIs
  <2>2. c2[u].asset >= -1
    BY <1>3, <1>5, <1>6, <2>1
  <2> QED BY Zenon, <1>2, <2>2 DEF Accepted
<1>9. c2 \in Sheet
  BY Zenon, <1>6, <1>8, SheetFrom
<1>10. ASSUME NEW a \in Users
       PROVE  Reverses(p.tx, a, b[a], c2[a])
  <2>1. b[a] \in Balances /\ c2[a] \in Balances /\ a \in Accounts
    BY Zenon, <1>9, SheetIs
  <2>2. c2[a].algos = b[a].algos + If(a = snd, 0 - Fee) /\ b[a].algos \in Int
    BY Zenon, <1>3, <1>6, <2>1, SheetIs
  <2>3. Participants(p.tx) = {snd} /\ p.tx.snd = snd /\ p.tx.srew = 0 /\ p.tx.amt = Total
    BY <1>2 DEF Participants
  <2>4. a # snd => Same(b[a], c2[a])
    BY <1>3, <1>6, <2>1, <2>2 DEF Same, If
  <2>5. ASSUME a = snd, NEW acc \in AcctSet, Same(acc, c2[a])
        PROVE  Same(Undo(acc, a, p.tx), b[a])
    <3> DEFINE f == UndoFee(acc, a, p.tx)
    <3>1. f \in AcctSet /\ f.algos = b[a].algos /\ f.asset = acc.asset
      BY <1>7, <2>1, <2>2, <2>3, <2>5, FeeUndone
    <3>2. Undo(acc, a, p.tx) = AssetUpdate(f, 0, Total)
      BY <1>2 DEF Undo
    <3> HIDE DEF f
    <3>3. Holding(f.asset) = Total
      BY <1>5, <1>6, <2>1, <2>5, <3>1 DEF Same, Holding, NoHolding
    <3>4. /\ AssetUpdate(f, 0, Total).algos = f.algos
          /\ Holding(AssetUpdate(f, 0, Total).asset) = (Holding(f.asset) + 0 - Total) % Modulus
      BY <1>5, <3>1, AssetUpdateIs
    <3>5. Holding(f.asset) + 0 - Total = 0 /\ 0 \in Amounts
      BY <1>5, <3>3, ModulusType DEF Amounts
    <3>6. 0 % Modulus = 0
      BY Zenon, <3>5, ModOfAmount
    <3>7. Holding(b[a].asset) = 0
      BY Zenon, <1>1 DEF Holding
    <3> QED BY Zenon, <3>1, <3>2, <3>4, <3>5, <3>6, <3>7 DEF Same
  <2> QED BY Zenon, <2>3, <2>4, <2>5 DEF Reverses
<1> QED BY <1>2, <1>7, <1>9, <1>10 DEF Recorded

LEMMA DestructionRecorded ==
  ASSUME NEW b \in Sheet, NEW p \in Destructions(b), Accepted(p)
  PROVE  Recorded(b, p) /\ \E u \in Users : b[u].asset = Total
<1>1. PICK snd \in Users :
        /\ b[snd].asset = Total
        /\ p = [tx |-> Tx("destroy", snd, NoAddr, NoAddr, NoAddr),
                after |-> [Charge(b, snd, 0) EXCEPT ![snd].asset = NoHolding]]
  BY Zenon DEF Destructions
<1> DEFINE c1 == Charge(b, snd, 0)
           c2 == [c1 EXCEPT ![snd].asset = NoHolding]
<1>2. /\ p.after = c2
      /\ p.tx = [kind |-> "destroy", snd |-> snd, rcv |-> NoAddr, cls |-> NoAddr, asnd |-> NoAddr,
                 amt |-> 0, srew |-> 0, rrew |-> 0, crew |-> 0, closing |-> 0]
  BY Zenon, <1>1 DEF Tx
<1>3. /\ c1 \in AnySheet
      /\ \A u \in Accounts : c1[u].asset = b[u].asset
      /\ \A u \in Users : c1[u].algos = b[u].algos + If(u = snd, 0 - Fee)
  BY FeeCharged
<1> HIDE DEF c1
<1>4. NoHolding \in Int /\ snd \in Accounts /\ NoHolding >= -1
  BY DEF NoHolding, Accounts
<1>5. /\ c2 \in AnySheet
      /\ \A u \in Accounts : /\ c2[u].asset = IF u = snd THEN NoHolding ELSE c1[u].asset
                             /\ c2[u].algos = c1[u].algos
  BY <1>3, <1>4, SetAssetIs
<1> HIDE DEF c2
<1>6. p.tx \in TxSet
  BY <1>2 DEF TxSet, TxKinds
<1>7. \A u \in Accounts : /\ c2[u].algos \in Amounts
                          /\ c2[u].asset >= -1 /\ c2[u].asset < Modulus
  <2> TAKE u \in Accounts
  <2>1. b[u].asset \in Int /\ b[u].asset >= -1
    BY Zenon, SheetIs
  <2>2. c2[u].asset >= -1
    BY Zenon, <1>3, <1>4, <1>5, <2>1
  <2> QED BY Zenon, <1>2, <2>2 DEF Accepted
<1>8. c2 \in Sheet
  BY Zenon, <1>5, <1>7, SheetFrom
<1>9. ASSUME NEW a \in Users
      PROVE  Reverses(p.tx, a, b[a], c2[a])
  <2>1. Participants(p.tx) = {snd} /\ Misread(p.tx, a)
    BY <1>2 DEF Participants, Misread
  <2>2. a \in Accounts /\ b[a].algos \in Int
    BY Zenon, SheetIs
  <2>3. a # snd => Same(b[a], c2[a])
    BY <1>3, <1>5, <2>2 DEF Same, If
  <2> QED BY Zenon, <2>1, <2>3 DEF Reverses
<1> QED BY Zenon, <1>1, <1>2, <1>6, <1>8, <1>9 DEF Recorded

(* The holding that UndoTransfer leaves of a holding h. *)
HoldingBack(h, a, tx) ==
    LET h1 == IF a \in {tx.asnd, tx.snd} THEN (h + (tx.amt + tx.closing) - 0) % Modulus ELSE h
        h2 == IF a = tx.rcv THEN (h1 + 0 - tx.amt) % Modulus ELSE h1
    IN  IF a = tx.cls THEN (h2 + 0 - tx.closing) % Modulus ELSE h2

LEMMA UndoTransferIs ==
  ASSUME NEW acc \in AcctSet, NEW tx \in TxSet, NEW a
  PROVE  Holding(UndoTransfer(acc, a, tx).asset) = HoldingBack(Holding(acc.asset), a, tx)
<1> DEFINE k  == tx.amt + tx.closing
           a1 == IF a \in {tx.asnd, tx.snd} THEN AssetUpdate(acc, k, 0) ELSE acc
           a2 == IF a = tx.rcv THEN AssetUpdate(a1, 0, tx.amt) ELSE a1
           a3 == IF a = tx.cls THEN AssetUpdate(a2, 0, tx.closing) ELSE a2
           h  == Holding(acc.asset)
           h1 == IF a \in {tx.asnd, tx.snd} THEN (h + k - 0) % Modulus ELSE h
           h2 == IF a = tx.rcv THEN (h1 + 0 - tx.amt) % Modulus ELSE h1
           h3 == IF a = tx.cls THEN (h2 + 0 - tx.closing) % Modulus ELSE h2
<1>1. tx.amt \in Int /\ tx.closing \in Int /\ k \in Int
  BY DEF TxSet
<1>2. UndoTransfer(acc, a, tx) = a3
  BY Zenon DEF UndoTransfer
<1>3. HoldingBack(h, a, tx) = h3
  BY Zenon DEF HoldingBack
<1> HIDE DEF k
<1>4. a1 \in AcctSet /\ Holding(a1.asset) = h1
  <2> DEFINE up == AssetUpdate(acc, k, 0)
  <2>1. up \in AcctSet /\ Holding(up.asset) = (h + k - 0) % Modulus
    BY <1>1, AssetUpdateIs
  <2> HIDE DEF up
  <2> QED BY Zenon, <2>1 DEF up
<1> HIDE DEF a1, h1
<1>5. a2 \in AcctSet /\ Holding(a2.asset) = h2
  BY <1>1, <1>4, AssetUpdateIs
<1> HIDE DEF a2, h2
<1>6. Holding(a3.asset) = h3
  BY <1>1, <1>5, AssetUpdateIs
<1> QED BY Zenon, <1>2, <1>3, <1>6

LEMMA TransferReverses ==
  ASSUME NEW tx \in TxSet, tx.kind \in {"axfer", "aclose", "clawback"}, tx.srew = 0,
         NEW a \in Users, NEW x \in Balances, NEW y \in Balances,
         y.algos = x.algos + If(a = tx.snd, 0 - Fee),
         a \notin Participants(tx) => Same(x, y),
         (a \in Participants(tx) /\ ~Misread(tx, a)) =>
            HoldingBack(Holding(y.asset), a, tx) = Holding(x.asset)
  PROVE  Reverses(tx, a, x, y)
<1>1. ASSUME a \in Participants(tx), ~Misread(tx, a), NEW acc \in AcctSet, Same(acc, y)
      PROVE  Same(Undo(acc, a, tx), x)
  <2> DEFINE f == UndoFee(acc, a, tx)
  <2>1. f \in AcctSet /\ f.algos = x.algos /\ f.asset = acc.asset
    BY <1>1, FeeUndone
  <2>2. Undo(acc, a, tx) = UndoTransfer(f, a, tx)
    BY Zenon DEF Undo
  <2> HIDE DEF f
  <2>3. UndoTransfer(f, a, tx).algos = f.algos
    BY Zenon, <2>1, UndoTransferType
  <2>4. Holding(UndoTransfer(f, a, tx).asset) = HoldingBack(Holding(f.asset), a, tx)
    BY Zenon, <2>1, UndoTransferIs
  <2> QED BY Zenon, <1>1, <2>1, <2>2, <2>3, <2>4 DEF Same
<1> QED BY Zenon, <1>1 DEF Reverses

LEMMA OptInRecorded ==
  ASSUME NEW b \in Sheet, NEW p \in OptIns(b), Accepted(p)
  PROVE  Recorded(b, p) /\ Created
<1>1. PICK snd \in Users :
        /\ Created /\ ~HasAsset(b, snd)
        /\ p = [tx |-> Tx("axfer", snd, snd, NoAddr, NoAddr),
                after |-> [Charge(b, snd, 0) EXCEPT ![snd].asset = 0]]
  BY Zenon DEF OptIns
<1> DEFINE c1 == Charge(b, snd, 0)
           c2 == [c1 EXCEPT ![snd].asset = 0]
<1>2. /\ p.after = c2
      /\ p.tx = [kind |-> "axfer", snd |-> snd, rcv |-> snd, cls |-> NoAddr, asnd |-> NoAddr,
                 amt |-> 0, srew |-> 0, rrew |-> 0, crew |-> 0, closing |-> 0]
  BY Zenon, <1>1 DEF Tx
<1>3. /\ c1 \in AnySheet
      /\ \A u \in Accounts : c1[u].asset = b[u].asset
      /\ \A u \in Users : c1[u].algos = b[u].algos + If(u = snd, 0 - Fee)
  BY FeeCharged
<1> HIDE DEF c1
<1>4. snd \in Accounts /\ \A u \in Users : u # NoAddr
  BY Zenon, RewindAssumption DEF Accounts
<1>5. /\ c2 \in AnySheet
      /\ \A u \in Accounts : /\ c2[u].asset = IF u = snd THEN 0 ELSE c1[u].asset
                             /\ c2[u].algos = c1[u].algos
  <2> DEFINE zero == 0
  <2>1. zero \in Int /\ zero = 0
    OBVIOUS
  <2> HIDE DEF zero
  <2>2. /\ [c1 EXCEPT ![snd].asset = zero] \in AnySheet
        /\ \A u \in Accounts :
             /\ [c1 EXCEPT ![snd].asset = zero][u].asset = IF u = snd THEN zero ELSE c1[u].asset
             /\ [c1 EXCEPT ![snd].asset = zero][u].algos = c1[u].algos
    <3>1. c1 \in AnySheet /\ snd \in Accounts /\ zero \in Int
      BY Zenon, <1>3, <1>4, <2>1
    <3> QED BY <3>1, SetAssetIs
  <2> QED BY <2>1, <2>2
<1> HIDE DEF c2
<1>6. p.tx \in TxSet
  BY <1>2 DEF TxSet, TxKinds
<1>7. \A u \in Accounts : /\ c2[u].algos \in Amounts
                          /\ c2[u].asset >= -1 /\ c2[u].asset < Modulus
  <2> TAKE u \in Accounts
  <2>1. b[u].asset \in Int /\ b[u].asset >= -1
    BY Zenon, SheetIs
  <2>2. c2[u].asset >= -1
    BY <1>3, <1>5, <2>1
  <2> QED BY Zenon, <1>2, <2>2 DEF Accepted
<1>8. c2 \in Sheet
  BY Zenon, <1>5, <1>7, SheetFrom
<1>9. ASSUME NEW a \in Users
      PROVE  Reverses(p.tx, a, b[a], c2[a])
  <2>1. /\ b[a] \in Balances /\ c2[a] \in Balances /\ a \in Accounts /\ b[a].algos \in Int
        /\ a # NoAddr
    BY Zenon, <1>4, <1>8, SheetIs
  <2>2. c2[a].algos = b[a].algos + If(a = snd, 0 - Fee)
    BY Zenon, <1>3, <1>5, <2>1
  <2>3. Participants(p.tx) = {snd}
    BY <1>2, <1>4 DEF Participants
  <2>4. a # snd => Same(b[a], c2[a])
    BY <1>3, <1>5, <2>1, <2>2 DEF Same, If
  <2>5. ASSUME a = snd
        PROVE  HoldingBack(Holding(c2[a].asset), a, p.tx) = Holding(b[a].asset)
    <3>1. Holding(c2[a].asset) = 0
      BY Zenon, <1>4, <1>5, <2>5 DEF Holding, NoHolding
    <3>2. Holding(b[a].asset) = 0
      BY Zenon, <1>1, <2>5 DEF Holding, HasAsset
    <3>3. 0 % Modulus = 0
      <4>1. 0 \in Amounts
        BY ModulusType DEF Amounts
      <4> QED BY Zenon, <4>1, ModOfAmount
    <3>4. HoldingBack(0, a, p.tx) = (((0 + (0 + 0) - 0) % Modulus) + 0 - 0) % Modulus
      BY <1>2, <2>1, <2>5 DEF HoldingBack
    <3> QED BY <3>1, <3>2, <3>3, <3>4
  <2>6. p.tx.snd = snd /\ p.tx.srew = 0 /\ p.tx.kind \in {"axfer", "aclose", "clawback"}
    BY SMTT(60), <1>2
  <2> QED BY Zenon, <1>6, <2>1, <2>2, <2>3, <2>4, <2>5, <2>6, TransferReverses
<1> QED BY Zenon, <1>1, <1>2, <1>6, <1>8, <1>9 DEF Recorded

(* Amount units moved between holdings, by their owner or by clawback. *)
LEMMA TransferRecorded ==
  ASSUME NEW b \in Sheet, NEW snd \in Users, NEW rcv \in Users, NEW from \in Users,
         NEW asnd, NEW kind,
         \/ kind = "axfer" /\ asnd = NoAddr /\ from = snd
         \/ kind = "clawback" /\ asnd = from,
         b[from].asset >= Amount, HasAsset(b, rcv),
         NEW p, p = Transfer(b, kind, snd, rcv, asnd, from), Accepted(p)
  PROVE  Recorded(b, p)
<1>0. p.tx.snd = snd
  BY Zenon DEF Transfer, Tx
<1> DEFINE neg == 0 - Amount
           c1 == Charge(b, snd, 0)
           c2 == AddAsset(c1, from, neg)
           c3 == AddAsset(c2, rcv, Amount)
<1>1. /\ p.after = c3
      /\ p.tx = [kind |-> kind, snd |-> snd, rcv |-> rcv, cls |-> NoAddr, asnd |-> asnd,
                 amt |-> Amount, srew |-> 0, rrew |-> 0, crew |-> 0, closing |-> 0]
  BY Zenon DEF Transfer, Tx
<1>2. /\ c1 \in AnySheet
      /\ \A u \in Accounts : c1[u].asset = b[u].asset
      /\ \A u \in Users : c1[u].algos = b[u].algos + If(u = snd, 0 - Fee)
  BY FeeCharged
<1>3. /\ from \in Accounts /\ rcv \in Accounts /\ neg \in Int /\ Amount \in Int /\ Amount = 1
      /\ neg = -1
  BY DEF Accounts, Amount
<1>4. \A u \in Users : u # NoAddr
  BY Zenon, RewindAssumption
<1> HIDE DEF c1, neg
<1>5. /\ c2 \in AnySheet
      /\ \A u \in Accounts : c2[u].asset = c1[u].asset + If(u = from, neg) /\ c2[u].algos = c1[u].algos
  <2>1. c1 \in AnySheet /\ from \in Accounts /\ neg \in Int
    BY Zenon, <1>2, <1>3
  <2> QED BY <2>1, AddAssetIs
<1> HIDE DEF c2
<1>6. /\ c3 \in AnySheet
      /\ \A u \in Accounts : c3[u].asset = c2[u].asset + If(u = rcv, Amount) /\ c3[u].algos = c2[u].algos
  BY <1>3, <1>5, AddAssetIs
<1> HIDE DEF c3
<1>7. p.tx \in TxSet
  BY SMTT(60), <1>1, <1>3 DEF TxSet, TxKinds
<1>8. ASSUME NEW u \in Accounts
      PROVE  /\ c3[u].asset = b[u].asset + If(u = from, neg) + If(u = rcv, Amount)
             /\ b[u].asset \in Int /\ b[u].asset >= -1
             /\ u = from => b[u].asset >= 1
             /\ u = rcv => b[u].asset >= 0
  <2>1. b[u].asset \in Int /\ b[u].asset >= -1
    BY Zenon, SheetIs
  <2>2. u = rcv => b[u].asset >= 0
    BY <2>1 DEF HasAsset, NoHolding
  <2> QED BY <1>2, <1>3, <1>5, <1>6, <2>1, <2>2
<1>9. ASSUME NEW u \in Accounts
      PROVE  c3[u].algos \in Amounts /\ c3[u].asset >= -1 /\ c3[u].asset < Modulus
  <2>1. c3[u].asset >= -1
    BY <1>3, <1>8 DEF If
  <2> QED BY Zenon, <1>1, <2>1 DEF Accepted
<1>10. c3 \in Sheet
  BY Zenon, <1>6, <1>9, SheetFrom
<1>11. ASSUME NEW a \in Users
       PROVE  Reverses(p.tx, a, b[a], c3[a])
  <2>1. /\ b[a] \in Balances /\ c3[a] \in Balances /\ a \in Accounts /\ b[a].algos \in Int
        /\ a # NoAddr /\ c3[a].asset < Modulus /\ b[a].asset < Modulus
    BY Zenon, <1>4, <1>10, SheetIs
  <2>2. c3[a].algos = b[a].algos + If(a = snd, 0 - Fee)
    BY <1>2, <1>5, <1>6, <2>1
  <2>3. Participants(p.tx) = {snd, from, rcv}
    BY <1>1, <1>4 DEF Participants
  <2>4. a \notin {snd, from, rcv} => Same(b[a], c3[a])
    <3>1. a \notin {snd, from, rcv} => c3[a].asset = b[a].asset /\ c3[a].algos = b[a].algos
      BY <1>8, <2>1, <2>2 DEF If
    <3> QED BY Zenon, <3>1 DEF Same
  <2>5. ASSUME a \in {snd, from, rcv}, ~Misread(p.tx, a)
        PROVE  HoldingBack(Holding(c3[a].asset), a, p.tx) = Holding(b[a].asset)
    <3>1. a \in {p.tx.asnd, p.tx.snd} <=> a = from
      BY SMTT(60), <1>1, <2>1, <2>5 DEF Misread
    <3>2. a \in {from, rcv}
      <4>1. a = snd => a = from
        BY Zenon, <1>0, <3>1
      <4> QED BY Zenon, <2>5, <4>1
    <3> DEFINE x == b[a].asset
               y == c3[a].asset
    <3>3. /\ y = x + If(a = from, neg) + If(a = rcv, Amount)
          /\ x \in Int /\ x >= 0 /\ x < Modulus
      BY <1>8, <2>1, <3>2
    <3> HIDE DEF x, y
    <3>4. y \in Int /\ y >= 0 /\ Holding(x) = x /\ Holding(y) = y /\ x \in Amounts
      <4>1. y >= 0 /\ y \in Int
        BY SMTT(60), <1>3, <1>8, <2>1, <3>2, <3>3 DEF If, x
      <4> QED BY <3>3, <4>1, ModulusType DEF Holding, NoHolding, Amounts
    <3>5. HoldingBack(y, a, p.tx) =
            IF a = rcv THEN ((IF a = from THEN (y + (Amount + 0) - 0) % Modulus ELSE y) + 0 - Amount) % Modulus
                       ELSE IF a = from THEN (y + (Amount + 0) - 0) % Modulus ELSE y
      BY <1>1, <2>1, <3>1 DEF HoldingBack
    <3>6. x % Modulus = x
      BY Zenon, <3>4, ModOfAmount
    <3>7. CASE a = from /\ a = rcv
      <4>1. y = x /\ y + (Amount + 0) - 0 = x + Amount
        BY <1>3, <3>3, <3>7 DEF If
      <4>2. Amount \in Amounts
        BY <1>3, ModulusType DEF Amounts
      <4>3. (((x + Amount) % Modulus) - Amount) % Modulus = x
        BY Zenon, <3>4, <4>2, ModThereAndBack
      <4>4. (x + Amount) % Modulus \in Int
        BY <1>3, <3>3, ModIsAmount, ModulusType DEF Amounts
      <4>5. ((x + Amount) % Modulus) + 0 - Amount = ((x + Amount) % Modulus) - Amount
        BY <1>3, <4>4
      <4> QED BY Zenon, <3>4, <3>5, <3>7, <4>1, <4>3, <4>5 DEF x, y
    <3>8. CASE a = from /\ a # rcv
      <4>1. y + (Amount + 0) - 0 = x
        BY SMTT(60), <1>3, <3>3, <3>8 DEF If
      <4> QED BY Zenon, <3>4, <3>5, <3>6, <3>8, <4>1 DEF x, y
    <3>9. CASE a # from /\ a = rcv
      <4>1. y + 0 - Amount = x
        BY SMTT(60), <1>3, <3>3, <3>9 DEF If
      <4> QED BY Zenon, <3>4, <3>5, <3>6, <3>9, <4>1 DEF x, y
    <3> QED BY Zenon, <3>2, <3>7, <3>8, <3>9
  <2>6. p.tx.snd = snd /\ p.tx.srew = 0 /\ p.tx.kind \in {"axfer", "aclose", "clawback"}
    BY <1>1
  <2> QED BY <1>7, <2>1, <2>2, <2>3, <2>4, <2>5, <2>6, TransferReverses
<1> QED BY Zenon, <1>1, <1>7, <1>10, <1>11 DEF Recorded

LEMMA TransfersRecorded ==
  ASSUME NEW b \in Sheet, NEW p \in Transfers(b) \cup Clawbacks(b), Accepted(p)
  PROVE  Recorded(b, p) /\ \E u \in Users : b[u].asset >= Amount
<1>1. CASE p \in Transfers(b)
  <2>1. PICK t \in {q \in Users \X Users : b[q[1]].asset >= Amount /\ HasAsset(b, q[2])} :
          p = Transfer(b, "axfer", t[1], t[2], NoAddr, t[1])
    BY Zenon, <1>1 DEF Transfers
  <2>2. t[1] \in Users /\ t[2] \in Users /\ b[t[1]].asset >= Amount /\ HasAsset(b, t[2])
    BY Zenon
  <2> QED BY Zenon, <2>1, <2>2, TransferRecorded
<1>2. CASE p \in Clawbacks(b)
  <2>1. PICK t \in {q \in Users \X Users \X Users : b[q[3]].asset >= Amount /\ HasAsset(b, q[2])} :
          p = Transfer(b, "clawback", t[1], t[2], t[3], t[3])
    BY Zenon, <1>2 DEF Clawbacks
  <2>2. /\ t[1] \in Users /\ t[2] \in Users /\ t[3] \in Users
        /\ b[t[3]].asset >= Amount /\ HasAsset(b, t[2])
    BY Zenon
  <2> QED BY Zenon, <2>1, <2>2, TransferRecorded
<1> QED BY Zenon, <1>1, <1>2

LEMMA AssetClosingRecorded ==
  ASSUME NEW b \in Sheet, NEW p \in AssetClosings(b), Accepted(p)
  PROVE  Recorded(b, p) /\ \E u \in Users : b[u].asset >= Amount
<1>1. PICK snd \in Users, rcv \in Users, cls \in Users :
        /\ snd # rcv /\ snd # cls /\ b[snd].asset >= Amount
        /\ HasAsset(b, rcv) /\ HasAsset(b, cls)
        /\ p = AssetClosing(b, snd, rcv, cls)
  <2>1. PICK t \in {q \in Users \X Users \X Users :
                     /\ q[1] \notin {q[2], q[3]} /\ b[q[1]].asset >= Amount
                     /\ HasAsset(b, q[2]) /\ HasAsset(b, q[3])} :
          p = AssetClosing(b, t[1], t[2], t[3])
    BY Zenon DEF AssetClosings
  <2>2. /\ t[1] \in Users /\ t[2] \in Users /\ t[3] \in Users
        /\ t[1] # t[2] /\ t[1] # t[3] /\ b[t[1]].asset >= Amount
        /\ HasAsset(b, t[2]) /\ HasAsset(b, t[3])
    BY Zenon
  <2> QED BY Zenon, <2>1, <2>2
<1> DEFINE n == b[snd].asset - Amount
           c1 == Charge(b, snd, 0)
           c2 == AddAsset(c1, rcv, Amount)
           c3 == AddAsset(c2, cls, n)
           c4 == [c3 EXCEPT ![snd].asset = NoHolding]
<1>2. /\ p.after = c4
      /\ p.tx = [kind |-> "aclose", snd |-> snd, rcv |-> rcv, cls |-> cls, asnd |-> NoAddr,
                 amt |-> Amount, srew |-> 0, rrew |-> 0, crew |-> 0, closing |-> n]
  BY Zenon, <1>1 DEF AssetClosing, Tx
<1>3. /\ c1 \in AnySheet
      /\ \A u \in Accounts : c1[u].asset = b[u].asset
      /\ \A u \in Users : c1[u].algos = b[u].algos + If(u = snd, 0 - Fee)
  BY FeeCharged
<1>4. /\ snd \in Accounts /\ rcv \in Accounts /\ cls \in Accounts /\ Amount \in Int /\ Amount = 1
      /\ NoHolding \in Int /\ NoHolding = -1
  BY DEF Accounts, Amount, NoHolding
<1>5. n \in Int /\ n >= 0 /\ b[snd].asset = n + 1 /\ b[snd].asset \in Int
  BY <1>1, <1>4, SheetIs
<1>6. \A u \in Users : u # NoAddr
  BY Zenon, RewindAssumption
<1> HIDE DEF c1, n
<1>7. /\ c2 \in AnySheet
      /\ \A u \in Accounts : c2[u].asset = c1[u].asset + If(u = rcv, Amount) /\ c2[u].algos = c1[u].algos
  <2>1. c1 \in AnySheet /\ rcv \in Accounts /\ Amount \in Int
    BY Zenon, <1>3, <1>4
  <2> QED BY <2>1, AddAssetIs
<1> HIDE DEF c2
<1>8. /\ c3 \in AnySheet
      /\ \A u \in Accounts : c3[u].asset = c2[u].asset + If(u = cls, n) /\ c3[u].algos = c2[u].algos
  <2>1. c2 \in AnySheet /\ cls \in Accounts /\ n \in Int
    BY Zenon, <1>7, <1>4, <1>5
  <2> QED BY <2>1, AddAssetIs
<1> HIDE DEF c3
<1>9. /\ c4 \in AnySheet
      /\ \A u \in Accounts : /\ c4[u].asset = IF u = snd THEN NoHolding ELSE c3[u].asset
                             /\ c4[u].algos = c3[u].algos
  <2>1. c3 \in AnySheet /\ snd \in Accounts /\ NoHolding \in Int
    BY Zenon, <1>8, <1>4
  <2> QED BY <2>1, SetAssetIs
<1> HIDE DEF c4
<1>10. p.tx \in TxSet
  BY SMTT(60), <1>2, <1>4, <1>5 DEF TxSet, TxKinds
<1>11. ASSUME NEW u \in Accounts
       PROVE  /\ c4[u].asset = IF u = snd THEN -1
                               ELSE b[u].asset + If(u = rcv, Amount) + If(u = cls, n)
              /\ b[u].asset \in Int /\ b[u].asset >= -1
              /\ u \in {rcv, cls} => b[u].asset >= 0
  <2>1. b[u].asset \in Int /\ b[u].asset >= -1
    BY Zenon, SheetIs
  <2>2. u \in {rcv, cls} => b[u].asset >= 0
    BY SMTT(60), <1>1, <2>1 DEF HasAsset, NoHolding
  <2> QED BY <1>3, <1>4, <1>7, <1>8, <1>9, <2>1, <2>2
<1>12. ASSUME NEW u \in Accounts
       PROVE  c4[u].algos \in Amounts /\ c4[u].asset >= -1 /\ c4[u].asset < Modulus
  <2>1. c4[u].asset >= -1
    BY <1>4, <1>5, <1>11 DEF If
  <2> QED BY Zenon, <1>2, <2>1 DEF Accepted
<1>13. c4 \in Sheet
  BY Zenon, <1>9, <1>12, SheetFrom
<1>14. ASSUME NEW a \in Users
       PROVE  Reverses(p.tx, a, b[a], c4[a])
  <2>1. /\ b[a] \in Balances /\ c4[a] \in Balances /\ a \in Accounts /\ b[a].algos \in Int
        /\ a # NoAddr /\ c4[a].asset < Modulus /\ b[a].asset < Modulus
    BY Zenon, <1>6, <1>13, SheetIs
  <2>2. c4[a].algos = b[a].algos + If(a = snd, 0 - Fee)
    BY <1>3, <1>7, <1>8, <1>9, <2>1
  <2>3. Participants(p.tx) = {snd, rcv, cls}
    BY <1>2, <1>6 DEF Participants
  <2>4. a \notin {snd, rcv, cls} => Same(b[a], c4[a])
    <3>1. a \notin {snd, rcv, cls} => c4[a].asset = b[a].asset /\ c4[a].algos = b[a].algos
      BY SMTT(60), <1>11, <2>1, <2>2 DEF If
    <3> QED BY Zenon, <3>1 DEF Same
  <2>5. ASSUME a \in {snd, rcv, cls}
        PROVE  HoldingBack(Holding(c4[a].asset), a, p.tx) = Holding(b[a].asset)
    <3> DEFINE x == b[a].asset
               y == c4[a].asset
               h == Holding(y)
    <3>1. /\ y = IF a = snd THEN -1 ELSE x + If(a = rcv, Amount) + If(a = cls, n)
          /\ x \in Int /\ x >= 0 /\ x < Modulus /\ y < Modulus /\ (a = snd => x = n + 1)
      BY <1>4, <1>5, <1>11, <2>1, <2>5
    <3> HIDE DEF x, y
    <3>2. h = IF a = snd THEN 0 ELSE x + If(a = rcv, Amount) + If(a = cls, n)
      BY <1>4, <1>5, <3>1 DEF Holding, If
    <3>3. Holding(x) = x /\ x \in Amounts /\ x % Modulus = x
      <4>1. x \in Amounts
        BY <3>1, ModulusType DEF Amounts
      <4> QED BY <1>4, <3>1, <4>1, ModOfAmount DEF Holding
    <3> HIDE DEF h
    <3>4. CASE a = snd
      <4>1. HoldingBack(h, a, p.tx) = (h + (Amount + n) - 0) % Modulus
        BY <1>1, <1>2, <3>4 DEF HoldingBack
      <4>2. h + (Amount + n) - 0 = x
        BY <1>4, <1>5, <3>1, <3>2, <3>4
      <4> QED BY Zenon, <3>3, <4>1, <4>2 DEF x, y, h
    <3>5. CASE a = rcv /\ a # cls
      <4>1. HoldingBack(h, a, p.tx) = (h + 0 - Amount) % Modulus
        BY SMTT(60), <1>1, <1>2, <2>1, <3>5 DEF HoldingBack
      <4>2. h + 0 - Amount = x
        BY SMTT(60), <1>1, <1>4, <1>5, <3>1, <3>2, <3>5 DEF If
      <4> QED BY Zenon, <3>3, <4>1, <4>2 DEF x, y, h
    <3>6. CASE a # rcv /\ a = cls
      <4>1. HoldingBack(h, a, p.tx) = (h + 0 - n) % Modulus
        BY <1>1, <1>2, <2>1, <3>6 DEF HoldingBack
      <4>2. h + 0 - n = x
        BY <1>1, <1>4, <1>5, <3>1, <3>2, <3>6 DEF If
      <4> QED BY Zenon, <3>3, <4>1, <4>2 DEF x, y, h
    <3>7. CASE a = rcv /\ a = cls
      <4>1. HoldingBack(h, a, p.tx) = (((h + 0 - Amount) % Modulus) + 0 - n) % Modulus
        BY SMTT(60), <1>1, <1>2, <2>1, <3>7 DEF HoldingBack
      <4>2. h + 0 - Amount = x + n /\ x + n \in Int /\ x + n >= 0 /\ x + n < Modulus
        BY <1>1, <1>4, <1>5, <3>1, <3>2, <3>7, ModulusType DEF If
      <4>3. (x + n) % Modulus = x + n
        <5>1. x + n \in Amounts
          BY <4>2, ModulusType DEF Amounts
        <5> QED BY Zenon, <5>1, ModOfAmount
      <4>4. x + n + 0 - n = x
        BY <1>5, <3>1
      <4> QED BY Zenon, <3>3, <4>1, <4>2, <4>3, <4>4 DEF x, y, h
    <3> QED BY Zenon, <2>5, <3>4, <3>5, <3>6, <3>7
  <2>6. p.tx.snd = snd /\ p.tx.srew = 0 /\ p.tx.kind \in {"axfer", "aclose", "clawback"}
    BY SMTT(60), <1>2
  <2> QED BY Zenon, <1>10, <2>1, <2>2, <2>3, <2>4, <2>5, <2>6, TransferReverses
<1> QED BY Zenon, <1>1, <1>2, <1>10, <1>13, <1>14 DEF Recorded

(* Every block the evaluator accepts. Nobody holds the asset before it is   *)
(* created.                                                                *)
LEMMA BlockRecorded ==
  ASSUME NEW b \in Sheet, NEW p \in Possible(b), Accepted(p),
         ~Created => \A u \in Users : b[u].asset = NoHolding
  PROVE  /\ Recorded(b, p)
         /\ \/ Created \/ p.tx.kind = "acfg"
            \/ \A u \in Users : p.after[u].asset = NoHolding
<1>1. Total # NoHolding /\ ~ (NoHolding >= Amount)
  <2>1. Total \in Nat
    BY SMTT(60), RewindAssumption
  <2> QED BY <2>1 DEF NoHolding, Amount
<1>2. CASE p \in Payments(b)
  BY Zenon, <1>2, PaymentRecorded
<1>3. CASE p \in Closings(b)
  BY Zenon, <1>3, ClosingRecorded
<1>4. CASE p \in FeeOnly(b, "keyreg") \cup FeeOnly(b, "appl")
  BY Zenon, <1>4, FeeOnlyRecorded
<1>5. CASE p \in Creations(b)
  BY Zenon, <1>5, CreationRecorded
<1>6. CASE p \in Destructions(b)
  BY Zenon, <1>1, <1>6, DestructionRecorded
<1>7. CASE p \in OptIns(b)
  BY Zenon, <1>7, OptInRecorded
<1>8. CASE p \in Transfers(b) \cup Clawbacks(b)
  BY Zenon, <1>1, <1>8, TransfersRecorded
<1>9. CASE p \in AssetClosings(b)
  BY Zenon, <1>1, <1>9, AssetClosingRecorded
<1>10. \/ p \in Payments(b) \/ p \in Closings(b) \/ p \in FeeOnly(b, "keyreg") \cup FeeOnly(b, "appl")
       \/ p \in Creations(b) \/ p \in Destructions(b) \/ p \in OptIns(b)
       \/ p \in Transfers(b) \cup Clawbacks(b) \/ p \in AssetClosings(b)
  BY Zenon DEF Possible
<1> QED BY Zenon, <1>2, <1>3, <1>4, <1>5, <1>6, <1>7, <1>8, <1>9, <1>10

-----------------------------------------------------------------------------
(* The inductive invariant: every block can be undone, and a request under *)
(* way holds the account as of the round at which it was read.             *)
ChainInv ==
    /\ block \in Seq(TxSet) /\ ledger \in Seq(Sheet)
    /\ \A r \in 1 .. Round, a \in Users : Reverses(block[r], a, BalanceAt(r - 1)[a], BalanceAt(r)[a])
    /\ ~Created => \A u \in Users : BalanceAt(Round)[u].asset = NoHolding

RequestInv ==
    /\ pc \in {"account", "ok"} =>
         req.addr \in Accounts /\ req.at <= req.read /\ req.read <= Round
    /\ pc = "account" => /\ acct.round = req.read
                         /\ acct.algos = BalanceAt(req.read)[req.addr].algos
                         /\ acct.asset = BalanceAt(req.read)[req.addr].asset
    /\ pc = "ok" => req.addr \in Users

IInv == TypeOK /\ ChainInv /\ RequestInv /\ RewoundIsHistorical

-----------------------------------------------------------------------------
(* The loop of AccountAtRound. *)

(* A nonempty set of natural numbers has a least element. *)
LEMMA LeastExists ==
  ASSUME NEW S \in SUBSET Nat, S # {}
  PROVE  \E m \in S : \A n \in S : m <= n
<1>1. PICK m \in S : \A n \in S : ~ (<<n, m>> \in OpToRel(<, Nat))
  BY Zenon, NatLessThanWellFounded, WFMin
<1>2. \A n \in S : ~ (n < m)
  BY Zenon, <1>1 DEF OpToRel
<1> QED BY <1>2

(* One unfolding of the recursion of Rewound, down to round lo. *)
Unfold(s, lo, f) ==
    [r \in lo .. Round |->
       IF r = Round THEN acct
       ELSE IF r + 1 \in Rows(s) THEN Undo(f[r + 1], req.addr, block[r + 1])
       ELSE f[r + 1]]

(* The recursion has a solution: a shortest one that had none would extend *)
(* the next shorter one.                                                   *)
LEMMA LoopEnds ==
  ASSUME Round \in Nat, NEW s
  PROVE  \A lo \in 0 .. Round : \E g : g = Unfold(s, lo, g)
<1> DEFINE Bad == {k \in 0 .. Round : ~ \E g : g = Unfold(s, Round - k, g)}
<1>1. Bad = {}
  <2> SUFFICES ASSUME Bad # {} PROVE FALSE
    BY Zenon
  <2>1. PICK k \in Bad : \A n \in Bad : k <= n
    <3>1. Bad \in SUBSET Nat
      OBVIOUS
    <3> QED BY Zenon, <3>1, LeastExists
  <2>2. k \in 0 .. Round /\ ~ \E g : g = Unfold(s, Round - k, g)
    BY Zenon
  <2>3. k # 0
    <3> DEFINE g == [r \in Round .. Round |-> acct]
    <3>1. g = Unfold(s, Round, g)
      <4>1. \A r \in Round .. Round : r = Round
        OBVIOUS
      <4> QED BY Zenon, <4>1 DEF Unfold
    <3> HIDE DEF g
    <3>2. \E f : f = Unfold(s, Round, f)
      BY Zenon, <3>1
    <3>3. k = 0 => Round - k = Round
      OBVIOUS
    <3> QED BY Zenon, <2>2, <3>2, <3>3
  <2>4. PICK g : g = Unfold(s, Round - (k - 1), g)
    <3>1. k - 1 \in 0 .. Round /\ ~ (k <= k - 1)
      BY <2>2, <2>3
    <3>2. k - 1 \notin Bad
      BY Zenon, <2>1, <3>1
    <3> QED BY Zenon, <3>1, <3>2
  <2> DEFINE lo == Round - k
             F(f, r) == IF r = Round THEN acct
                        ELSE IF r + 1 \in Rows(s) THEN Undo(f[r + 1], req.addr, block[r + 1])
                        ELSE f[r + 1]
             h == [r \in lo .. Round |-> IF r = lo THEN F(g, lo) ELSE g[r]]
  <2>5. /\ lo \in Int /\ lo >= 0 /\ lo < Round /\ Round - (k - 1) = lo + 1
    BY <2>2, <2>3
  <2>6. \A r \in lo + 1 .. Round : g[r] = F(g, r)
    BY <2>4, <2>5 DEF Unfold
  <2> HIDE DEF lo
  <2>7. \A r \in lo + 1 .. Round : h[r] = g[r]
    BY <2>5
  <2> HIDE DEF h
  <2>8. ASSUME NEW r \in lo .. Round PROVE h[r] = F(h, r)
    <3>1. r # Round => r + 1 \in lo + 1 .. Round /\ h[r + 1] = g[r + 1]
      BY <2>5, <2>7
    <3>2. F(h, r) = F(g, r)
      BY Zenon, <3>1
    <3>3. CASE r = lo
      BY SMTT(60), <2>5, <3>2, <3>3 DEF h
    <3>4. CASE r # lo
      <4>1. r \in lo + 1 .. Round
        BY <2>5, <3>4
      <4> QED BY Zenon, <2>6, <2>7, <3>2, <4>1
    <3> QED BY Zenon, <3>3, <3>4
  <2>9. h = [r \in lo .. Round |-> h[r]]
    BY Zenon DEF h
  <2>10. h = Unfold(s, lo, h)
    BY Zenon, <2>8, <2>9 DEF Unfold
  <2> QED BY Zenon, <2>2, <2>10 DEF lo
<1>2. ASSUME NEW lo \in 0 .. Round PROVE \E g : g = Unfold(s, lo, g)
  <2>1. Round - lo \in 0 .. Round /\ Round - (Round - lo) = lo
    OBVIOUS
  <2> QED BY Zenon, <1>1, <2>1
<1> QED BY Zenon, <1>2

(* The premises of RewoundIsHistorical, but for the end of the request. *)
Readable ==
    /\ req.at + 1 >= oldest /\ req.read > 0
    /\ \A r \in req.at + 1 .. req.read :
         req.addr \in Participants(block[r]) => ~Misread(block[r], req.addr)

LEMMA IInvFacts ==
  ASSUME IInv
  PROVE  /\ Round \in Nat /\ Len(ledger) = Round + 1 /\ oldest \in Nat
         /\ \A r \in 1 .. Round : block[r] \in TxSet
         /\ \A r \in 0 .. Round : BalanceAt(r) \in Sheet
         /\ req.at \in Nat /\ req.read \in Nat /\ acct \in AcctSet
         /\ MaxRound \in Nat /\ Round <= MaxRound
<1>1. /\ Round \in 0 .. MaxRound /\ Len(ledger) = Round + 1 /\ oldest \in 0 .. MaxRound
      /\ req.at \in 0 .. MaxRound /\ req.read \in 0 .. MaxRound /\ acct \in AcctSet
  BY Zenon DEF IInv, TypeOK, AcctSet, Amounts
<1>2. block \in Seq(TxSet) /\ ledger \in Seq(Sheet)
  BY Zenon DEF IInv, ChainInv
<1>3. MaxRound \in Nat
  BY Zenon, RewindAssumption
<1>4. \A r \in 1 .. Round : block[r] \in TxSet
  BY <1>2 DEF Round
<1>5. \A r \in 0 .. Round : r + 1 \in 1 .. Len(ledger)
  BY <1>1, <1>3
<1>6. \A r \in 0 .. Round : BalanceAt(r) \in Sheet
  BY <1>2, <1>5 DEF BalanceAt
<1> QED BY <1>1, <1>3, <1>4, <1>6

LEMMA LoopRewinds ==
  ASSUME IInv, pc = "account", NEW s \in 0 .. Round, ~Refused(s)
  PROVE  /\ Rewound(s) \in AcctSet
         /\ req.addr \in Users
         /\ Readable => Same(Rewound(s), BalanceAt(req.at)[req.addr])
<1> DEFINE f == CHOOSE g : g = Unfold(s, req.at, g)
           at == req.at
           read == req.read
           addr == req.addr
<1>1. /\ Round \in Nat /\ oldest \in Nat /\ at \in Nat /\ read \in Nat /\ acct \in AcctSet
      /\ \A r \in 1 .. Round : block[r] \in TxSet
      /\ s \in Nat /\ s <= Round
  BY IInvFacts
<1>2. /\ at <= read /\ read <= Round /\ addr \in Accounts
      /\ acct.round = read /\ Same(acct, BalanceAt(read)[addr])
  BY Zenon DEF IInv, RequestInv, Same
<1>3. addr \in Users /\ s >= read
  BY <1>1, <1>2 DEF Refused, Accounts
<1>4. f = Unfold(s, at, f)
  <2>1. \E g : g = Unfold(s, at, g)
    <3>1. at \in 0 .. Round
      BY <1>1, <1>2
    <3> QED BY Zenon, <1>1, <3>1, LoopEnds
  <2> HIDE DEF f
  <2> QED BY Zenon, <2>1 DEF f
<1>5. Rewound(s) = f[at]
  BY Zenon DEF Rewound, Unfold
<1> HIDE DEF f, at, read, addr
<1> DEFINE upto(r) == IF r < read THEN r ELSE read
           Good(r) == f[r] \in AcctSet /\ (Readable => Same(f[r], BalanceAt(upto(r))[addr]))
           Bad == {k \in 0 .. Round - at : ~Good(Round - k)}
<1>6. f[Round] = acct
  BY <1>1, <1>2, <1>4 DEF Unfold
<1>7. \A r \in at .. Round : r # Round =>
        f[r] = IF r + 1 \in Rows(s) THEN Undo(f[r + 1], addr, block[r + 1]) ELSE f[r + 1]
  BY Zenon, <1>4 DEF Unfold, addr
<1>8. Rows(s) = {r \in at + 1 .. s : /\ r <= (IF read = 0 THEN s ELSE read) /\ r >= oldest
                                     /\ addr \in Participants(block[r])}
  BY Zenon, <1>2 DEF Rows, at, addr
<1>9. Good(Round)
  BY <1>1, <1>2, <1>6
<1>10. ASSUME NEW r \in at .. Round, r # Round, Good(r + 1)
       PROVE  Good(r)
  <2>1. r \in Nat /\ r >= at /\ r < Round /\ r + 1 \in 1 .. Round
    BY <1>1, <1>10
  <2>2. f[r + 1] \in AcctSet /\ block[r + 1] \in TxSet
    BY Zenon, <1>1, <1>10, <2>1
  <2>3. Reverses(block[r + 1], addr, BalanceAt(r)[addr], BalanceAt(r + 1)[addr])
    <3>1. r + 1 - 1 = r
      BY <2>1
    <3> QED BY <1>3, <2>1, <3>1 DEF IInv, ChainInv
  <2>4. CASE r + 1 \in Rows(s)
    <3>1. f[r] = Undo(f[r + 1], addr, block[r + 1])
      BY Zenon, <1>7, <1>10, <2>4
    <3>2. f[r] \in AcctSet
      BY Zenon, <2>2, <3>1, UndoType
    <3>3. ASSUME Readable PROVE Same(f[r], BalanceAt(upto(r))[addr])
      <4>1. r + 1 <= read /\ addr \in Participants(block[r + 1])
        BY <1>1, <1>8, <2>1, <2>4, <3>3 DEF Readable, read
      <4>2. ~Misread(block[r + 1], addr)
        <5>1. r + 1 \in at + 1 .. read
          BY <1>1, <2>1, <4>1
        <5> QED BY Zenon, <3>3, <4>1, <5>1 DEF Readable, at, read, addr
      <4>3. upto(r + 1) = r + 1 /\ upto(r) = r
        BY <1>1, <2>1, <4>1
      <4>4. Same(f[r + 1], BalanceAt(r + 1)[addr])
        BY Zenon, <1>10, <3>3, <4>3
      <4> QED BY Zenon, <2>2, <2>3, <3>1, <4>1, <4>2, <4>3, <4>4 DEF Reverses
    <3> QED BY Zenon, <3>2, <3>3
  <2>5. CASE r + 1 \notin Rows(s)
    <3>1. f[r] = f[r + 1]
      BY Zenon, <1>7, <1>10, <2>5
    <3>2. ASSUME Readable PROVE Same(f[r], BalanceAt(upto(r))[addr])
      <4>1. CASE r >= read
        <5>1. upto(r) = read /\ upto(r + 1) = read
          BY SMTT(60), <1>1, <2>1, <4>1
        <5> QED BY Zenon, <1>10, <3>1, <3>2, <5>1
      <4>2. CASE r < read
        <5>1. upto(r + 1) = r + 1 /\ upto(r) = r
          BY <1>1, <2>1, <4>2
        <5>2. /\ r + 1 \in at + 1 .. s /\ r + 1 <= (IF read = 0 THEN s ELSE read)
              /\ r + 1 >= oldest
          <6>1. at + 1 >= oldest /\ read > 0
            BY Zenon, <3>2 DEF Readable, at, read
          <6> QED BY <1>1, <1>3, <2>1, <4>2, <6>1
        <5>3. addr \notin Participants(block[r + 1])
          BY Zenon, <1>8, <2>5, <5>2
        <5>4. Same(BalanceAt(r)[addr], BalanceAt(r + 1)[addr])
          BY Zenon, <2>3, <5>3 DEF Reverses
        <5>5. Same(f[r], BalanceAt(r + 1)[addr])
          BY Zenon, <1>10, <3>1, <3>2, <5>1
        <5> QED BY Zenon, <5>1, <5>4, <5>5 DEF Same
      <4> QED BY <1>1, <2>1, <4>1, <4>2
    <3> QED BY Zenon, <2>2, <3>1, <3>2
  <2> QED BY Zenon, <2>4, <2>5
<1> HIDE DEF Good
<1>11. Bad = {}
  <2> SUFFICES ASSUME Bad # {} PROVE FALSE
    BY Zenon
  <2>1. PICK k \in Bad : \A n \in Bad : k <= n
    <3>1. Bad \in SUBSET Nat
      BY <1>1
    <3> QED BY Zenon, <3>1, LeastExists
  <2>2. k \in 0 .. Round - at /\ ~Good(Round - k) /\ k \in Nat
    BY <1>1
  <2>3. k # 0
    <3>1. Round - 0 = Round
      BY <1>1
    <3> QED BY Zenon, <1>9, <2>2, <3>1
  <2>4. k - 1 \in 0 .. Round - at /\ ~ (k <= k - 1)
    BY <1>1, <2>2, <2>3
  <2>5. Good(Round - (k - 1))
    BY Zenon, <2>1, <2>4
  <2>6. /\ Round - k \in at .. Round /\ Round - k # Round
        /\ Round - k + 1 = Round - (k - 1)
    BY <1>1, <1>2, <2>2, <2>3
  <2> QED BY Zenon, <1>10, <2>2, <2>5, <2>6
<1>12. Good(at)
  <2>1. Round - at \in 0 .. Round - at /\ Round - (Round - at) = at
    BY <1>1, <1>2
  <2> QED BY Zenon, <1>11, <2>1
<1>13. upto(at) = at
  BY SMTT(60), <1>1, <1>2
<1> QED BY Zenon, <1>3, <1>5, <1>12, <1>13 DEF Good, at, addr

-----------------------------------------------------------------------------
(* Every step preserves the invariant. *)

LEMMA RewindInit == Init => IInv
<1> SUFFICES ASSUME Init PROVE IInv
  BY Zenon
<1>1. block = <<>> /\ Round = 0 /\ pc = "idle"
  BY Zenon DEF Init, Round
<1> DEFINE first == [a \in Accounts |-> [algos |-> Funds, asset |-> NoHolding]]
<1>2. ledger = <<first>> /\ first \in Sheet
  <2>1. Funds \in Amounts /\ NoHolding \in -1 .. Modulus - 1
    BY RewindAssumption, ModulusType DEF Amounts, NoHolding, Modulus
  <2> QED BY Zenon, <2>1 DEF Init, Sheet, Balances
<1> HIDE DEF first
<1>3. Len(ledger) = 1 /\ ledger \in Seq(Sheet) /\ BalanceAt(0) = first
  BY <1>2 DEF BalanceAt
<1>4. TypeOK
  <2>1. MaxRound \in Nat /\ Modulus \in Nat /\ Modulus > 1
    BY Zenon, RewindAssumption, ModulusType
  <2>2. oldest \in 0 .. MaxRound /\ req = NoRequest /\ acct = NoAccount
    BY <2>1 DEF Init
  <2>3. req \in [addr : Accounts \cup {NoAddr}, at : 0 .. MaxRound, read : 0 .. MaxRound]
    BY <2>1, <2>2 DEF NoRequest
  <2>4. acct \in [algos : 0 .. Modulus - 1, asset : -1 .. Modulus - 1, round : 0 .. MaxRound]
    BY <2>1, <2>2 DEF NoAccount, NoHolding
  <2> QED BY <1>1, <1>3, <2>1, <2>2, <2>3, <2>4 DEF TypeOK
<1>5. ChainInv
  <2>1. \A u \in Users : BalanceAt(Round)[u].asset = NoHolding
    BY <1>1, <1>3 DEF first, Accounts
  <2> QED BY <1>1, <1>3, <2>1 DEF ChainInv
<1> QED BY Zenon, <1>1, <1>4, <1>5 DEF IInv, RequestInv, RewoundIsHistorical

LEMMA AddBlockInv == IInv /\ AddBlock => IInv'
<1> SUFFICES ASSUME IInv, AddBlock PROVE IInv'
  BY Zenon
<1>1. PICK p \in Possible(BalanceAt(Round)) :
        /\ \A a \in Accounts : p.after[a].algos \in 0 .. Modulus - 1 /\ p.after[a].asset < Modulus
        /\ block' = Append(block, p.tx) /\ ledger' = Append(ledger, p.after)
  BY Zenon DEF AddBlock
<1>2. /\ Round < MaxRound /\ oldest' = oldest /\ req' = req /\ acct' = acct /\ pc' = pc
  BY Zenon DEF AddBlock
<1>3. /\ Round \in Nat /\ Len(ledger) = Round + 1 /\ MaxRound \in Nat
      /\ \A r \in 0 .. Round : BalanceAt(r) \in Sheet
      /\ block \in Seq(TxSet) /\ ledger \in Seq(Sheet)
  BY Zenon, IInvFacts DEF IInv, ChainInv
<1>4. Accepted(p)
  BY Zenon, <1>1 DEF Accepted, Amounts
<1>5. /\ Recorded(BalanceAt(Round), p)
      /\ \/ Created \/ p.tx.kind = "acfg"
         \/ \A u \in Users : p.after[u].asset = NoHolding
  <2>1. BalanceAt(Round) \in Sheet
    BY <1>3
  <2>2. ~Created => \A u \in Users : BalanceAt(Round)[u].asset = NoHolding
    BY Zenon DEF IInv, ChainInv
  <2> QED BY Zenon, <1>1, <1>4, <2>1, <2>2, BlockRecorded
<1>6. /\ p.tx \in TxSet /\ p.after \in Sheet
      /\ \A a \in Users : Reverses(p.tx, a, BalanceAt(Round)[a], p.after[a])
  BY Zenon, <1>5 DEF Recorded
<1> DEFINE tx == p.tx
           after == p.after
<1> HIDE DEF tx, after
<1>7. tx \in TxSet /\ after \in Sheet /\ block' = Append(block, tx) /\ ledger' = Append(ledger, after)
  BY Zenon, <1>1, <1>6 DEF tx, after
<1>8. /\ block' \in Seq(TxSet) /\ ledger' \in Seq(Sheet)
      /\ Len(block') = Len(block) + 1 /\ Len(ledger') = Len(ledger) + 1
      /\ \A r \in 1 .. Len(block) : block'[r] = block[r]
      /\ block'[Len(block) + 1] = tx
      /\ \A r \in 1 .. Len(ledger) : ledger'[r] = ledger[r]
      /\ ledger'[Len(ledger) + 1] = after
  BY <1>3, <1>7
<1>9. /\ Round' = Round + 1
      /\ \A r \in 1 .. Round : block'[r] = block[r]
      /\ block'[Round + 1] = tx
      /\ \A r \in 0 .. Round : ledger'[r + 1] = BalanceAt(r)
      /\ ledger'[Round' + 1] = after
      /\ Len(ledger') = Round' + 1
  <2>1. Round' = Round + 1 /\ Len(ledger') = Round' + 1
    BY Zenon, <1>3, <1>8 DEF Round
  <2>2. \A r \in 0 .. Round : r + 1 \in 1 .. Len(ledger)
    BY <1>3
  <2>3. \A r \in 0 .. Round : ledger'[r + 1] = ledger[r + 1]
    BY Zenon, <1>8, <2>2
  <2>4. ledger'[Round' + 1] = after
    BY Zenon, <1>3, <1>8, <2>1
  <2> QED BY Zenon, <1>8, <2>1, <2>3, <2>4 DEF Round, BalanceAt
<1>10. TypeOK'
  <2>1. Round' \in 0 .. MaxRound
    BY SMTT(60), <1>2, <1>3, <1>9
  <2> QED BY Zenon, <1>2, <1>9, <2>1 DEF IInv, TypeOK, Round
<1>11. ChainInv'
  <2>1. ASSUME NEW r \in 1 .. Round', NEW a \in Users
        PROVE  Reverses(block'[r], a, ledger'[(r - 1) + 1][a], ledger'[r + 1][a])
    <3>1. CASE r \in 1 .. Round
      <4>1. /\ block'[r] = block[r] /\ ledger'[(r - 1) + 1] = BalanceAt(r - 1)
            /\ ledger'[r + 1] = BalanceAt(r)
        <5>1. r - 1 \in 0 .. Round /\ r \in 0 .. Round
          BY SMTT(60), <1>3, <3>1
        <5> QED BY Zenon, <1>9, <3>1, <5>1
      <4> QED BY Zenon, <3>1, <4>1 DEF IInv, ChainInv
    <3>2. CASE r = Round + 1
      <4>1. r - 1 = Round /\ r = Round' /\ Round \in 0 .. Round
        BY <1>3, <1>9, <3>2
      <4>2. ledger'[(r - 1) + 1] = BalanceAt(Round) /\ ledger'[r + 1] = after /\ block'[r] = tx
        BY Zenon, <1>9, <3>2, <4>1
      <4> QED BY Zenon, <1>6, <4>2 DEF tx, after
    <3> QED BY SMTT(60), <1>3, <1>9, <3>1, <3>2
  <2>2. ASSUME ~Created', NEW u \in Users
        PROVE  BalanceAt(Round)'[u].asset = NoHolding
    <3>1. ~Created
      <4>1. \A r \in 1 .. Round : r \in 1 .. Round' /\ block'[r] = block[r]
        BY <1>3, <1>9
      <4> QED BY Zenon, <2>2, <4>1 DEF Created
    <3>2. tx.kind # "acfg"
      <4>1. Round + 1 \in 1 .. Round' /\ block'[Round + 1] = tx
        BY <1>3, <1>9
      <4> QED BY Zenon, <2>2, <4>1 DEF Created
    <3>3. after[u].asset = NoHolding
      BY Zenon, <1>5, <3>1, <3>2 DEF tx, after
    <3>4. BalanceAt(Round)' = after
      BY Zenon, <1>9 DEF BalanceAt
    <3> QED BY Zenon, <3>3, <3>4
  <2> QED BY Zenon, <1>8, <2>1, <2>2 DEF ChainInv, BalanceAt
<1>12. ASSUME pc \in {"account", "ok"}
       PROVE  /\ BalanceAt(req.read)' = BalanceAt(req.read)
              /\ BalanceAt(req.at)' = BalanceAt(req.at)
              /\ \A r \in req.at + 1 .. req.read : block'[r] = block[r]
              /\ req.read <= Round'
  <2>1. req.at \in Nat /\ req.read \in Nat /\ req.at <= req.read /\ req.read <= Round
    BY Zenon, <1>12, IInvFacts DEF IInv, RequestInv
  <2>2. req.read \in 0 .. Round /\ req.at \in 0 .. Round
    BY <1>3, <2>1
  <2>3. \A r \in req.at + 1 .. req.read : r \in 1 .. Round
    BY <1>3, <2>1
  <2>4. BalanceAt(req.read)' = ledger'[req.read + 1] /\ BalanceAt(req.at)' = ledger'[req.at + 1]
    BY Zenon, <1>2 DEF BalanceAt
  <2>5. \A r \in 0 .. Round : ledger'[r + 1] = BalanceAt(r)
    BY Zenon, <1>9
  <2> QED BY SMTT(60), <1>3, <1>9, <2>1, <2>2, <2>3, <2>4, <2>5
<1>13. RequestInv'
  BY Zenon, <1>2, <1>12 DEF IInv, RequestInv
<1>14. RewoundIsHistorical'
  BY Zenon, <1>2, <1>12 DEF IInv, RewoundIsHistorical, True
<1> QED BY Zenon, <1>10, <1>11, <1>13, <1>14 DEF IInv

LEMMA DeleteInv == IInv /\ DeleteTransactions => IInv'
<1> SUFFICES ASSUME IInv, DeleteTransactions PROVE IInv'
  BY Zenon
<1>1. /\ block' = block /\ ledger' = ledger /\ req' = req /\ acct' = acct /\ pc' = pc
      /\ oldest < Round /\ oldest' = Round
  BY Zenon DEF DeleteTransactions
<1>2. Round \in Nat /\ oldest \in Nat /\ req.at \in Nat /\ MaxRound \in Nat /\ Round <= MaxRound
  BY Zenon, IInvFacts
<1>3. req.at + 1 >= oldest' => req.at + 1 >= oldest
  BY <1>1, <1>2
<1>4. TypeOK'
  BY Zenon, <1>1, <1>2 DEF IInv, TypeOK, Round
<1>5. ChainInv' /\ RequestInv'
  BY Zenon, <1>1 DEF IInv, ChainInv, RequestInv, Round, BalanceAt, Created
<1>6. RewoundIsHistorical'
  BY Zenon, <1>1, <1>3 DEF IInv, RewoundIsHistorical, True, BalanceAt
<1> QED BY Zenon, <1>4, <1>5, <1>6 DEF IInv

LEMMA FetchInv == IInv /\ FetchAccounts => IInv'
<1> SUFFICES ASSUME IInv, FetchAccounts PROVE IInv'
  BY Zenon
<1>1. PICK a \in Accounts, at \in 0 .. MaxRound :
        /\ req' = [addr |-> a, at |-> at, read |-> Round]
        /\ acct' = [algos |-> BalanceAt(Round)[a].algos, asset |-> BalanceAt(Round)[a].asset,
                    round |-> Round]
        /\ pc' = IF at > Round THEN "error" ELSE "account"
  BY Zenon DEF FetchAccounts
<1>2. block' = block /\ ledger' = ledger /\ oldest' = oldest
  BY Zenon DEF FetchAccounts
<1>3. Round \in Nat /\ MaxRound \in Nat /\ Round <= MaxRound /\ BalanceAt(Round) \in Sheet
  BY IInvFacts
<1>4. BalanceAt(Round)[a] \in Balances
  BY Zenon, <1>3, SheetIs
<1>5. TypeOK'
  <2>1. req' \in [addr : Accounts \cup {NoAddr}, at : 0 .. MaxRound, read : 0 .. MaxRound]
    BY SMTT(60), <1>1, <1>3
  <2>2. acct' \in [algos : 0 .. Modulus - 1, asset : -1 .. Modulus - 1, round : 0 .. MaxRound]
    BY <1>1, <1>3, <1>4 DEF Balances, Amounts
  <2> QED BY Zenon, <1>1, <1>2, <2>1, <2>2 DEF IInv, TypeOK, Round
<1>6. ChainInv'
  BY Zenon, <1>2 DEF IInv, ChainInv, Round, BalanceAt, Created
<1>7. RequestInv'
  <2>1. pc' = "account" => at <= Round
    BY SMTT(60), <1>1, <1>3
  <2> QED BY SMTT(60), <1>1, <1>2, <1>3, <2>1 DEF RequestInv, Round, BalanceAt
<1>8. RewoundIsHistorical'
  BY Zenon, <1>1 DEF RewoundIsHistorical
<1> QED BY Zenon, <1>5, <1>6, <1>7, <1>8 DEF IInv

(* A step that ends a request without an answer, or has given it. *)
LEMMA NoAnswerInv == IInv /\ (RewindFails \/ Respond) => IInv'
<1> SUFFICES ASSUME IInv, RewindFails \/ Respond PROVE IInv'
  BY Zenon
<1>1. block' = block /\ ledger' = ledger /\ oldest' = oldest /\ pc' \in {"error", "idle"}
  BY Zenon DEF RewindFails, Respond
<1>2. (req' = req /\ acct' = acct) \/ (req' = NoRequest /\ acct' = NoAccount)
  BY Zenon DEF RewindFails, Respond
<1>3. TypeOK'
  <2>1. MaxRound \in Nat /\ Modulus \in Nat /\ Modulus > 1
    BY Zenon, RewindAssumption, ModulusType
  <2>2. NoRequest \in [addr : Accounts \cup {NoAddr}, at : 0 .. MaxRound, read : 0 .. MaxRound]
    BY <2>1 DEF NoRequest
  <2>3. NoAccount \in [algos : 0 .. Modulus - 1, asset : -1 .. Modulus - 1, round : 0 .. MaxRound]
    BY SMTT(60), <2>1 DEF NoAccount, NoHolding
  <2> QED BY Zenon, <1>1, <1>2, <2>2, <2>3 DEF IInv, TypeOK, Round
<1>4. ChainInv'
  BY Zenon, <1>1 DEF IInv, ChainInv, Round, BalanceAt, Created
<1> QED BY Zenon, <1>1, <1>3, <1>4 DEF IInv, RequestInv, RewoundIsHistorical

LEMMA AccountAtRoundInv == IInv /\ AccountAtRound => IInv'
<1> SUFFICES ASSUME IInv, AccountAtRound PROVE IInv'
  BY Zenon
<1>1. pc = "account" /\ block' = block /\ ledger' = ledger /\ oldest' = oldest /\ req' = req
  BY Zenon DEF AccountAtRound
<1>2. ChainInv'
  BY Zenon, <1>1 DEF IInv, ChainInv, Round, BalanceAt, Created
<1>3. CASE pc' = "error" /\ acct' = acct
  <2>1. TypeOK'
    BY Zenon, <1>1, <1>3 DEF IInv, TypeOK, Round
  <2> QED BY Zenon, <1>2, <1>3, <2>1 DEF IInv, RequestInv, RewoundIsHistorical
<1>4. CASE \E s \in 0 .. Round : /\ ~Refused(s) /\ pc' = "ok"
                                 /\ acct' = [Rewound(s) EXCEPT !.round = req.at]
  <2>1. PICK s \in 0 .. Round : /\ ~Refused(s) /\ pc' = "ok"
                                /\ acct' = [Rewound(s) EXCEPT !.round = req.at]
    BY Zenon, <1>4
  <2>2. /\ Rewound(s) \in AcctSet /\ req.addr \in Users
        /\ Readable => Same(Rewound(s), BalanceAt(req.at)[req.addr])
    BY Zenon, <1>1, <2>1, LoopRewinds
  <2>3. req.at \in 0 .. MaxRound
    BY Zenon DEF IInv, TypeOK
  <2> DEFINE w == Rewound(s)
  <2> HIDE DEF w
  <2>4. w \in AcctSet /\ acct' = [w EXCEPT !.round = req.at]
    BY Zenon, <2>1, <2>2 DEF w
  <2>5. acct' \in AcctSet /\ acct'.algos = w.algos /\ acct'.asset = w.asset
    BY Zenon, <2>3, <2>4 DEF AcctSet
  <2>6. TypeOK'
    BY Zenon, <1>1, <2>1, <2>5 DEF IInv, TypeOK, Round, AcctSet, Amounts
  <2>7. RequestInv'
    BY Zenon, <1>1, <2>1, <2>2 DEF IInv, RequestInv, Round
  <2>8. RewoundIsHistorical'
    <3>1. SUFFICES ASSUME Readable' PROVE Same(acct', True')
      BY Zenon DEF RewoundIsHistorical, Readable, Same
    <3>2. Readable
      BY Zenon, <1>1, <3>1 DEF Readable
    <3>3. Same(w, True)
      BY Zenon, <2>2, <3>2 DEF w, True
    <3>4. True' = True
      BY Zenon, <1>1 DEF True, BalanceAt
    <3> QED BY Zenon, <2>5, <3>3, <3>4 DEF Same
  <2> QED BY Zenon, <1>2, <2>6, <2>7, <2>8 DEF IInv
<1> QED BY Zenon, <1>3, <1>4 DEF AccountAtRound

LEMMA RewindStep == IInv /\ [Next]_vars => IInv'
<1> SUFFICES ASSUME IInv, [Next]_vars PROVE IInv'
  BY Zenon
<1>1. CASE AddBlock
  BY Zenon, <1>1, AddBlockInv
<1>2. CASE DeleteTransactions
  BY Zenon, <1>2, DeleteInv
<1>3. CASE FetchAccounts
  BY Zenon, <1>3, FetchInv
<1>4. CASE RewindFails \/ Respond
  BY Zenon, <1>4, NoAnswerInv
<1>5. CASE AccountAtRound
  BY Zenon, <1>5, AccountAtRoundInv
<1>6. CASE UNCHANGED vars
  <2>1. /\ block' = block /\ ledger' = ledger /\ oldest' = oldest /\ req' = req
        /\ acct' = acct /\ pc' = pc
    BY Zenon, <1>6 DEF vars
  <2>2. TypeOK' /\ ChainInv' /\ RequestInv'
    BY Zenon, <2>1 DEF IInv, TypeOK, ChainInv, RequestInv, Round, BalanceAt, Created
  <2> QED BY Zenon, <2>1, <2>2 DEF IInv, RewoundIsHistorical, True, BalanceAt
<1> QED BY Zenon, <1>1, <1>2, <1>3, <1>4, <1>5, <1>6 DEF Next

-----------------------------------------------------------------------------
LEMMA RewindInvariant == Spec => []IInv
  BY RewindInit, RewindStep, PTL DEF Spec

(* No amount of an account, rewound or not, leaves the unsigned integers   *)
(* of the width, whatever the loop undoes.                                 *)
THEOREM RewindTypeCorrect == Spec => []TypeOK
<1>1. IInv => TypeOK
  BY Zenon DEF IInv
<1> QED BY <1>1, RewindInvariant, PTL

(* AccountAtRound answers with the amounts the account had at the round    *)
(* asked for, for any chain, whatever blocks are added and transactions    *)
(* pruned while the request is under way, under the conditions that        *)
(* RewoundIsHistorical names.                                              *)
THEOREM RewindsToHistory == Spec => []RewoundIsHistorical
<1>1. IInv => RewoundIsHistorical
  BY Zenon DEF IInv
<1> QED BY <1>1, RewindInvariant, PTL
=============================================================================
