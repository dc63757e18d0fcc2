---------------------------- MODULE ApiFetchProofs ----------------------------
(***************************************************************************)
(* Proofs about ApiFetch, for any number of requests, rows and connections *)
(* and with or without a deadline: a request that succeeds is complete,    *)
(* but for a page cut off between its queries, and its connections are     *)
(* back before its context ends.                                           *)
(***************************************************************************)
EXTENDS ApiFetch, TLAPS

Bit(b) == IF b THEN 1 ELSE 0

(* A rewound account is taken from the channel before it is counted. *)
InHand(q) == Bit(handler[q] \in {"rewind", "undo"})

(* Who may hold which connection, and when rows may still come. *)
ConnInv(q) ==
    /\ "query" \in conn[q] <=> yield[q] = "send"
    /\ "rewind" \in conn[q] <=> handler[q] = "undo"
    /\ yield[q] # "send" => left[q] = 0
    /\ yield[q] = "idle" <=> handler[q] \in {"idle", "begin"}

(* Before the query: nothing has been read. *)
FreshInv(q) ==
    /\ handler[q] = "idle" => ctx[q] = "live"
    /\ handler[q] \in {"idle", "begin"} =>
         chan[q] = "empty" /\ got[q] = 0 /\ left[q] = 0 /\ err[q] = FALSE

(* A page that may have stopped between its queries. Its context was over   *)
(* before the caller had its answer.                                       *)
Stopped(q) == kind[q] = "page" /\ ctx[q] \in {"expired", "cancelled"}

(* While the handler reads, no row is lost: each is still to be sent, in   *)
(* the channel, in the handler's hand or dealt with, unless an error row   *)
(* stands in for the rest or a page has stopped.                           *)
CountInv(q) ==
    /\ handler[q] \in {"loop", "rewind", "undo"} =>
         /\ err[q] = FALSE
         /\ chan[q] # "error" =>
              LET sum == got[q] + InHand(q) + Bit(chan[q] = "row") + left[q]
              IN  sum <= Rows /\ (sum = Rows \/ Stopped(q))
         /\ got[q] + InHand(q) <= Rows
    /\ handler[q] \in {"rewind", "undo"} => kind[q] = "rewind"

(* Once it has left the loop without an error, everything is over. *)
LeftInv(q) ==
    handler[q] \in {"drain", "done"} /\ err[q] = FALSE =>
      (got[q] = Rows \/ Stopped(q)) /\ yield[q] = "closed" /\ chan[q] = "empty"

(* The caller has its answer, and the context ends, only when the handler  *)
(* is done.                                                                *)
CallerInv(q) ==
    /\ caller[q] = "idle" <=> handler[q] = "idle"
    /\ caller[q] = "ok" => handler[q] = "done" /\ err[q] = FALSE /\ ctx[q] # "expired"
    /\ ctx[q] = "ended" => handler[q] = "done" /\ caller[q] # "wait"

RequestInv(q) == ConnInv(q) /\ FreshInv(q) /\ CountInv(q) /\ LeftInv(q) /\ CallerInv(q)

(* The inductive invariant. *)
IInv == TypeOK /\ \A q \in Requests : RequestInv(q)

-----------------------------------------------------------------------------
(* A query has a finite number of rows. *)
LEMMA RowsNat == Rows \in Nat
BY FetchAssumption

(* What a step of one request leaves alone of another. *)
Same(r) ==
    /\ kind'[r] = kind[r] /\ caller'[r] = caller[r] /\ ctx'[r] = ctx[r]
    /\ handler'[r] = handler[r] /\ err'[r] = err[r] /\ yield'[r] = yield[r]
    /\ left'[r] = left[r] /\ chan'[r] = chan[r] /\ got'[r] = got[r] /\ conn'[r] = conn[r]

(* A request that a step leaves alone keeps its invariant. *)
LEMMA SameKeeps ==
  ASSUME NEW r, RequestInv(r), Same(r)
  PROVE  RequestInv(r)'
BY DEF Same, RequestInv, ConnInv, FreshInv, CountInv, LeftInv, CallerInv, Stopped, InHand, Bit

(* A step of request q that keeps q's invariant keeps the whole one. *)
LEMMA OthersKeep ==
  ASSUME IInv, NEW q \in Requests, TypeOK', RequestInv(q)',
         \A r \in Requests \ {q} : Same(r)
  PROVE  IInv'
<1>1. ASSUME NEW r \in Requests PROVE RequestInv(r)'
  <2>1. CASE r = q
    BY <2>1
  <2>2. CASE r # q
    BY <2>2, SameKeeps DEF IInv
  <2> QED BY <2>1, <2>2
<1> QED BY <1>1 DEF IInv

(* callWithTimeout starts the handler. *)
LEMMA CallStep == ASSUME IInv, NEW q \in Requests, Call(q) PROVE IInv'
<1> USE RowsNat DEF Call, IInv, TypeOK
<1>1. TypeOK'
  OBVIOUS
<1>2. \A r \in Requests \ {q} : Same(r)
  BY DEF Same
<1>3. RequestInv(q)'
  BY DEF RequestInv, ConnInv, FreshInv, CountInv, LeftInv, CallerInv, Stopped, InHand, Bit
<1> QED BY <1>1, <1>2, <1>3, OthersKeep

(* The deadline passes. *)
LEMMA ExpireStep == ASSUME IInv, NEW q \in Requests, Expire(q) PROVE IInv'
<1> USE RowsNat DEF Expire, IInv, TypeOK
<1>1. TypeOK'
  OBVIOUS
<1>2. \A r \in Requests \ {q} : Same(r)
  BY DEF Same
<1>3. RequestInv(q)'
  BY DEF RequestInv, ConnInv, FreshInv, CountInv, LeftInv, CallerInv, Stopped, InHand, Bit
<1> QED BY <1>1, <1>2, <1>3, OthersKeep

(* The client disconnects. *)
LEMMA DisconnectStep == ASSUME IInv, NEW q \in Requests, Disconnect(q) PROVE IInv'
<1> USE RowsNat DEF Disconnect, IInv, TypeOK
<1>1. TypeOK'
  OBVIOUS
<1>2. \A r \in Requests \ {q} : Same(r)
  BY DEF Same
<1>3. RequestInv(q)'
  BY DEF RequestInv, ConnInv, FreshInv, CountInv, LeftInv, CallerInv, Stopped, InHand, Bit
<1> QED BY <1>1, <1>2, <1>3, OthersKeep

(* The caller sees that the handler is done. *)
LEMMA DoneStep == ASSUME IInv, NEW q \in Requests, Done(q) PROVE IInv'
<1> USE RowsNat DEF Done, IInv, TypeOK
<1>1. TypeOK'
  OBVIOUS
<1>2. \A r \in Requests \ {q} : Same(r)
  BY DEF Same
<1>3. RequestInv(q)'
  BY DEF RequestInv, ConnInv, FreshInv, CountInv, LeftInv, CallerInv, Stopped, InHand, Bit
<1> QED BY <1>1, <1>2, <1>3, OthersKeep

(* The caller sees that its context is over. *)
LEMMA ContextDoneStep == ASSUME IInv, NEW q \in Requests, ContextDone(q) PROVE IInv'
<1> USE RowsNat DEF ContextDone, IInv, TypeOK
<1>1. TypeOK'
  OBVIOUS
<1>2. \A r \in Requests \ {q} : Same(r)
  BY DEF Same
<1>3. RequestInv(q)'
  BY DEF RequestInv, ConnInv, FreshInv, CountInv, LeftInv, CallerInv, Stopped, InHand, Bit
<1> QED BY <1>1, <1>2, <1>3, OthersKeep

(* The query gets its connection. *)
LEMMA BeginQueryStep == ASSUME IInv, NEW q \in Requests, BeginQuery(q) PROVE IInv'
<1> USE RowsNat DEF BeginQuery, Leave, IInv, TypeOK
<1>1. TypeOK'
  <2>1. handler' \in [Requests -> {"idle", "begin", "loop", "rewind", "undo", "drain", "done"}]
    OBVIOUS
  <2>2. err' \in [Requests -> BOOLEAN]
    BY Zenon
  <2>3. yield' \in [Requests -> {"idle", "send", "closed"}]
    OBVIOUS
  <2>4. left' \in [Requests -> 0 .. Rows]
    OBVIOUS
  <2>5. conn' \in [Requests -> SUBSET {"query", "rewind"}]
    OBVIOUS
  <2> QED BY <2>1, <2>2, <2>3, <2>4, <2>5
<1>2. \A r \in Requests \ {q} : Same(r)
  BY DEF Same
<1>3. RequestInv(q)'
  BY DEF RequestInv, ConnInv, FreshInv, CountInv, LeftInv, CallerInv, Stopped, InHand, Bit
<1> QED BY <1>1, <1>2, <1>3, OthersKeep

(* The query does not start. *)
LEMMA BeginFailsStep == ASSUME IInv, NEW q \in Requests, BeginFails(q) PROVE IInv'
<1> USE RowsNat DEF BeginFails, IInv, TypeOK
<1>1. TypeOK'
  OBVIOUS
<1>2. \A r \in Requests \ {q} : Same(r)
  BY DEF Same
<1>3. RequestInv(q)'
  BY DEF RequestInv, ConnInv, FreshInv, CountInv, LeftInv, CallerInv, Stopped, InHand, Bit
<1> QED BY <1>1, <1>2, <1>3, OthersKeep

(* A row is taken from the channel. *)
LEMMA ReceiveStep == ASSUME IInv, NEW q \in Requests, Receive(q) PROVE IInv'
<1> USE RowsNat DEF Receive, Leave, IInv, TypeOK
<1>0. chan[q] = "row" => got[q] + 1 \in 0 .. Rows
  BY DEF RequestInv, CountInv, InHand, Bit
<1>1. TypeOK'
  <2>1. got' \in [Requests -> 0 .. Rows]
    BY <1>0
  <2>2. handler' \in [Requests -> {"idle", "begin", "loop", "rewind", "undo", "drain", "done"}]
    OBVIOUS
  <2>3. err' \in [Requests -> BOOLEAN]
    BY Zenon
  <2>4. chan' \in [Requests -> {"empty", "row", "error"}]
    OBVIOUS
  <2> QED BY <2>1, <2>2, <2>3, <2>4
<1>2. \A r \in Requests \ {q} : Same(r)
  BY DEF Same
<1>3. RequestInv(q)'
  BY DEF RequestInv, ConnInv, FreshInv, CountInv, LeftInv, CallerInv, Stopped, InHand, Bit
<1> QED BY <1>1, <1>2, <1>3, OthersKeep

(* The channel is closed and empty. *)
LEMMA LoopEndsStep == ASSUME IInv, NEW q \in Requests, LoopEnds(q) PROVE IInv'
<1> USE RowsNat DEF LoopEnds, Leave, IInv, TypeOK
<1>1. TypeOK'
  OBVIOUS
<1>2. \A r \in Requests \ {q} : Same(r)
  BY DEF Same
<1>3. RequestInv(q)'
  BY DEF RequestInv, ConnInv, FreshInv, CountInv, LeftInv, CallerInv, Stopped, InHand, Bit
<1> QED BY <1>1, <1>2, <1>3, OthersKeep

(* The rewind of an account gets its connection. *)
LEMMA BeginRewindStep == ASSUME IInv, NEW q \in Requests, BeginRewind(q) PROVE IInv'
<1> USE RowsNat DEF BeginRewind, IInv, TypeOK
<1>1. TypeOK'
  OBVIOUS
<1>2. \A r \in Requests \ {q} : Same(r)
  BY DEF Same
<1>3. RequestInv(q)'
  BY DEF RequestInv, ConnInv, FreshInv, CountInv, LeftInv, CallerInv, Stopped, InHand, Bit
<1> QED BY <1>1, <1>2, <1>3, OthersKeep

(* The rewind of an account ends, well or with an error. *)
LEMMA EndRewindStep == ASSUME IInv, NEW q \in Requests, EndRewind(q) PROVE IInv'
<1> USE RowsNat DEF EndRewind, Leave, IInv, TypeOK
<1>0. got[q] + 1 \in 0 .. Rows
  BY DEF RequestInv, CountInv, InHand, Bit
<1>1. TypeOK'
  <2>1. got' \in [Requests -> 0 .. Rows]
    BY <1>0
  <2>2. handler' \in [Requests -> {"idle", "begin", "loop", "rewind", "undo", "drain", "done"}]
    OBVIOUS
  <2>3. err' \in [Requests -> BOOLEAN]
    BY Zenon
  <2>4. conn' \in [Requests -> SUBSET {"query", "rewind"}]
    OBVIOUS
  <2> QED BY <2>1, <2>2, <2>3, <2>4
<1>2. \A r \in Requests \ {q} : Same(r)
  BY DEF Same
<1>3. RequestInv(q)'
  BY DEF RequestInv, ConnInv, FreshInv, CountInv, LeftInv, CallerInv, Stopped, InHand, Bit
<1> QED BY <1>1, <1>2, <1>3, OthersKeep

(* The rewind of an account does not start. *)
LEMMA RewindFailsStep == ASSUME IInv, NEW q \in Requests, RewindFails(q) PROVE IInv'
<1> USE RowsNat DEF RewindFails, Leave, IInv, TypeOK
<1>1. TypeOK'
  OBVIOUS
<1>2. \A r \in Requests \ {q} : Same(r)
  BY DEF Same
<1>3. RequestInv(q)'
  BY DEF RequestInv, ConnInv, FreshInv, CountInv, LeftInv, CallerInv, Stopped, InHand, Bit
<1> QED BY <1>1, <1>2, <1>3, OthersKeep

(* The handler empties the channel before it returns. *)
LEMMA DrainStep == ASSUME IInv, NEW q \in Requests, Drain(q) PROVE IInv'
<1> USE RowsNat DEF Drain, IInv, TypeOK
<1>1. TypeOK'
  <2>1. handler' \in [Requests -> {"idle", "begin", "loop", "rewind", "undo", "drain", "done"}]
    OBVIOUS
  <2>2. chan' \in [Requests -> {"empty", "row", "error"}]
    OBVIOUS
  <2> QED BY <2>1, <2>2
<1>2. \A r \in Requests \ {q} : Same(r)
  BY DEF Same
<1>3. RequestInv(q)'
  BY DEF RequestInv, ConnInv, FreshInv, CountInv, LeftInv, CallerInv, Stopped, InHand, Bit
<1> QED BY <1>1, <1>2, <1>3, OthersKeep

(* A row, or an error row, is sent. *)
LEMMA SendRowStep == ASSUME IInv, NEW q \in Requests, SendRow(q) PROVE IInv'
<1> USE RowsNat DEF SendRow, AfterError, IInv, TypeOK
<1>1. TypeOK'
  <2>1. left' \in [Requests -> 0 .. Rows]
    OBVIOUS
  <2>2. chan' \in [Requests -> {"empty", "row", "error"}]
    OBVIOUS
  <2> QED BY <2>1, <2>2
<1>2. \A r \in Requests \ {q} : Same(r)
  BY DEF Same
<1>3. RequestInv(q)'
  BY DEF RequestInv, ConnInv, FreshInv, CountInv, LeftInv, CallerInv, Stopped, InHand, Bit
<1> QED BY <1>1, <1>2, <1>3, OthersKeep

(* A page whose context is over sends no more. *)
LEMMA StopBetweenQueriesStep ==
  ASSUME IInv, NEW q \in Requests, StopBetweenQueries(q) PROVE IInv'
<1> USE RowsNat DEF StopBetweenQueries, IInv, TypeOK
<1>1. TypeOK'
  OBVIOUS
<1>2. \A r \in Requests \ {q} : Same(r)
  BY DEF Same
<1>3. RequestInv(q)'
  BY DEF RequestInv, ConnInv, FreshInv, CountInv, LeftInv, CallerInv, Stopped, InHand, Bit
<1> QED BY <1>1, <1>2, <1>3, OthersKeep

(* The transaction is rolled back, then the channel closed. *)
LEMMA RollbackAndCloseStep == ASSUME IInv, NEW q \in Requests, RollbackAndClose(q) PROVE IInv'
<1> USE RowsNat DEF RollbackAndClose, IInv, TypeOK
<1>1. TypeOK'
  OBVIOUS
<1>2. \A r \in Requests \ {q} : Same(r)
  BY DEF Same
<1>3. RequestInv(q)'
  BY DEF RequestInv, ConnInv, FreshInv, CountInv, LeftInv, CallerInv, Stopped, InHand, Bit
<1> QED BY <1>1, <1>2, <1>3, OthersKeep

(* The place of a request is used again. *)
LEMMA ResetStep == ASSUME IInv, NEW q \in Requests, Reset(q) PROVE IInv'
<1> USE RowsNat DEF Reset, IInv, TypeOK
<1>1. TypeOK'
  OBVIOUS
<1>2. \A r \in Requests \ {q} : Same(r)
  BY DEF Same
<1>3. RequestInv(q)'
  BY DEF RequestInv, ConnInv, FreshInv, CountInv, LeftInv, CallerInv, Stopped, InHand, Bit
<1> QED BY <1>1, <1>2, <1>3, OthersKeep

-----------------------------------------------------------------------------
(* Before any request, the invariant holds. *)
LEMMA InitInv == Init => IInv
BY RowsNat DEF Init, IInv, TypeOK, RequestInv, ConnInv, FreshInv, CountInv, LeftInv, CallerInv, Stopped, InHand, Bit

(* Every step keeps it. *)
LEMMA NextInv == IInv /\ [Next]_vars => IInv'
<1> SUFFICES ASSUME IInv, [Next]_vars PROVE IInv'
  OBVIOUS
<1>1. ASSUME NEW q \in Requests,
             Call(q) \/ Expire(q) \/ Disconnect(q) \/ Done(q) \/ ContextDone(q) \/ Reset(q)
      PROVE  IInv'
  BY <1>1, CallStep, ExpireStep, DisconnectStep, DoneStep, ContextDoneStep, ResetStep
<1>2. ASSUME NEW q \in Requests, HandlerStep(q) PROVE IInv'
  BY <1>2, BeginQueryStep, BeginFailsStep, ReceiveStep, LoopEndsStep, BeginRewindStep,
     EndRewindStep, RewindFailsStep, DrainStep DEF HandlerStep
<1>3. ASSUME NEW q \in Requests, YieldStep(q) PROVE IInv'
  BY <1>3, SendRowStep, StopBetweenQueriesStep, RollbackAndCloseStep DEF YieldStep
<1>4. CASE UNCHANGED vars
  BY <1>4 DEF vars, IInv, TypeOK, RequestInv, ConnInv, FreshInv, CountInv, LeftInv, CallerInv, Stopped, InHand, Bit
<1> QED BY <1>1, <1>2, <1>3, <1>4 DEF Next

(* So it holds throughout. *)
LEMMA Invariance == Spec => []IInv
BY InitInv, NextInv, PTL DEF Spec

(* Each variable keeps to its values; in particular no request is ever      *)
(* answered with more rows than its query has.                             *)
THEOREM TypeCorrect == Spec => []TypeOK
<1>1. IInv => TypeOK
  BY DEF IInv
<1> QED BY <1>1, Invariance, PTL

(* callWithTimeout returns no error only when the handler is done and has  *)
(* every row, whatever deadlines, database errors and failed rewinds did   *)
(* to this and to other requests. Only a page of transactions whose        *)
(* context was cancelled from outside may lack rows.                       *)
THEOREM SuccessMeansComplete == Spec => []SuccessIsComplete
<1>1. IInv => SuccessIsComplete
  BY DEF IInv, RequestInv, CallerInv, LeftInv, Stopped, SuccessIsComplete
<1> QED BY <1>1, Invariance, PTL

(* The deferred cancel of a request without an error comes after the       *)
(* rollback of its transactions: it never interrupts them.                 *)
THEOREM CancelFollowsRollback == Spec => []RolledBackBeforeCancel
<1>1. IInv => RolledBackBeforeCancel
  <2> SUFFICES ASSUME IInv, NEW q \in Requests, ctx[q] = "ended", ~err[q]
               PROVE  conn[q] = {}
    BY DEF RolledBackBeforeCancel
  <2>1. err[q] = FALSE
    BY DEF IInv, TypeOK
  <2>2. handler[q] = "done" /\ yield[q] = "closed"
    BY <2>1 DEF IInv, RequestInv, CallerInv, LeftInv
  <2> QED BY <2>2 DEF IInv, TypeOK, RequestInv, ConnInv
<1> QED BY <1>1, Invariance, PTL
=============================================================================
