------------------------------- MODULE ApiFetch -------------------------------
(***************************************************************************)
(* The goroutines behind one API request: callWithTimeout runs a handler   *)
(* (fetchAccounts, fetchTransactions, ...), the handler starts a query     *)
(* whose rows another goroutine sends through a channel of capacity one,   *)
(* and every query holds a connection of the shared pool until its         *)
(* transaction is rolled back. An account search that rewinds needs a      *)
(* second connection for every account while it holds the first.           *)
(***************************************************************************)
EXTENDS Integers, FiniteSets

CONSTANTS
    Requests,  \* requests being served
    Kinds,     \* kinds of request: an account search at a round, "rewind", one
               \* without, "account", a page of transactions that a next token
               \* asks for, "page", and any "other" search
    Corrupt,   \* kinds that may meet a row that cannot be decoded or converted
    MaxConn,   \* connections of the pool
    Rows,      \* rows of a query's result
    Deadline   \* whether the handler timeout is not zero

ASSUME FetchAssumption ==
    /\ {MaxConn, Rows} \subseteq Nat /\ Deadline \in BOOLEAN
    /\ Kinds \subseteq {"rewind", "account", "page", "other"} /\ Corrupt \subseteq Kinds

Draining == {"rewind", "account"} \* what fetchAccounts serves

VARIABLES
    kind,    \* what is asked for
    caller,  \* callWithTimeout
    ctx,     \* its context: live, expired, cancelled from outside, or ended by its return
    handler, \* the handler's goroutine
    err,     \* what the handler returned
    yield,   \* the goroutine that sends rows
    left,    \* rows it has still to send
    chan,    \* the channel: empty, a row, or an error row
    got,     \* rows dealt with: put in the answer, or left out as special accounts
    conn     \* connections the request holds: the query's and the rewind's

vars == <<kind, caller, ctx, handler, err, yield, left, chan, got, conn>>

(* The one type invariant. *)
TypeOK ==
    /\ kind \in [Requests -> Kinds \cup {"none"}]
    /\ caller \in [Requests -> {"idle", "wait", "ok", "error", "timeout"}]
    /\ ctx \in [Requests -> {"live", "expired", "cancelled", "ended"}]
    /\ handler \in [Requests -> {"idle", "begin", "loop", "rewind", "undo", "drain", "done"}]
    /\ err \in [Requests -> BOOLEAN]
    /\ yield \in [Requests -> {"idle", "send", "closed"}]
    /\ left \in [Requests -> 0 .. Rows]
    /\ chan \in [Requests -> {"empty", "row", "error"}]
    /\ got \in [Requests -> 0 .. Rows]
    /\ conn \in [Requests -> SUBSET {"query", "rewind"}]

Init ==
    /\ kind = [q \in Requests |-> "none"]
    /\ caller = [q \in Requests |-> "idle"]
    /\ ctx = [q \in Requests |-> "live"]
    /\ handler = [q \in Requests |-> "idle"]
    /\ err = [q \in Requests |-> FALSE]
    /\ yield = [q \in Requests |-> "idle"]
    /\ left = [q \in Requests |-> 0]
    /\ chan = [q \in Requests |-> "empty"]
    /\ got = [q \in Requests |-> 0]
    /\ conn = [q \in Requests |-> {}]

InUse == Cardinality({c \in Requests \X {"query", "rewind"} : c[2] \in conn[c[1]]})
Free  == InUse < MaxConn

-----------------------------------------------------------------------------
(* callWithTimeout *)

Call(q) ==
    /\ caller[q] = "idle"
    /\ \E k \in Kinds : kind' = [kind EXCEPT ![q] = k]
    /\ caller' = [caller EXCEPT ![q] = "wait"]
    /\ handler' = [handler EXCEPT ![q] = "begin"]
    /\ UNCHANGED <<ctx, err, yield, left, chan, got, conn>>

(* Mutant: the context has no deadline. *)
NeverExpires(q) == FALSE /\ UNCHANGED vars

(* The deadline of the context passes. *)
Expire(q) ==
    /\ Deadline
    /\ caller[q] = "wait" /\ ctx[q] = "live"
    /\ ctx' = [ctx EXCEPT ![q] = "expired"]
    /\ UNCHANGED <<kind, caller, handler, err, yield, left, chan, got, conn>>

(* The client disconnects, or the server is told to stop: either cancels    *)
(* the request's context.                                                  *)
Disconnect(q) ==
    /\ caller[q] = "wait" /\ ctx[q] = "live"
    /\ ctx' = [ctx EXCEPT ![q] = "cancelled"]
    /\ UNCHANGED <<kind, caller, handler, err, yield, left, chan, got, conn>>

(* case <-done, or the handler's return without a deadline. The deferred   *)
(* cancel ends the context.                                                *)
Done(q) ==
    /\ caller[q] = "wait" /\ handler[q] = "done"
    /\ caller' = [caller EXCEPT ![q] = IF ctx[q] = "expired" THEN "timeout"
                                       ELSE IF err[q] THEN "error" ELSE "ok"]
    /\ ctx' = [ctx EXCEPT ![q] = IF Deadline /\ @ = "live" THEN "ended" ELSE @]
    /\ UNCHANGED <<kind, handler, err, yield, left, chan, got, conn>>

(* Mutant: err is returned when the context is over, as it is on done. *)
ContextDoneReturnsErr(q) ==
    /\ Deadline
    /\ caller[q] = "wait" /\ ctx[q] # "live"
    /\ caller' = [caller EXCEPT ![q] = IF ctx[q] = "expired" THEN "timeout"
                                       ELSE IF err[q] THEN "error" ELSE "ok"]
    /\ UNCHANGED <<kind, ctx, handler, err, yield, left, chan, got, conn>>

(* case <-timeoutCtx.Done(): the handler goes on by itself. *)
ContextDone(q) ==
    /\ Deadline
    /\ caller[q] = "wait" /\ ctx[q] # "live"
    /\ caller' = [caller EXCEPT ![q] = IF ctx[q] = "expired" THEN "timeout" ELSE "error"]
    /\ UNCHANGED <<kind, ctx, handler, err, yield, left, chan, got, conn>>

-----------------------------------------------------------------------------
(* The handler. It returns an error e; fetchAccounts empties the channel   *)
(* first.                                                                  *)
Leave(q, e) ==
    /\ handler' = [handler EXCEPT ![q] = IF kind[q] \in Draining THEN "drain" ELSE "done"]
    /\ err' = [err EXCEPT ![q] = e]

(* GetAccounts, Transactions, ...: BeginTx takes a connection and the rows *)
(* are sent by a goroutine of their own. A round the database has not      *)
(* reached ends an account request at once.                                *)
BeginQuery(q) ==
    /\ handler[q] = "begin" /\ ctx[q] = "live" /\ Free
    /\ conn' = [conn EXCEPT ![q] = @ \cup {"query"}]
    /\ yield' = [yield EXCEPT ![q] = "send"]
    /\ left' = [left EXCEPT ![q] = Rows]
    /\ \/ handler' = [handler EXCEPT ![q] = "loop"] /\ UNCHANGED err
       \/ kind[q] = "rewind" /\ Leave(q, TRUE)
    /\ UNCHANGED <<kind, caller, ctx, chan, got>>

(* BeginTx or a statement after it fails, always when the context ends:    *)
(* the channel holds the error and is closed.                              *)
BeginFails(q) ==
    /\ handler[q] = "begin"
    /\ yield' = [yield EXCEPT ![q] = "closed"]
    /\ chan' = [chan EXCEPT ![q] = "error"]
    /\ handler' = [handler EXCEPT ![q] = "loop"]
    /\ UNCHANGED <<kind, caller, ctx, err, left, got, conn>>

(* A row of the channel: an error ends the loop, and so does a row that    *)
(* cannot be converted.                                                    *)
Receive(q) ==
    /\ handler[q] = "loop" /\ chan[q] # "empty"
    /\ chan' = [chan EXCEPT ![q] = "empty"]
    /\ \/ chan[q] = "error" /\ Leave(q, TRUE) /\ UNCHANGED got
       \/ chan[q] = "row" /\ kind[q] \in Corrupt /\ Leave(q, TRUE) /\ UNCHANGED got
       \/ /\ chan[q] = "row"
          /\ handler' = [handler EXCEPT ![q] = IF kind[q] = "rewind" THEN "rewind" ELSE "loop"]
          /\ got' = [got EXCEPT ![q] = IF kind[q] = "rewind" THEN @ ELSE @ + 1]
          /\ UNCHANGED err
    /\ UNCHANGED <<kind, caller, ctx, yield, left, conn>>

LoopEnds(q) ==
    /\ handler[q] = "loop" /\ chan[q] = "empty" /\ yield[q] = "closed"
    /\ Leave(q, FALSE)
    /\ UNCHANGED <<kind, caller, ctx, yield, left, chan, got, conn>>

(* AccountAtRound: Transactions takes a second connection, and gives it    *)
(* back before it closes its channel, which the loop and the deferred      *)
(* drain wait for.                                                         *)
BeginRewind(q) ==
    /\ handler[q] = "rewind" /\ ctx[q] = "live" /\ Free
    /\ conn' = [conn EXCEPT ![q] = @ \cup {"rewind"}]
    /\ handler' = [handler EXCEPT ![q] = "undo"]
    /\ UNCHANGED <<kind, caller, ctx, err, yield, left, chan, got>>

EndRewind(q) ==
    /\ handler[q] = "undo"
    /\ conn' = [conn EXCEPT ![q] = @ \ {"rewind"}]
    /\ \/ /\ handler' = [handler EXCEPT ![q] = "loop"]
          /\ got' = [got EXCEPT ![q] = @ + 1]
          /\ UNCHANGED err
       \/ Leave(q, TRUE) /\ UNCHANGED got
    /\ UNCHANGED <<kind, caller, ctx, yield, left, chan>>

RewindFails(q) ==
    /\ handler[q] = "rewind"
    /\ Leave(q, TRUE)
    /\ UNCHANGED <<kind, caller, ctx, yield, left, chan, got, conn>>

(* for range accountchan {} *)
Drain(q) ==
    /\ handler[q] = "drain"
    /\ \/ /\ chan[q] # "empty"
          /\ chan' = [chan EXCEPT ![q] = "empty"]
          /\ UNCHANGED handler
       \/ /\ chan[q] = "empty" /\ yield[q] = "closed"
          /\ handler' = [handler EXCEPT ![q] = "done"]
          /\ UNCHANGED chan
    /\ UNCHANGED <<kind, caller, ctx, err, yield, left, got, conn>>

-----------------------------------------------------------------------------
(* The goroutine that sends rows. A row waits for room in the channel. The *)
(* end of the context, or a database error, turns into an error row, after *)
(* which there are no more. After one for a row that cannot be decoded,    *)
(* yieldBlocksThreadSimple, and a page's first query, go on.               *)
AfterError(q) == {0} \cup IF kind[q] \in Corrupt \ Draining THEN {left[q] - 1} ELSE {}

SendRow(q) ==
    /\ yield[q] = "send" /\ left[q] > 0 /\ chan[q] = "empty"
    /\ \/ /\ chan' = [chan EXCEPT ![q] = "row"]
          /\ left' = [left EXCEPT ![q] = @ - 1]
       \/ /\ chan' = [chan EXCEPT ![q] = "error"]
          /\ \E n \in AfterError(q) : left' = [left EXCEPT ![q] = n]
    /\ UNCHANGED <<kind, caller, ctx, handler, err, yield, got, conn>>

(* txnsWithNext, whose first query is for the rest of the token's round:   *)
(* when the context is over before the second, it returns without an error *)
(* row. The first query may have given any number of the rows.             *)
StopBetweenQueries(q) ==
    /\ yield[q] = "send" /\ left[q] > 0
    /\ kind[q] = "page" /\ ctx[q] # "live"
    /\ left' = [left EXCEPT ![q] = 0]
    /\ UNCHANGED <<kind, caller, ctx, handler, err, yield, chan, got, conn>>

(* Mutant: the channel is closed before the transaction is rolled back. *)
CloseFirst(q) ==
    \/ /\ yield[q] = "send" /\ left[q] = 0
       /\ yield' = [yield EXCEPT ![q] = "closed"]
       /\ UNCHANGED <<kind, caller, ctx, handler, err, left, chan, got, conn>>
    \/ /\ yield[q] = "closed" /\ "query" \in conn[q]
       /\ conn' = [conn EXCEPT ![q] = @ \ {"query"}]
       /\ UNCHANGED <<kind, caller, ctx, handler, err, yield, left, chan, got>>

(* Mutant: a goroutine whose context is over returns without the rollback. *)
RollbackWhenLive(q) ==
    /\ yield[q] = "send" /\ left[q] = 0
    /\ conn' = [conn EXCEPT ![q] = IF ctx[q] = "live" THEN @ \ {"query"} ELSE @]
    /\ yield' = [yield EXCEPT ![q] = "closed"]
    /\ UNCHANGED <<kind, caller, ctx, handler, err, left, chan, got>>

(* tx.Rollback, then close(out), when there is nothing more to send. *)
RollbackAndClose(q) ==
    /\ yield[q] = "send" /\ left[q] = 0
    /\ conn' = [conn EXCEPT ![q] = @ \ {"query"}]
    /\ yield' = [yield EXCEPT ![q] = "closed"]
    /\ UNCHANGED <<kind, caller, ctx, handler, err, left, chan, got>>

(* Everything of the request is over; its place is free for another. *)
Reset(q) ==
    /\ caller[q] \in {"ok", "error", "timeout"}
    /\ handler[q] = "done" /\ yield[q] = "closed"
    /\ kind' = [kind EXCEPT ![q] = "none"]
    /\ caller' = [caller EXCEPT ![q] = "idle"]
    /\ ctx' = [ctx EXCEPT ![q] = "live"]
    /\ handler' = [handler EXCEPT ![q] = "idle"]
    /\ err' = [err EXCEPT ![q] = FALSE]
    /\ yield' = [yield EXCEPT ![q] = "idle"]
    /\ chan' = [chan EXCEPT ![q] = "empty"]
    /\ got' = [got EXCEPT ![q] = 0]
    /\ UNCHANGED <<left, conn>>

-----------------------------------------------------------------------------
HandlerStep(q) ==
    \/ BeginQuery(q) \/ BeginFails(q) \/ Receive(q) \/ LoopEnds(q)
    \/ BeginRewind(q) \/ RewindFails(q) \/ EndRewind(q) \/ Drain(q)

YieldStep(q) == SendRow(q) \/ RollbackAndClose(q) \/ StopBetweenQueries(q)

Next == \E q \in Requests :
          \/ Call(q) \/ Expire(q) \/ Disconnect(q) \/ Done(q) \/ ContextDone(q) \/ Reset(q)
          \/ HandlerStep(q) \/ YieldStep(q)

Spec == Init /\ [][Next]_vars

(* Goroutines are scheduled and the deadline passes. BeginTx returns an    *)
(* error for certain only once the context has ended: while it lives, it   *)
(* may wait for a connection as long as others hold them. Nothing makes    *)
(* the context end just between the queries of a page.                     *)
FairSpec ==
    /\ Spec
    /\ \A q \in Requests :
         /\ WF_vars(Expire(q)) /\ WF_vars(Done(q)) /\ WF_vars(ContextDone(q))
         /\ WF_vars(BeginQuery(q)) /\ WF_vars(BeginRewind(q))
         /\ WF_vars(ctx[q] # "live" /\ BeginFails(q))
         /\ WF_vars(ctx[q] # "live" /\ RewindFails(q))
         /\ WF_vars(Receive(q) \/ LoopEnds(q) \/ EndRewind(q) \/ Drain(q))
         /\ WF_vars(SendRow(q) \/ RollbackAndClose(q))

-----------------------------------------------------------------------------
(* When callWithTimeout returns no error the handler is done, so that      *)
(* nothing writes to the answer while it is encoded, and the answer has     *)
(* every row: a deadline, an error row or a failed rewind never yields a    *)
(* partial one. The one exception is a page of transactions whose context   *)
(* was cancelled between its two queries: it may be cut short although it   *)
(* is answered with success. A deadline at that place does not do this.    *)
SuccessIsComplete ==
    \A q \in Requests :
      caller[q] = "ok" =>
        /\ handler[q] = "done"
        /\ got[q] = Rows \/ (kind[q] = "page" /\ ctx[q] = "cancelled")

(* "We need to make sure that rollback is called before close() otherwise  *)
(* [...] `callWithTimeout' will cancel our context": the context of a      *)
(* request that succeeds is cancelled only after its connections are back. *)
RolledBackBeforeCancel ==
    \A q \in Requests : ctx[q] = "ended" /\ ~err[q] => conn[q] = {}

(* Every request is answered, even when the requests hold all connections  *)
(* and each waits for one more.                                            *)
EveryCallReturns == \A q \in Requests : caller[q] = "wait" ~> caller[q] # "wait"

(* Every connection goes back to the pool, also those of requests that     *)
(* failed or timed out with rows still to come.                            *)
ConnectionsReturn == \A q \in Requests : conn[q] # {} ~> conn[q] = {}
=============================================================================
