------------------------------ MODULE LiveOrder ------------------------------
(***************************************************************************)
(* Market orders of execution/live_executor.py against an exchange.  One   *)
(* thread calls _place_market_order, and calls it again for an intent      *)
(* whose last result says that this is safe.  The exchange is external: a  *)
(* request may be lost, arrive after the caller has given up on it, be     *)
(* refused, or be answered by a reply that is lost, garbled or an error of *)
(* a gateway.  All calls for an intent send the same clientOrderId         *)
(* (attempt = 1), so the intent stands for it; the exchange refuses an id  *)
(* only while an earlier order that bears it is open.                      *)
(***************************************************************************)
EXTENDS Naturals, Sequences

CONSTANTS
  Intents,   \* the (strategy, cycle, symbol) triples that orders are wanted for
  MaxCalls,  \* bound: calls per intent
  None       \* no result yet, or no reply

ASSUME MaxCallsAssumption == MaxCalls \in Nat \ {0}

\* Order states on the exchange; "PENDING_NEW" stands for the names the mapping
\* does not know.
ExchangeStatus == {"NEW", "PARTIALLY_FILLED", "FILLED", "CANCELED", "REJECTED", "EXPIRED",
                   "PENDING_NEW"}
OpenStatus == {"NEW", "PARTIALLY_FILLED", "PENDING_NEW"}

\* Fault for mutation: the exchange's name is passed on as it is.
ExchangeName(x) == x

\* exchange_status_to_lifecycle_status
LifecycleStatus(x) ==
  CASE x = "NEW" -> "acked"
    [] x = "PARTIALLY_FILLED" -> "partially_filled"
    [] x = "FILLED" -> "filled"
    [] x = "CANCELED" -> "canceled"
    [] x = "REJECTED" -> "rejected"
    [] x = "EXPIRED" -> "expired"
    [] OTHER -> "failed"

Lifecycle == {"acked", "partially_filled", "filled", "canceled", "rejected",
              "expired", "failed", "pending_unknown"}

Codes == {"ok", "network_error", "exchange_http_error", "internal_error", "live_trading_disabled",
          "symbol_not_allowed", "filter_validation_failed", "exchange_info_unavailable",
          "pending_unknown", "raised"}

Results == [status : Lifecycle, code : Codes, retriable : BOOLEAN]

ASSUME NoneAssumption == None \notin ExchangeStatus \union Results

Result(status, code, retriable) == [status |-> status, code |-> code, retriable |-> retriable]

VARIABLES
  intent,  \* the intent of the call under way
  phase,   \* where the calling thread stands
  cached,  \* _exchange_info_fetched
  calls,   \* number of calls made for each intent
  result,  \* what the last finished call answered for each intent
  reply,   \* the order status in the exchange's reply, while it travels
  late,    \* number of requests of each id given up on that may still arrive
  book,    \* the exchange: the orders taken under each id, oldest first
  out,     \* history: the request of this call was sent, and neither refused nor lost
  hidden   \* history: answers to each intent that such a request may be repeated

vars == <<intent, phase, cached, calls, result, reply, late, book, out, hidden>>

Phases == {"idle", "info", "filters", "travelling", "accepted", "refused", "query"}

Init ==
  /\ intent \in Intents
  /\ phase = "idle"
  /\ cached = FALSE
  /\ calls = [i \in Intents |-> 0]
  /\ result = [i \in Intents |-> None]
  /\ reply = None
  /\ late = [i \in Intents |-> 0]
  /\ book = [i \in Intents |-> << >>]
  /\ out = FALSE
  /\ hidden = [i \in Intents |-> 0]

-----------------------------------------------------------------------------
(* The call. *)

\* The caller calls once, and again when the last result is retriable.
Call(i) ==
  /\ phase = "idle"
  /\ calls[i] < MaxCalls
  /\ calls[i] > 0 => result[i].retriable
  /\ intent' = i
  /\ calls' = [calls EXCEPT ![i] = @ + 1]
  /\ phase' = "info"
  /\ UNCHANGED <<cached, result, reply, late, book, out, hidden>>

Answer(r) ==
  /\ result' = [result EXCEPT ![intent] = r]
  /\ phase' = "idle"
  /\ reply' = None /\ out' = FALSE
  /\ UNCHANGED <<intent, cached, calls, late, book>>

\* The answer says of a request that the exchange took, or may still take, that
\* the caller had better send it again.
Hide == hidden' = IF out THEN [hidden EXCEPT ![intent] = @ + 1] ELSE hidden

\* The checks before anything is sent: the switch, the symbol, the filters.
RefuseLocally ==
  \/ /\ phase = "info"
     /\ \E code \in {"live_trading_disabled", "symbol_not_allowed"} :
          Answer(Result("failed", code, FALSE))
     /\ UNCHANGED hidden
  \/ /\ phase = "filters"
     /\ Answer(Result("failed", "filter_validation_failed", FALSE))
     /\ UNCHANGED hidden

\* ensure_exchange_info, fetched once; only HTTP and network errors are caught.
FetchInfo ==
  /\ phase = "info"
  /\ cached' = TRUE
  /\ phase' = "filters"
  /\ UNCHANGED <<intent, calls, result, reply, late, book, out, hidden>>

InfoFails ==
  /\ phase = "info" /\ ~cached
  /\ \/ Answer(Result("failed", "exchange_info_unavailable", TRUE))
     \/ Answer(Result("failed", "raised", FALSE))
  /\ UNCHANGED hidden

Submit ==
  /\ phase = "filters"
  /\ phase' = "travelling"
  /\ out' = TRUE
  /\ UNCHANGED <<intent, cached, calls, result, reply, late, book, hidden>>

-----------------------------------------------------------------------------
(* The exchange. *)

HasOpenOrder(i) == \E k \in DOMAIN book[i] : book[i][k] \in OpenStatus

\* A new order is taken in the state x, whatever became of earlier ones of its id
\* that are closed.
Take(i, x) ==
  /\ ~HasOpenOrder(i)
  /\ book' = [book EXCEPT ![i] = Append(@, x)]

\* What a market order can be at once.
AtOnce == ExchangeStatus \ {"CANCELED"}

\* The request of the call under way arrives.
Accept ==
  /\ phase = "travelling"
  /\ \E x \in AtOnce : Take(intent, x) /\ reply' = x
  /\ phase' = "accepted"
  /\ UNCHANGED <<intent, cached, calls, result, late, out, hidden>>

\* The exchange may refuse any order, and refuses an id that an open order bears.
Refuse ==
  /\ phase = "travelling"
  /\ phase' = "refused"
  /\ out' = FALSE
  /\ UNCHANGED <<intent, cached, calls, result, reply, late, book, hidden>>

\* A request that the caller has given up on arrives, and is refused or taken.
ArriveLate(i) ==
  /\ late[i] > 0
  /\ late' = [late EXCEPT ![i] = @ - 1]
  /\ \/ \E x \in AtOnce : Take(i, x)
     \/ UNCHANGED book
  /\ UNCHANGED <<intent, phase, cached, calls, result, reply, out, hidden>>

Fill(i) ==
  /\ \E k \in DOMAIN book[i] :
       /\ book[i][k] \in OpenStatus
       /\ \E x \in ExchangeStatus \ {"NEW", "PENDING_NEW", book[i][k]} :
            book' = [book EXCEPT ![i][k] = x]
  /\ UNCHANGED <<intent, phase, cached, calls, result, reply, late, out, hidden>>

-----------------------------------------------------------------------------
(* The replies: _submit_order and _resolve_pending_unknown. *)

\* The reply bears the status the order had when it was taken.
ReplyOk ==
  /\ phase = "accepted"
  /\ Answer(Result(LifecycleStatus(reply), "ok", FALSE))
  /\ UNCHANGED hidden

\* 429 and 5xx are retriable.  A gateway may answer 5xx for an accepted order.
ReplyError ==
  \/ phase = "accepted" /\ Answer(Result("rejected", "exchange_http_error", TRUE)) /\ Hide
  \/ /\ phase = "refused"
     /\ \E retriable \in BOOLEAN : Answer(Result("rejected", "exchange_http_error", retriable))
     /\ UNCHANGED hidden

\* Fault for mutation: the unexpected counts as transient.
ReplyGarbledRetriable ==
  /\ phase \in {"accepted", "refused"}
  /\ Answer(Result("failed", "internal_error", TRUE))
  /\ UNCHANGED hidden

\* Any other exception, as of a reply that is not JSON.
ReplyGarbled ==
  /\ phase \in {"accepted", "refused"}
  /\ Answer(Result("failed", "internal_error", FALSE))
  /\ UNCHANGED hidden

\* A RequestError: the reply is lost, or the request is lost or late.
Timeout ==
  /\ phase \in {"travelling", "accepted", "refused"}
  /\ IF phase = "travelling"
       THEN \/ late' = [late EXCEPT ![intent] = @ + 1] /\ UNCHANGED out
            \/ out' = FALSE /\ UNCHANGED late
       ELSE UNCHANGED <<late, out>>
  /\ phase' = "query"
  /\ reply' = None
  /\ UNCHANGED <<intent, cached, calls, result, book, hidden>>

\* The exchange finds an order of the id, not always that of this call.
QueryFinds ==
  /\ phase = "query"
  /\ \E k \in DOMAIN book[intent] :
       Answer(Result(LifecycleStatus(book[intent][k]), "ok", FALSE))
  /\ UNCHANGED hidden

\* Fault for mutation: an error of the query is taken for the order's absence,
\* and the order for expired.
QueryConcludes ==
  /\ phase = "query"
  /\ Answer(Result("expired", "ok", FALSE))
  /\ UNCHANGED hidden

\* The order is not found, the query is refused, lost, or garbled: the last one
\* is not caught.
QueryFails ==
  /\ phase = "query"
  /\ \/ /\ \E code \in {"exchange_http_error", "pending_unknown"} :
             Answer(Result("pending_unknown", code, TRUE))
        /\ Hide
     \/ Answer(Result("failed", "raised", FALSE)) /\ UNCHANGED hidden

Executor ==
  \/ \E i \in Intents : Call(i)
  \/ RefuseLocally \/ FetchInfo \/ InfoFails \/ Submit
  \/ ReplyOk \/ ReplyError \/ ReplyGarbled \/ Timeout
  \/ QueryFinds \/ QueryFails

Exchange ==
  \/ Accept \/ Refuse
  \/ \E i \in Intents : ArriveLate(i) \/ Fill(i)

Next == Executor \/ Exchange

Spec == Init /\ [][Next]_vars

-----------------------------------------------------------------------------
(* Properties. *)

\* Results and the book keep their types: every status of the exchange is mapped
\* to one of the lifecycle, also those the executor has no name for.
TypeOK ==
  /\ intent \in Intents
  /\ phase \in Phases
  /\ cached \in BOOLEAN
  /\ calls \in [Intents -> 0..MaxCalls]
  /\ result \in [Intents -> Results \union {None}]
  /\ reply \in ExchangeStatus \union {None}
  /\ late \in [Intents -> Nat]
  /\ book \in [Intents -> Seq(ExchangeStatus)]
  /\ out \in BOOLEAN
  /\ hidden \in [Intents -> Nat]

OrdersOf(i) == {book[i][k] : k \in DOMAIN book[i]}

Final == {"filled", "canceled", "rejected", "expired"}

\* An answer "ok" comes from the order itself: the order exists, and a final
\* status answered for it is the final status of an order of the intent.
ConfirmedOrdersExist ==
  \A i \in Intents :
    (result[i] # None /\ result[i].code = "ok") =>
      /\ OrdersOf(i) # {}
      /\ result[i].status \in Final =>
           \E x \in OrdersOf(i) : LifecycleStatus(x) = result[i].status

\* What is left of one order per intent: no call sends its request twice, and no
\* other answer than a 5xx or an unresolved time-out invites to send it again, so an
\* intent has as many orders too many as such answers hid a request that the
\* exchange took or could still take.
ExtraOrdersWereHidden == \A i \in Intents : Len(book[i]) <= 1 + hidden[i]

\* What the docstring of ExecutionResult says of retriable (live_executor.py:80):
\* the operation can be safely retried with the same client_order_id, so however
\* often its caller does, an intent becomes one order at most.
OneOrderPerIntent == \A i \in Intents : Len(book[i]) <= 1

\* What the docstring of OrderLifecycle says of timed-out orders: the caller
\* is never told for good that an order was rejected which the exchange took.
RejectionsAreTrue ==
  \A i \in Intents :
    (result[i] # None /\ result[i].status = "rejected" /\ ~result[i].retriable) =>
      OrdersOf(i) \subseteq {"REJECTED"}

-----------------------------------------------------------------------------
(* The inductive strengthening. *)

\* The reply of an accepted order is underway, and its status is that of an order
\* of the intent unless that was open.
ReplyIsTrue ==
  phase = "accepted" =>
    /\ reply # None
    /\ OrdersOf(intent) # {}
    /\ reply \notin OpenStatus => reply \in OrdersOf(intent)

\* The requests of an intent that have become orders or may become one.
Owed(i) ==
  Len(book[i]) + late[i] + (IF i = intent /\ phase = "travelling" THEN 1 ELSE 0)

\* Whether the intent has had its one request that was not hidden.
Spent(i) ==
  IF i = intent /\ phase # "idle"
    THEN out
    ELSE result[i] # None /\ ~result[i].retriable

RequestsCounted ==
  /\ \A i \in Intents : calls[i] = 0 => result[i] = None
  /\ phase # "idle" => calls[intent] > 0
  /\ \A i \in Intents : Owed(i) <= hidden[i] + (IF Spent(i) THEN 1 ELSE 0)
  /\ phase \in {"idle", "info", "filters", "refused"} => ~out
  /\ phase \in {"travelling", "accepted"} => out
  /\ phase # "idle" => (result[intent] = None \/ result[intent].retriable)

IInv == TypeOK /\ ReplyIsTrue /\ ConfirmedOrdersExist /\ RequestsCounted
=============================================================================
