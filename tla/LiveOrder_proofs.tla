-------------------------- MODULE LiveOrder_proofs --------------------------
(***************************************************************************)
(* For every set of intents and any number of calls: an answer "ok" comes  *)
(* from an order that exists, and an intent has at most one order more     *)
(* than answers that hid a request.                                        *)
(***************************************************************************)
EXTENDS LiveOrder, TLAPS

USE MaxCallsAssumption, NoneAssumption

LEMMA StatusMapped == \A x \in ExchangeStatus : LifecycleStatus(x) \in Lifecycle
  BY DEF ExchangeStatus, LifecycleStatus, Lifecycle

\* The final answers come from orders that do not change any more.
LEMMA FinalStatusIsClosed ==
  \A x \in ExchangeStatus : LifecycleStatus(x) \in Final => x \notin OpenStatus
  BY DEF ExchangeStatus, LifecycleStatus, OpenStatus, Final

LEMMA InitIInv == Init => IInv
<1> SUFFICES ASSUME Init PROVE IInv
  OBVIOUS
<1>1. /\ intent \in Intents /\ cached \in BOOLEAN /\ phase = "idle" /\ reply = None /\ ~out
      /\ out \in BOOLEAN
      /\ calls = [i \in Intents |-> 0]
      /\ late = [i \in Intents |-> 0]
      /\ hidden = [i \in Intents |-> 0]
      /\ result = [i \in Intents |-> None]
      /\ book = [i \in Intents |-> << >>]
  BY Zenon DEF Init
<1>2. \A i \in Intents : book[i] \in Seq(ExchangeStatus) /\ Len(book[i]) = 0
  <2>1. << >> \in Seq(ExchangeStatus) /\ Len(<< >>) = 0
    OBVIOUS
  <2>2. \A i \in Intents : book[i] = << >>
    BY <1>1, Zenon
  <2> QED
    BY <2>1, <2>2, Zenon
<1>3. TypeOK
  BY <1>1, <1>2 DEF TypeOK, Phases
<1>4. ReplyIsTrue /\ ConfirmedOrdersExist
  BY <1>1 DEF ReplyIsTrue, ConfirmedOrdersExist
<1>5. RequestsCounted
  BY <1>1, <1>2 DEF RequestsCounted, Owed, Spent
<1> QED
  BY <1>3, <1>4, <1>5 DEF IInv

-----------------------------------------------------------------------------
(* Answers. *)

\* What an answer leaves of the invariant, if it is a result and, when it is
\* "ok", the status of an order of the intent.
LEMMA AnswerIsTrue ==
  ASSUME IInv, NEW r \in Results, Answer(r),
         hidden' \in [Intents -> Nat],
         r.code = "ok" => /\ OrdersOf(intent) # {}
                          /\ r.status \in Final =>
                               \E x \in OrdersOf(intent) : LifecycleStatus(x) = r.status
  PROVE  TypeOK' /\ ReplyIsTrue' /\ ConfirmedOrdersExist'
<1>1. TypeOK' /\ ReplyIsTrue'
  BY DEF IInv, TypeOK, ReplyIsTrue, Answer, Phases
<1>2. ConfirmedOrdersExist'
  <2> SUFFICES ASSUME NEW i \in Intents, result'[i] # None, result'[i].code = "ok"
               PROVE  /\ OrdersOf(i)' # {}
                      /\ result'[i].status \in Final =>
                           \E x \in OrdersOf(i)' : LifecycleStatus(x) = result'[i].status
    BY DEF ConfirmedOrdersExist
  <2>1. OrdersOf(i)' = OrdersOf(i)
    BY DEF Answer, OrdersOf
  <2>2. CASE i = intent
    BY <2>1, <2>2 DEF Answer, IInv, TypeOK
  <2>3. CASE i # intent
    BY <2>1, <2>3 DEF Answer, IInv, TypeOK, ConfirmedOrdersExist
  <2> QED
    BY <2>2, <2>3
<1> QED
  BY <1>1, <1>2

\* The count is kept by an answer that is final, that hides what it says may be
\* repeated, or whose request is known to have come to nothing.
LEMMA AnswerIsCounted ==
  ASSUME IInv, NEW r \in Results, Answer(r), phase \notin {"idle", "travelling"},
         Hide \/ (UNCHANGED hidden /\ (r.retriable => ~out))
  PROVE  hidden' \in [Intents -> Nat] /\ RequestsCounted'
<1>1. /\ intent \in Intents /\ phase' = "idle" /\ out' = FALSE /\ result' = [result EXCEPT ![intent] = r]
      /\ intent' = intent /\ late' = late /\ book' = book
      /\ result \in [Intents -> Results \union {None}] /\ hidden \in [Intents -> Nat]
  BY DEF IInv, TypeOK, Answer
<1>2. \A i \in Intents : Len(book[i]) \in Nat /\ late[i] \in Nat /\ hidden[i] \in Nat
  BY DEF IInv, TypeOK
<1>3. hidden' \in [Intents -> Nat] /\ \A i \in Intents : i # intent => hidden'[i] = hidden[i]
  BY <1>1 DEF Hide
<1>4. \A i \in Intents : Owed(i)' = Owed(i)
  BY <1>1 DEF Owed, Answer
<1>5. r # None /\ result'[intent] = r
  BY <1>1 DEF Answer, IInv, TypeOK, Results
<1>6. ASSUME NEW i \in Intents
      PROVE  Owed(i)' <= hidden'[i] + (IF Spent(i)' THEN 1 ELSE 0)
  <2>1. Owed(i) <= hidden[i] + (IF Spent(i) THEN 1 ELSE 0)
    BY DEF IInv, RequestsCounted
  <2>2. CASE i # intent
    <3>1. Spent(i)' <=> Spent(i)
      BY <1>1, <2>2 DEF Spent
    <3> QED
      BY <1>3, <1>4, <2>1, <2>2, <3>1
  <2>3. CASE i = intent
    <3>1. Owed(i) <= hidden[i] + (IF out THEN 1 ELSE 0)
      BY <2>1, <2>3 DEF Spent
    <3>2. CASE ~out
      <4>1. hidden'[i] = hidden[i]
        BY <3>2 DEF Hide
      <4> QED
        BY <1>1, <1>2, <1>4, <3>1, <3>2, <4>1 DEF Owed
    <3>3. CASE out /\ Hide
      <4>1. hidden'[i] = hidden[i] + 1
        BY <1>1, <2>3, <3>3 DEF Hide
      <4> QED
        BY <1>1, <1>2, <1>4, <3>1, <3>3, <4>1 DEF Owed
    <3>4. CASE out /\ UNCHANGED hidden /\ ~r.retriable
      <4>1. Spent(i)'
        BY <1>1, <1>5, <2>3, <3>4 DEF Spent
      <4> QED
        BY <1>2, <1>4, <3>1, <3>4, <4>1 DEF Owed
    <3> QED
      BY <3>2, <3>3, <3>4
  <2> QED
    BY <2>2, <2>3
<1>7. /\ phase' \in {"idle", "info", "filters", "refused"} => ~out'
      /\ phase' \in {"travelling", "accepted"} => out'
      /\ phase' # "idle" => (result'[intent'] = None \/ result'[intent'].retriable)
  BY <1>1
<1>8. \A i \in Intents : calls'[i] = 0 => result'[i] = None
  BY <1>1 DEF Answer, IInv, RequestsCounted
<1> QED
  BY <1>1, <1>3, <1>6, <1>7, <1>8 DEF RequestsCounted

LEMMA AnswerKeepsIInv ==
  ASSUME IInv, NEW r \in Results, Answer(r), phase \notin {"idle", "travelling"},
         Hide \/ (UNCHANGED hidden /\ (r.retriable => ~out)),
         r.code = "ok" => /\ OrdersOf(intent) # {}
                          /\ r.status \in Final =>
                               \E x \in OrdersOf(intent) : LifecycleStatus(x) = r.status
  PROVE  IInv'
<1>1. hidden' \in [Intents -> Nat] /\ RequestsCounted'
  BY AnswerIsCounted
<1> QED
  BY <1>1, AnswerIsTrue DEF IInv

\* An answer that is not "ok" needs nothing of the book.
LEMMA RefusalKeepsIInv ==
  ASSUME IInv, NEW status \in Lifecycle, NEW code \in Codes \ {"ok"}, NEW retriable \in BOOLEAN,
         Answer(Result(status, code, retriable)), phase \notin {"idle", "travelling"},
         Hide \/ (UNCHANGED hidden /\ (retriable => ~out))
  PROVE  IInv'
<1> DEFINE r == Result(status, code, retriable)
<1>1. r \in Results /\ r.code # "ok" /\ (r.retriable <=> retriable)
  BY DEF Result, Results
<1>2. Hide \/ (UNCHANGED hidden /\ (r.retriable => ~out))
  BY <1>1
<1> HIDE DEF r
<1> QED
  BY <1>1, <1>2, AnswerKeepsIInv DEF r

\* The orders of an intent are in states of the exchange.
LEMMA OrdersAreTyped == IInv => \A i \in Intents : OrdersOf(i) \subseteq ExchangeStatus
  BY DEF IInv, TypeOK, OrdersOf

\* An answer "ok" with the status of an order of the intent.
LEMMA ConfirmationKeepsIInv ==
  ASSUME IInv, NEW x \in ExchangeStatus, phase \notin {"idle", "travelling"},
         Answer(Result(LifecycleStatus(x), "ok", FALSE)), UNCHANGED hidden,
         OrdersOf(intent) # {},
         x \notin OpenStatus => x \in OrdersOf(intent)
  PROVE  IInv'
<1> DEFINE r == Result(LifecycleStatus(x), "ok", FALSE)
<1>1. r \in Results /\ r.status = LifecycleStatus(x) /\ ~r.retriable
  BY StatusMapped DEF Result, Results, Codes
<1>2. r.status \in Final => \E y \in OrdersOf(intent) : LifecycleStatus(y) = r.status
  BY <1>1, FinalStatusIsClosed
<1> HIDE DEF r
<1> QED
  BY <1>1, <1>2, AnswerKeepsIInv DEF r

-----------------------------------------------------------------------------
(* The executor. *)

LEMMA CallKeepsIInv == ASSUME IInv, NEW i \in Intents, Call(i) PROVE IInv'
<1>1. TypeOK' /\ ReplyIsTrue' /\ ConfirmedOrdersExist'
  BY DEF Call, IInv, TypeOK, ReplyIsTrue, ConfirmedOrdersExist, OrdersOf, Phases
<1>2. /\ phase = "idle" /\ phase' = "info" /\ intent' = i /\ late' = late /\ book' = book
      /\ hidden' = hidden /\ result' = result /\ out' = out
  BY DEF Call
<1>3. ~out
  BY <1>2 DEF IInv, RequestsCounted
<1>4. result[i] = None \/ result[i].retriable
  BY DEF Call, IInv, TypeOK, RequestsCounted
<1>5. \A j \in Intents : Owed(j)' = Owed(j)
  BY <1>2 DEF Owed
<1>6. \A j \in Intents : Spent(j)' <=> Spent(j)
  BY <1>2, <1>3, <1>4 DEF Spent
<1>7. \A j \in Intents : calls'[j] = 0 => result'[j] = None
  BY DEF Call, IInv, TypeOK, RequestsCounted
<1>8. calls'[i] > 0
  BY DEF Call, IInv, TypeOK
<1>9. RequestsCounted'
  BY <1>2, <1>3, <1>4, <1>5, <1>6, <1>7, <1>8 DEF IInv, RequestsCounted
<1> QED
  BY <1>1, <1>9 DEF IInv

LEMMA SendKeepsIInv == IInv /\ (FetchInfo \/ Submit) => IInv'
<1> SUFFICES ASSUME IInv, FetchInfo \/ Submit PROVE IInv'
  OBVIOUS
<1>1. /\ cached' \in BOOLEAN /\ out' \in BOOLEAN /\ phase' \in {"filters", "travelling"}
      /\ UNCHANGED <<intent, calls, result, reply, late, book, hidden>>
  BY Zenon DEF FetchInfo, Submit, IInv, TypeOK
<1>2. TypeOK'
  BY <1>1 DEF IInv, TypeOK, Phases
<1>3. ReplyIsTrue' /\ ConfirmedOrdersExist'
  BY <1>1 DEF IInv, ReplyIsTrue, ConfirmedOrdersExist, OrdersOf
<1>4. RequestsCounted'
  BY DEF FetchInfo, Submit, IInv, TypeOK, RequestsCounted, Owed, Spent
<1> QED
  BY <1>2, <1>3, <1>4 DEF IInv

LEMMA TimeoutKeepsIInv == IInv /\ Timeout => IInv'
<1> SUFFICES ASSUME IInv, Timeout PROVE IInv'
  OBVIOUS
<1>1. /\ phase' = "query" /\ reply' = None /\ out' \in BOOLEAN
      /\ UNCHANGED <<intent, cached, calls, result, book, hidden>>
  BY Zenon DEF Timeout, IInv, TypeOK
<1>2. late' \in [Intents -> Nat]
  BY DEF Timeout, IInv, TypeOK
<1>3. TypeOK'
  BY <1>1, <1>2 DEF IInv, TypeOK, Phases
<1>4. ReplyIsTrue' /\ ConfirmedOrdersExist'
  <2>1. ReplyIsTrue'
    BY <1>1 DEF ReplyIsTrue
  <2>2. ConfirmedOrdersExist'
    BY <1>1 DEF IInv, ConfirmedOrdersExist, OrdersOf
  <2> QED
    BY <2>1, <2>2
<1>5. RequestsCounted'
  BY DEF Timeout, IInv, TypeOK, RequestsCounted, Owed, Spent
<1> QED
  BY <1>3, <1>4, <1>5 DEF IInv

LEMMA ExecutorKeepsIInv == IInv /\ Executor => IInv'
<1> SUFFICES ASSUME IInv, Executor PROVE IInv'
  OBVIOUS
<1> USE DEF Lifecycle, Codes
<1>1. ASSUME RefuseLocally PROVE IInv'
  BY <1>1, RefusalKeepsIInv DEF RefuseLocally
<1>2. ASSUME InfoFails PROVE IInv'
  <2>1. ~out
    BY <1>2 DEF InfoFails, IInv, RequestsCounted
  <2> QED
    BY <1>2, <2>1, RefusalKeepsIInv DEF InfoFails
<1>3. ASSUME ReplyOk PROVE IInv'
  <2>1. reply \in ExchangeStatus /\ OrdersOf(intent) # {}
        /\ (reply \notin OpenStatus => reply \in OrdersOf(intent))
    BY <1>3 DEF ReplyOk, IInv, TypeOK, ReplyIsTrue
  <2> QED
    BY <1>3, <2>1, ConfirmationKeepsIInv DEF ReplyOk
<1>4. ASSUME ReplyError PROVE IInv'
  <2>1. phase = "refused" => ~out
    BY <1>4 DEF ReplyError, IInv, RequestsCounted
  <2> QED
    BY <1>4, <2>1, RefusalKeepsIInv DEF ReplyError
<1>5. ASSUME ReplyGarbled PROVE IInv'
  BY <1>5, RefusalKeepsIInv DEF ReplyGarbled
<1>6. ASSUME QueryFinds PROVE IInv'
  <2>1. PICK k \in DOMAIN book[intent] : Answer(Result(LifecycleStatus(book[intent][k]), "ok", FALSE))
    BY <1>6 DEF QueryFinds
  <2>2. book[intent][k] \in OrdersOf(intent) /\ intent \in Intents
    BY DEF OrdersOf, IInv, TypeOK
  <2> QED
    BY <1>6, <2>1, <2>2, OrdersAreTyped, ConfirmationKeepsIInv DEF QueryFinds
<1>7. ASSUME QueryFails PROVE IInv'
  BY <1>7, RefusalKeepsIInv DEF QueryFails
<1> QED
  BY <1>1, <1>2, <1>3, <1>4, <1>5, <1>6, <1>7, CallKeepsIInv, SendKeepsIInv, TimeoutKeepsIInv
  DEF Executor

-----------------------------------------------------------------------------
(* The exchange. *)

\* A new order disturbs no answer and no other intent.
LEMMA TakeAddsAnOrder ==
  ASSUME IInv, NEW i \in Intents, NEW x \in ExchangeStatus, Take(i, x), UNCHANGED result
  PROVE  /\ book' \in [Intents -> Seq(ExchangeStatus)]
         /\ Len(book'[i]) = Len(book[i]) + 1
         /\ \A j \in Intents : j # i => book'[j] = book[j]
         /\ \A j \in Intents : OrdersOf(j) \subseteq OrdersOf(j)'
         /\ x \in OrdersOf(i)'
         /\ ConfirmedOrdersExist'
<1>1. /\ book \in [Intents -> Seq(ExchangeStatus)]
      /\ book' = [book EXCEPT ![i] = Append(@, x)]
  BY DEF IInv, TypeOK, Take
<1>2. /\ book' \in [Intents -> Seq(ExchangeStatus)]
      /\ book'[i] = Append(book[i], x)
      /\ Len(book'[i]) = Len(book[i]) + 1
      /\ \A j \in Intents : j # i => book'[j] = book[j]
  BY <1>1
<1>3. /\ \A k \in DOMAIN book[i] : k \in DOMAIN book'[i] /\ book'[i][k] = book[i][k]
      /\ Len(book'[i]) \in DOMAIN book'[i] /\ book'[i][Len(book'[i])] = x
  BY <1>1, <1>2
<1>4. \A j \in Intents : OrdersOf(j) \subseteq OrdersOf(j)'
  BY <1>2, <1>3 DEF OrdersOf
<1>5. x \in OrdersOf(i)'
  BY <1>3 DEF OrdersOf
<1>6. ConfirmedOrdersExist'
  BY <1>4 DEF IInv, ConfirmedOrdersExist
<1> QED
  BY <1>2, <1>4, <1>5, <1>6

LEMMA AcceptKeepsIInv == IInv /\ Accept => IInv'
<1> SUFFICES ASSUME IInv, Accept PROVE IInv'
  OBVIOUS
<1>1. PICK x \in AtOnce : Take(intent, x) /\ reply' = x
  BY DEF Accept
<1>2. x \in ExchangeStatus /\ intent \in Intents
  BY DEF AtOnce, IInv, TypeOK
<1>3. /\ phase = "travelling" /\ phase' = "accepted"
      /\ UNCHANGED <<intent, cached, calls, result, late, out, hidden>>
  BY DEF Accept
<1>4. /\ book' \in [Intents -> Seq(ExchangeStatus)]
      /\ Len(book'[intent]) = Len(book[intent]) + 1
      /\ \A j \in Intents : j # intent => book'[j] = book[j]
      /\ x \in OrdersOf(intent)'
      /\ ConfirmedOrdersExist'
  BY <1>1, <1>2, <1>3, TakeAddsAnOrder
<1>5. TypeOK'
  BY <1>1, <1>2, <1>3, <1>4 DEF IInv, TypeOK, Phases
<1>6. ReplyIsTrue'
  BY <1>1, <1>2, <1>3, <1>4 DEF ReplyIsTrue
<1>7. RequestsCounted'
  <2>1. \A i \in Intents : Owed(i)' = Owed(i)
    BY <1>2, <1>3, <1>4 DEF Owed, IInv, TypeOK
  <2>2. \A i \in Intents : Spent(i)' <=> Spent(i)
    BY <1>3 DEF Spent
  <2> QED
    BY <1>3, <2>1, <2>2 DEF IInv, RequestsCounted
<1> QED
  BY <1>4, <1>5, <1>6, <1>7 DEF IInv

LEMMA ArriveLateKeepsIInv == ASSUME IInv, NEW i \in Intents, ArriveLate(i) PROVE IInv'
<1>1. /\ late' \in [Intents -> Nat] /\ late'[i] = late[i] - 1
      /\ \A j \in Intents : j # i => late'[j] = late[j]
      /\ UNCHANGED <<intent, phase, cached, calls, result, reply, out, hidden>>
  BY DEF ArriveLate, IInv, TypeOK
<1>2. /\ book' \in [Intents -> Seq(ExchangeStatus)]
      /\ Len(book'[i]) <= Len(book[i]) + 1
      /\ \A j \in Intents : j # i => book'[j] = book[j]
      /\ \A j \in Intents : OrdersOf(j) \subseteq OrdersOf(j)'
      /\ ConfirmedOrdersExist'
  <2>1. CASE UNCHANGED book
    BY <1>1, <2>1 DEF IInv, TypeOK, ConfirmedOrdersExist, OrdersOf
  <2>2. ASSUME NEW x \in AtOnce, Take(i, x)
        PROVE  /\ book' \in [Intents -> Seq(ExchangeStatus)]
               /\ Len(book'[i]) = Len(book[i]) + 1
               /\ \A j \in Intents : j # i => book'[j] = book[j]
               /\ \A j \in Intents : OrdersOf(j) \subseteq OrdersOf(j)'
               /\ ConfirmedOrdersExist'
    BY <1>1, <2>2, TakeAddsAnOrder DEF AtOnce
  <2>3. Len(book[i]) \in Nat
    BY DEF IInv, TypeOK
  <2> QED
    BY <2>1, <2>2, <2>3 DEF ArriveLate
<1>3. TypeOK'
  BY <1>1, <1>2 DEF IInv, TypeOK
<1>4. ReplyIsTrue'
  BY <1>1, <1>2 DEF IInv, TypeOK, ReplyIsTrue
<1>5. RequestsCounted'
  <2>1. \A j \in Intents : Len(book[j]) \in Nat /\ Len(book'[j]) \in Nat /\ late[j] \in Nat
                           /\ hidden[j] \in Nat
    BY <1>2 DEF IInv, TypeOK
  <2>2. ASSUME NEW j \in Intents PROVE Len(book'[j]) + late'[j] <= Len(book[j]) + late[j]
    <3>1. CASE j = i
      BY <1>1, <1>2, <2>1, <3>1
    <3>2. CASE j # i
      <4>1. late'[j] = late[j] /\ book'[j] = book[j]
        BY <1>1, <1>2, <3>2
      <4> QED
        BY <2>1, <4>1
    <3> QED
      BY <3>1, <3>2
  <2>3. ASSUME NEW j \in Intents
        PROVE  Owed(j)' <= Owed(j) /\ Owed(j)' \in Nat /\ Owed(j) \in Nat
    <3>1. late'[j] \in Nat
      BY <1>1
    <3>2. intent' = intent /\ phase' = phase
      BY <1>1
    <3>3. Len(book'[j]) + late'[j] <= Len(book[j]) + late[j]
      BY <2>2
    <3>4. Len(book[j]) \in Nat /\ Len(book'[j]) \in Nat /\ late[j] \in Nat
      BY <2>1
    <3> QED
      BY <3>1, <3>2, <3>3, <3>4 DEF Owed
  <2>4. \A j \in Intents : Spent(j)' <=> Spent(j)
    BY <1>1 DEF Spent
  <2> QED
    BY <1>1, <2>1, <2>3, <2>4 DEF IInv, RequestsCounted
<1> QED
  BY <1>2, <1>3, <1>4, <1>5 DEF IInv

LEMMA FillKeepsIInv == ASSUME IInv, NEW i \in Intents, Fill(i) PROVE IInv'
<1>1. PICK k \in DOMAIN book[i], x \in ExchangeStatus :
        book[i][k] \in OpenStatus /\ book' = [book EXCEPT ![i][k] = x]
  BY DEF Fill
<1>2. UNCHANGED <<intent, phase, cached, calls, result, reply, late, out, hidden>>
  BY DEF Fill
<1>3. /\ book' \in [Intents -> Seq(ExchangeStatus)]
      /\ \A j \in Intents : Len(book'[j]) = Len(book[j]) /\ DOMAIN book'[j] = DOMAIN book[j]
      /\ \A j \in Intents : \A l \in DOMAIN book[j] :
           book[j][l] \notin OpenStatus => book'[j][l] = book[j][l]
  BY <1>1 DEF IInv, TypeOK
<1>4. \A j \in Intents : /\ OrdersOf(j) # {} => OrdersOf(j)' # {}
                         /\ OrdersOf(j) \ OpenStatus \subseteq OrdersOf(j)'
  BY <1>3 DEF OrdersOf
<1>5. TypeOK'
  BY <1>2, <1>3 DEF IInv, TypeOK
<1>6. ReplyIsTrue'
  BY <1>2, <1>4 DEF IInv, TypeOK, ReplyIsTrue
<1>7. ConfirmedOrdersExist'
  BY <1>2, <1>4, FinalStatusIsClosed, OrdersAreTyped DEF IInv, ConfirmedOrdersExist
<1>8. RequestsCounted'
  BY <1>2, <1>3 DEF IInv, RequestsCounted, Owed, Spent
<1> QED
  BY <1>5, <1>6, <1>7, <1>8 DEF IInv

LEMMA ExchangeKeepsIInv == IInv /\ Exchange => IInv'
<1> SUFFICES ASSUME IInv, Exchange PROVE IInv'
  OBVIOUS
<1>1. ASSUME Refuse PROVE IInv'
  <2>1. /\ phase' = "refused" /\ out' \in BOOLEAN
        /\ UNCHANGED <<intent, cached, calls, result, reply, late, book, hidden>>
    BY <1>1, Zenon DEF Refuse
  <2>2. TypeOK'
    BY <2>1 DEF IInv, TypeOK, Phases
  <2>3. ReplyIsTrue'
    BY <2>1 DEF ReplyIsTrue
  <2>4. ConfirmedOrdersExist'
    BY <2>1 DEF IInv, ConfirmedOrdersExist, OrdersOf
  <2>5. RequestsCounted'
    BY <1>1 DEF Refuse, IInv, TypeOK, RequestsCounted, Owed, Spent
  <2> QED
    BY <2>2, <2>3, <2>4, <2>5 DEF IInv
<1> QED
  BY <1>1, AcceptKeepsIInv, ArriveLateKeepsIInv, FillKeepsIInv DEF Exchange

LEMMA StepKeepsIInv == IInv /\ [Next]_vars => IInv'
<1>1. IInv /\ UNCHANGED vars => IInv'
  BY DEF IInv, TypeOK, ReplyIsTrue, ConfirmedOrdersExist, RequestsCounted, Owed, Spent, OrdersOf, vars
<1> QED
  BY <1>1, ExecutorKeepsIInv, ExchangeKeepsIInv DEF Next

THEOREM Invariance == Spec => []IInv
  BY InitIInv, StepKeepsIInv, PTL DEF Spec

\* Calls, replies and the book keep their types.
THEOREM TypeCorrect == Spec => []TypeOK
<1>1. IInv => TypeOK
  BY DEF IInv
<1> QED
  BY <1>1, Invariance, PTL

\* Whatever the network does, "ok" is the answer of an order that exists.
THEOREM ConfirmationsAreTrue == Spec => []ConfirmedOrdersExist
<1>1. IInv => ConfirmedOrdersExist
  BY DEF IInv
<1> QED
  BY <1>1, Invariance, PTL

\* However often calls are repeated and requests arrive late, an intent has no more
\* orders too many than answers that hid a request.
THEOREM ExtraOrdersAreHidden == Spec => []ExtraOrdersWereHidden
<1>1. IInv => ExtraOrdersWereHidden
  <2> SUFFICES ASSUME IInv, NEW i \in Intents PROVE Len(book[i]) <= 1 + hidden[i]
    BY DEF ExtraOrdersWereHidden
  <2>1. Len(book[i]) \in Nat /\ late[i] \in Nat /\ hidden[i] \in Nat
    BY DEF IInv, TypeOK
  <2> QED
    BY <2>1 DEF IInv, RequestsCounted, Owed
<1> QED
  BY <1>1, Invariance, PTL
=============================================================================
