---------------------------- MODULE PortfolioOrders ----------------------------
(* The order book of one portfolio in one market: create_order, sync_positions, *)
(* cancel_order and get_detail of dashboard/services/portfolio_service.py, the  *)
(* reads and writes of portfolio_store.py, which nothing locks, and the replays *)
(* of portfolio_order_execution.py.  Amounts are small integers, one second     *)
(* sees one order, and the market decides in advance on which day an order can  *)
(* be filled, but not whether its bar is there when somebody looks.  A list of  *)
(* orders is kept in the order in which they were made, so it is a set here.    *)
EXTENDS Integers, FiniteSets

CONSTANTS
  Tickers, Lots, Prices,  \* what orders ask for
  Capital,                \* initial_capital of the market
  Today,                  \* days are 1 .. Today
  Requests,               \* requests being handled
  MaxOrders               \* bound on the orders ever made

ASSUME OrdersAssumption ==
  /\ Lots \subseteq Nat \ {0} /\ Prices \subseteq Nat \ {0}
  /\ Capital \in Nat /\ Today \in Nat \ {0} /\ MaxOrders \in Nat

VARIABLES
  book,     \* the orders in the portfolio's file
  made,     \* how many orders were made; each one's id, and its created_at
  request   \* what each request does, and the book as it knows it

orderVars == <<book, made, request>>

Trades == [id : 1 .. MaxOrders, side : {"buy", "sell"}, ticker : Tickers, qty : Lots,
           price : Prices, day : 1 .. Today,
           status : {"pending", "filled", "rejected", "cancelled"}]
Syncs == [id : 1 .. MaxOrders, side : {"set"}, ticker : Tickers, qty : Lots \cup {0},
          price : Prices, day : {Today}, status : {"filled"}]
Idle == [at |-> "idle"]

-----------------------------------------------------------------------------
(* Replays: the cash and the positions after the filled orders.                *)
Start == [cash |-> Capital, held |-> [t \in Tickers |-> 0]]
Cost(o) == o.price * o.qty

Bought(s, o) ==
  [cash |-> s.cash - Cost(o), held |-> [s.held EXCEPT ![o.ticker] = @ + o.qty]]
Sold(s, o, n) ==
  [cash |-> s.cash + o.price * n, held |-> [s.held EXCEPT ![o.ticker] = @ - n]]
Adjusted(s, o) == [s EXCEPT !.held[o.ticker] = o.qty]

\* _apply_filled_order skips a buy without cash and sells what there is.
Apply(s, o) ==
  CASE o.side = "set" -> Adjusted(s, o)
    [] o.side = "buy" -> IF Cost(o) > s.cash THEN s ELSE Bought(s, o)
    [] o.side = "sell" -> Sold(s, o, IF o.qty < s.held[o.ticker] THEN o.qty ELSE s.held[o.ticker])

\* Filled orders are replayed by day and then by creation: each has a moment.
Moment(o) == (o.day - 1) * MaxOrders + o.id
Moments == 0 .. Today * MaxOrders
Due(orders, k) == {o \in orders : o.status = "filled" /\ Moment(o) = k}

\* Cash and positions after each moment.
BalanceAt(orders, k, s) ==
  IF Due(orders, k) = {} THEN s ELSE Apply(s, CHOOSE o \in Due(orders, k) : TRUE)

Balance(orders, start) ==
  LET after[k \in Moments] == IF k = 0 THEN start ELSE BalanceAt(orders, k, after[k - 1])
  IN  after

Replay(orders, day, start) == Balance(orders, start)[day * MaxOrders]

\* available_shares: ample cash, and every day.
AvailableShares(orders, ticker) ==
  Replay(orders, Today, [Start EXCEPT !.cash = 1000000]).held[ticker]

-----------------------------------------------------------------------------
(* sanitize_invalid_filled_orders                                              *)
\* Mutant: the cash was checked when the order was filled.
Valid_AnyBuy(s, o) == o.side = "sell" => o.qty <= s.held[o.ticker]

Valid(s, o) ==
  CASE o.side = "set" -> TRUE
    [] o.side = "buy" -> Cost(o) <= s.cash
    [] o.side = "sell" -> o.qty <= s.held[o.ticker]

\* What an invalid order would have changed stays as it was.
Check(acc, o) ==
  IF Valid(acc.state, o) THEN [acc EXCEPT !.state = Apply(@, o)]
  ELSE [acc EXCEPT !.invalid = @ \cup {o.id}]

CheckAt(orders, k, acc) ==
  IF Due(orders, k) = {} THEN acc ELSE Check(acc, CHOOSE o \in Due(orders, k) : TRUE)

Unchecked == [state |-> Start, invalid |-> {}]

Checked(orders) ==
  LET upto[k \in Moments] == IF k = 0 THEN Unchecked ELSE CheckAt(orders, k, upto[k - 1])
  IN  upto

Invalid(orders) == Checked(orders)[Today * MaxOrders].invalid

\* When one goes, rejected orders go with it.
Sanitized(orders) ==
  IF Invalid(orders) = {} THEN orders
  ELSE {o \in orders : o.id \notin Invalid(orders) /\ o.status # "rejected"}

(* process_pending_orders and try_fill_order, where the bars of the orders in  *)
(* quoted are there                                                            *)
TryFill(o, prior, quoted) ==
  LET failed == IF o.side = "sell" THEN AvailableShares(prior, o.ticker) < o.qty
                ELSE o.id \in quoted /\ Cost(o) > Replay(prior, o.day, Start).cash
  IN  IF o.status # "pending" THEN o
      ELSE IF failed THEN [o EXCEPT !.status = "rejected"]
      ELSE IF o.id \in quoted THEN [o EXCEPT !.status = "filled"]
      ELSE o

\* One after the other as they were made, each with the ones before it.
ProcessAt(orders, quoted, n, prior) ==
  prior \cup {TryFill(o, prior, quoted) : o \in {p \in orders : p.id = n}}

ProcessedUpTo(orders, quoted) ==
  LET upto[n \in 0 .. MaxOrders] ==
        IF n = 0 THEN {} ELSE ProcessAt(orders, quoted, n, upto[n - 1])
  IN  upto

Processed(orders, quoted) == ProcessedUpTo(orders, quoted)[MaxOrders]

-----------------------------------------------------------------------------
OrdersInit ==
  /\ book = {} /\ made = 0
  /\ request = [r \in Requests |-> Idle]

\* add_order reads the file ...
NewOrder(r, o) ==
  /\ request[r] = Idle /\ made < MaxOrders
  /\ o.id = made + 1 /\ made' = made + 1
  /\ o.status = IF o.side = "set" THEN "filled" ELSE "pending"
  /\ request' = [request EXCEPT ![r] = [at |-> "add", order |-> o, orders |-> book]]
  /\ UNCHANGED book

\* ... and writes it.  A sync is done then, a trade is processed.
AddOrder(r) ==
  /\ request[r].at = "add"
  /\ book' = request[r].orders \cup {request[r].order}
  /\ request' = [request EXCEPT ![r] =
       IF @.order.side = "set" THEN Idle
       ELSE [at |-> "process", id |-> @.order.id, orders |-> book']]
  /\ UNCHANGED made

\* get_detail processes what it reads, for no order of its own.
GetDetail(r) ==
  /\ request[r] = Idle
  /\ request' = [request EXCEPT ![r] = [at |-> "process", id |-> 0, orders |-> book]]
  /\ UNCHANGED <<book, made>>

Pending(q) ==
  IF q.at = "process" THEN {o.id : o \in {p \in q.orders : p.status = "pending"}} ELSE {}

\* _ensure_orders_processed, with the bars it can fetch.
Process(r, quoted) ==
  /\ request[r].at = "process"
  /\ LET orders == Processed(Sanitized(request[r].orders), quoted)
         same == Invalid(request[r].orders) = {} /\ orders = request[r].orders
     IN  request' = [request EXCEPT ![r].orders = orders,
                                    ![r].at = IF same THEN "answer" ELSE "save"]
  /\ UNCHANGED <<book, made>>

\* save_orders replaces whatever is in the file by now.
SaveOrders(r) ==
  /\ request[r].at = "save"
  /\ book' = request[r].orders
  /\ request' = [request EXCEPT ![r].at = "answer"]
  /\ UNCHANGED made

\* create_order answers for its order when it was filled, and a buy left a position.
Answer(r) ==
  /\ request[r].at = "answer"
  /\ LET q == request[r]
         good == \A o \in {p \in q.orders : p.id = q.id} :
                   /\ o.status = "filled"
                   /\ o.side = "buy" => Replay(q.orders, Today, Start).held[o.ticker] > 0
     IN  request' = [request EXCEPT ![r] = IF good THEN Idle ELSE [@ EXCEPT !.at = "discard"]]
  /\ UNCHANGED <<book, made>>

\* _discard_order writes the book it knows, without the order.
DiscardOrder(r) ==
  /\ request[r].at = "discard"
  /\ book' = {o \in request[r].orders : o.id # request[r].id}
  /\ request' = [request EXCEPT ![r] = Idle]
  /\ UNCHANGED made

\* cancel_order reads the file ...
CancelOrder(r, id) ==
  /\ request[r] = Idle
  /\ \E o \in book :
       /\ o.id = id /\ o.status = "pending"
       /\ request' = [request EXCEPT ![r] =
            [at |-> "cancel", orders |-> (book \ {o}) \cup {[o EXCEPT !.status = "cancelled"]}]]
  /\ UNCHANGED <<book, made>>

\* ... and writes it with the order cancelled.
CancelWrites(r) ==
  /\ request[r].at = "cancel"
  /\ book' = request[r].orders
  /\ request' = [request EXCEPT ![r] = Idle]
  /\ UNCHANGED made

OrdersNext ==
  \E r \in Requests :
    \/ \E o \in Trades \cup Syncs : NewOrder(r, o)
    \/ AddOrder(r) \/ GetDetail(r)
    \/ \E quoted \in SUBSET Pending(request[r]) : Process(r, quoted)
    \/ SaveOrders(r) \/ Answer(r) \/ DiscardOrder(r)
    \/ \E id \in 1 .. made : CancelOrder(r, id)
    \/ CancelWrites(r)

OrdersSpec == OrdersInit /\ [][OrdersNext]_orderVars

-----------------------------------------------------------------------------
OrdersTypeOK ==
  /\ book \subseteq Trades \cup Syncs
  /\ made \in 0 .. MaxOrders
  /\ \A r \in Requests : request[r].at \in
       {"idle", "add", "process", "save", "answer", "discard", "cancel"}

\* What filled orders have cost and brought.
Flow(o) ==
  CASE o.side = "buy" -> 0 - Cost(o) [] o.side = "sell" -> Cost(o) [] o.side = "set" -> 0
TotalAt(S, n, sum) ==
  IF \E o \in S : o.id = n THEN sum + Flow(CHOOSE o \in S : o.id = n) ELSE sum
TotalUpTo(S) ==
  LET upto[n \in 0 .. MaxOrders] == IF n = 0 THEN 0 ELSE TotalAt(S, n, upto[n - 1])
  IN  upto
Total(S) == TotalUpTo(S)[MaxOrders]

\* Whatever requests have written over one another, the sanitized book adds up:
\* sanitizing again removes nothing, and the replay that values the portfolio
\* skips and shortens no order, so that its cash is the capital, less what the
\* buys cost, plus what the sales brought.
SanitizedBookIsReplayed ==
  LET clean == Sanitized(book)
  IN  /\ Invalid(clean) = {}
      /\ Replay(clean, Today, Start).cash = Capital + Total({o \in clean : o.status = "filled"})
=============================================================================
