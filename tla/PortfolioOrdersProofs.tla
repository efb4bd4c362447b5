------------------------- MODULE PortfolioOrdersProofs -------------------------
(* The orders of PortfolioOrders: type correctness, and that the sanitized book  *)
(* is replayed in full.  The replays are recursive functions on moments.  What   *)
(* such a function computes is proved by induction on a set of numbers, whose    *)
(* least missing one exists because the finite sets 1 .. n are well-founded      *)
(* under strict inclusion; that the function has the value its definition gives  *)
(* follows once a path of the recursion is shown to exist.                       *)
EXTENDS PortfolioOrders, FiniteSetTheorems, TLAPS

-----------------------------------------------------------------------------
(* Induction on naturals, over sets instead of predicates, and the functions   *)
(* that recursion on them defines.                                             *)

LEMMA LeastNat ==
  ASSUME NEW T \in SUBSET Nat, T # {}
  PROVE  \E n \in T : \A m \in T : n <= m
<1> DEFINE U == {1 .. n : n \in T}
<1>1. U \subseteq FiniteSubsetsOf(Nat)
  <2>1. \A n \in T : IsFiniteSet(1 .. n) /\ 1 .. n \in SUBSET Nat
    BY FS_Interval
  <2>2. QED
    BY <2>1 DEF FiniteSubsetsOf
<1>2. PICK least \in U : \A other \in U : <<other, least>> \notin StrictSubsetOrdering(Nat)
  <2>1. U # {}
    OBVIOUS
  <2> HIDE DEF U
  <2>2. QED
    BY <1>1, <2>1, FS_StrictSubsetOrderingWellFounded, WFMin
<1>3. PICK n \in T : least = 1 .. n
  OBVIOUS
<1>4. ASSUME NEW m \in T, m < n PROVE FALSE
  <2>1. 1 .. m \in SUBSET Nat /\ 1 .. n \in SUBSET Nat /\ 1 .. m \subseteq 1 .. n
    BY <1>4
  <2>2. n \in 1 .. n /\ n \notin 1 .. m
    BY <1>4
  <2>3. <<1 .. m, 1 .. n>> \in StrictSubsetOrdering(Nat)
    BY <2>1, <2>2 DEF StrictSubsetOrdering
  <2>4. QED
    BY <1>2, <1>3, <2>3
<1>5. QED
  BY <1>4

\* A set that has 0 and goes on from each number to the next has all of them.
LEMMA CountUp ==
  ASSUME NEW N \in Nat, NEW T, 0 \in T, \A k \in 1 .. N : k - 1 \in T => k \in T
  PROVE  0 .. N \subseteq T
<1> SUFFICES ASSUME (0 .. N) \ T # {} PROVE FALSE
  OBVIOUS
<1>1. PICK n \in (0 .. N) \ T : \A m \in (0 .. N) \ T : n <= m
  <2> DEFINE Missed == (0 .. N) \ T
  <2>1. Missed \in SUBSET Nat /\ Missed # {}
    OBVIOUS
  <2> HIDE DEF Missed
  <2>2. \E n \in Missed : \A m \in Missed : n <= m
    BY <2>1, LeastNat
  <2>3. QED
    BY <2>2 DEF Missed
<1>2. n \in 1 .. N
  OBVIOUS
<1>3. n - 1 \in T
  BY <1>1, <1>2
<1>4. QED
  BY <1>2, <1>3

\* A relation that leads on from every state has a path from each.
LeadsOn(R, S, N) == \A k \in 1 .. N : \A s \in S : \E t \in S : <<k, s, t>> \in R
Follows(f, R, N) == \A k \in 1 .. N : <<k, f[k - 1], f[k]>> \in R

LEMMA Unroll ==
  ASSUME NEW N \in Nat, NEW S, NEW start \in S, NEW R, LeadsOn(R, S, N)
  PROVE  \E f \in [0 .. N -> S] : f[0] = start /\ Follows(f, R, N)
<1> DEFINE Path(f, n) == f \in [0 .. n -> S] /\ f[0] = start /\ Follows(f, R, n)
           T == {n \in 0 .. N : \E f : Path(f, n)}
<1>1. 0 \in T
  <2> DEFINE only == [k \in 0 .. 0 |-> start]
  <2>0. only \in [0 .. 0 -> S] /\ only[0] = start /\ 1 .. 0 = {}
    OBVIOUS
  <2>1. Path(only, 0)
    BY <2>0 DEF Follows
  <2> HIDE DEF only, Path
  <2>2. QED
    BY <2>1
<1>2. ASSUME NEW n \in 1 .. N, n - 1 \in T PROVE n \in T
  <2>1. PICK f : Path(f, n - 1)
    BY <1>2
  <2>2. f[n - 1] \in S
    BY <2>1
  <2>3. PICK t \in S : <<n, f[n - 1], t>> \in R
    BY <2>2 DEF LeadsOn
  <2> DEFINE g == [k \in 0 .. n |-> IF k = n THEN t ELSE f[k]]
  <2>4. g \in [0 .. n -> S] /\ g[0] = start
    BY <2>1
  <2>5. ASSUME NEW k \in 1 .. n PROVE <<k, g[k - 1], g[k]>> \in R
    <3>1. CASE k = n
      BY <2>3, <3>1
    <3>2. CASE k # n
      <4>1. k \in 1 .. n - 1 /\ g[k - 1] = f[k - 1] /\ g[k] = f[k]
        BY <3>2
      <4> HIDE DEF g
      <4>2. \A j \in 1 .. n - 1 : <<j, f[j - 1], f[j]>> \in R
        BY <2>1 DEF Follows
      <4>3. <<k, f[k - 1], f[k]>> \in R
        BY <4>1, <4>2
      <4>4. QED
        BY <4>1, <4>3
    <3>3. QED
      BY <3>1, <3>2
  <2> HIDE DEF g
  <2>6. Path(g, n)
    BY <2>4, <2>5 DEF Follows
  <2> HIDE DEF Path
  <2>7. QED
    BY <2>6
<1> HIDE DEF T
<1>3. 0 .. N \subseteq T
  BY <1>1, <1>2, CountUp
<1>4. QED
  BY <1>3 DEF T


Runs(f, step, N) == \A k \in 1 .. N : f[k] = step[k][f[k - 1]]

LEMMA Recursion ==
  ASSUME NEW N \in Nat, NEW S, NEW start \in S, NEW step \in [1 .. N -> [S -> S]]
  PROVE  \E f \in [0 .. N -> S] : f[0] = start /\ Runs(f, step, N)
<1> DEFINE R == {<<x[1], x[2], step[x[1]][x[2]]>> : x \in (1 .. N) \X S}
<1>1. ASSUME NEW k \in 1 .. N, NEW s \in S PROVE step[k][s] \in S /\ <<k, s, step[k][s]>> \in R
  <2> DEFINE x == <<k, s>>
  <2>1. x \in (1 .. N) \X S /\ x[1] = k /\ x[2] = s
    OBVIOUS
  <2>2. QED
    BY <2>1
<1>2. ASSUME NEW k, NEW s, NEW t, <<k, s, t>> \in R PROVE t = step[k][s]
  <2>1. PICK x \in (1 .. N) \X S : <<k, s, t>> = <<x[1], x[2], step[x[1]][x[2]]>>
    BY <1>2
  <2>2. k = x[1] /\ s = x[2] /\ t = step[x[1]][x[2]]
    BY <2>1
  <2>3. QED
    BY <2>2
<1> HIDE DEF R
<1>3. LeadsOn(R, S, N)
  BY <1>1 DEF LeadsOn
<1>4. PICK f \in [0 .. N -> S] : f[0] = start /\ Follows(f, R, N)
  BY <1>3, Unroll
<1>5. ASSUME NEW k \in 1 .. N PROVE f[k] = step[k][f[k - 1]]
  <2>1. <<k, f[k - 1], f[k]>> \in R
    BY <1>4 DEF Follows
  <2>2. QED
    BY <1>2, <2>1
<1>6. Runs(f, step, N)
  BY <1>5 DEF Runs
<1>7. QED
  BY <1>4, <1>6

\* A recursive function stays in a set when every step does.
LEMMA StaysIn ==
  ASSUME NEW N \in Nat, NEW S, NEW f, f[0] \in S, \A k \in 1 .. N : f[k - 1] \in S => f[k] \in S
  PROVE  \A k \in 0 .. N : f[k] \in S
<1> DEFINE T == {k \in 0 .. N : f[k] \in S}
<1>1. 0 \in T /\ \A k \in 1 .. N : k - 1 \in T => k \in T
  OBVIOUS
<1> HIDE DEF T
<1>2. 0 .. N \subseteq T
  BY <1>1, CountUp
<1>3. QED
  BY <1>2 DEF T

-----------------------------------------------------------------------------
(* Orders and balances. *)

Orders == Trades \cup Syncs
States == [cash : Int, held : [Tickers -> Int]]
Last == Today * MaxOrders

LEMMA OrderFields ==
  ASSUME NEW o \in Orders
  PROVE  /\ o.id \in 1 .. MaxOrders /\ o.ticker \in Tickers /\ o.qty \in Nat /\ o.price \in Nat
         /\ o.day \in 1 .. Today /\ o.side \in {"buy", "sell", "set"}
         /\ Cost(o) \in Nat
<1>1. o.id \in 1 .. MaxOrders /\ o.ticker \in Tickers /\ o.side \in {"buy", "sell", "set"}
  BY DEF Orders, Trades, Syncs
<1>2. o.qty \in Nat /\ o.price \in Nat /\ o.day \in 1 .. Today
  <2>1. CASE o \in Trades
    BY <2>1, OrdersAssumption DEF Trades
  <2>2. CASE o \in Syncs
    <3>1. o.qty \in Lots \cup {0} /\ o.price \in Prices /\ o.day = Today
      BY <2>2 DEF Syncs
    <3>2. Today \in 1 .. Today
      BY OrdersAssumption
    <3>3. Lots \cup {0} \subseteq Nat /\ Prices \subseteq Nat
      BY OrdersAssumption
    <3>3a. o.qty \in Nat /\ o.price \in Nat
      BY <3>1, <3>3, Zenon
    <3>4. o.day \in 1 .. Today
      BY <3>1, <3>2, Zenon
    <3>5. QED
      BY <3>3a, <3>4
  <2>3. QED
    BY <2>1, <2>2 DEF Orders
<1>3. \A x, y \in Nat : x * y \in Nat
  OBVIOUS
<1>4. QED
  BY <1>1, <1>2, <1>3 DEF Cost

LEMMA LastMoment == Last \in Nat /\ Moments = 0 .. Last
BY OrdersAssumption DEF Last, Moments

\* Moments are those of the book, and tell the ids apart.
LEMMA MomentIn == ASSUME NEW o \in Orders PROVE Moment(o) \in 1 .. Last
<1>1. /\ o.id \in 1 .. MaxOrders /\ o.day \in 1 .. Today /\ MaxOrders \in Nat /\ Today \in Nat
  BY OrderFields, OrdersAssumption
<1>2. PICK rest \in Nat : rest = Today - o.day
  BY <1>1
<1>3. rest * MaxOrders \in Nat /\ (o.day - 1) * MaxOrders \in Nat
  BY <1>1
<1>4. Today * MaxOrders = rest * MaxOrders + (o.day - 1) * MaxOrders + MaxOrders
  BY <1>1, <1>2
<1>5. QED
  BY <1>1, <1>3, <1>4 DEF Moment, Last

LEMMA MomentsTell ==
  ASSUME NEW o \in Orders, NEW p \in Orders, Moment(o) = Moment(p)
  PROVE  o.id = p.id
<1>1. ASSUME NEW a \in Orders, NEW b \in Orders, a.day < b.day PROVE Moment(a) < Moment(b)
  <2>1. /\ a.id \in 1 .. MaxOrders /\ b.id \in 1 .. MaxOrders /\ MaxOrders \in Nat
        /\ a.day \in Nat /\ b.day \in Nat
    BY OrderFields, OrdersAssumption
  <2>2. PICK gap \in Nat : gap = b.day - a.day - 1
    BY <1>1, <2>1
  <2>3. gap * MaxOrders \in Nat /\ (a.day - 1) * MaxOrders \in Int
    BY <2>1
  <2>4. (b.day - 1) * MaxOrders = gap * MaxOrders + (a.day - 1) * MaxOrders + MaxOrders
    BY <2>1, <2>2
  <2>5. QED
    BY <2>1, <2>3, <2>4 DEF Moment
<1>2. o.day = p.day
  <2>1. o.day \in Nat /\ p.day \in Nat /\ Moment(o) \in Int
    BY OrderFields, MomentIn, LastMoment
  <2>2. QED
    BY <1>1, <2>1
<1>3. o.day \in Int /\ o.id \in Int /\ p.id \in Int /\ MaxOrders \in Int
  BY OrderFields, OrdersAssumption
<1>4. PICK days \in Int : days = (o.day - 1) * MaxOrders
  BY <1>3
<1>5. Moment(o) = days + o.id /\ Moment(p) = days + p.id
  BY <1>2, <1>4 DEF Moment
<1>6. days + o.id = days + p.id
  BY <1>5
<1>7. \A x, y, z \in Int : z + x = z + y => x = y
  OBVIOUS
<1>8. QED
  BY <1>3, <1>6, <1>7

LEMMA ApplyType == ASSUME NEW s \in States, NEW o \in Orders PROVE Apply(s, o) \in States
<1>1. /\ o.ticker \in Tickers /\ o.qty \in Nat /\ o.price \in Nat /\ Cost(o) \in Nat
      /\ o.side \in {"buy", "sell", "set"}
  BY OrderFields
<1>2. s.cash \in Int /\ s.held \in [Tickers -> Int] /\ s.held[o.ticker] \in Int
  BY <1>1 DEF States
<1>3. Adjusted(s, o) \in States
  BY <1>1, <1>2 DEF Adjusted, States
<1>4. Bought(s, o) \in States
  BY <1>1, <1>2 DEF Bought, States
<1>5. ASSUME NEW n \in Int PROVE Sold(s, o, n) \in States
  <2>1. o.price * n \in Int
    BY <1>1
  <2>2. QED
    BY <1>1, <1>2, <2>1 DEF Sold, States
<1>6. QED
  BY <1>1, <1>2, <1>3, <1>4, <1>5 DEF Apply

LEMMA StartType == Start \in States
BY OrdersAssumption DEF Start, States

LEMMA DueType ==
  ASSUME NEW orders \in SUBSET Orders, NEW k, Due(orders, k) # {}
  PROVE  (CHOOSE o \in Due(orders, k) : TRUE) \in Due(orders, k) \cap Orders
BY DEF Due

\* Replays are what their definitions say.
LEMMA BalanceIs ==
  ASSUME NEW orders \in SUBSET Orders, NEW start \in States
  PROVE  /\ Balance(orders, start) \in [Moments -> States]
         /\ Balance(orders, start)[0] = start
         /\ \A k \in 1 .. Last : Balance(orders, start)[k] = BalanceAt(orders, k, Balance(orders, start)[k - 1])
<1> DEFINE Rec(f) == f = [k \in Moments |-> IF k = 0 THEN start ELSE BalanceAt(orders, k, f[k - 1])]
           step == [k \in 1 .. Last |-> [s \in States |-> BalanceAt(orders, k, s)]]
           b == Balance(orders, start)
<1>1. start \in States /\ Last \in Nat /\ Moments = 0 .. Last
  BY LastMoment
<1>2. \A k \in 1 .. Last : \A s \in States : BalanceAt(orders, k, s) \in States
  BY ApplyType, DueType DEF BalanceAt
<1>3. step \in [1 .. Last -> [States -> States]]
  BY <1>2
<1>4. \A k \in 1 .. Last : \A s \in States : step[k][s] = BalanceAt(orders, k, s)
  OBVIOUS
<1> HIDE DEF step
<1>5. PICK f \in [0 .. Last -> States] : f[0] = start /\ Runs(f, step, Last)
  BY <1>1, <1>3, Recursion
<1>6. ASSUME NEW k \in 1 .. Last PROVE f[k] = BalanceAt(orders, k, f[k - 1])
  <2>1. f[k - 1] \in States /\ f[k] = step[k][f[k - 1]]
    BY <1>1, <1>5 DEF Runs
  <2>2. QED
    BY <1>4, <2>1
<1>7. Rec(f)
  BY <1>1, <1>5, <1>6
<1>8. Rec(b)
  BY <1>7 DEF Balance
<1> HIDE DEF b
<1>9. b[0] = start /\ \A k \in 1 .. Last : b[k] = BalanceAt(orders, k, b[k - 1])
  BY <1>1, <1>8
<1>10. DOMAIN b = Moments /\ b = [k \in Moments |-> b[k]]
  BY <1>8
<1>11. b[0] \in States /\ \A k \in 1 .. Last : b[k - 1] \in States => b[k] \in States
  BY <1>1, <1>2, <1>9
<1>12. \A k \in 0 .. Last : b[k] \in States
  BY <1>1, <1>11, StaysIn
<1>13. QED
  BY <1>1, <1>9, <1>10, <1>12 DEF b

CheckStates == [state : States, invalid : SUBSET (1 .. MaxOrders)]

LEMMA CheckType ==
  ASSUME NEW acc \in CheckStates, NEW o \in Orders
  PROVE  Check(acc, o) \in CheckStates
<1>1. acc.state \in States /\ acc.invalid \in SUBSET (1 .. MaxOrders)
  BY DEF CheckStates
<1>2. Apply(acc.state, o) \in States /\ o.id \in 1 .. MaxOrders
  BY <1>1, ApplyType, OrderFields
<1>3. QED
  BY <1>1, <1>2 DEF Check, CheckStates

LEMMA UncheckedType == Unchecked \in CheckStates
BY StartType DEF Unchecked, CheckStates

LEMMA CheckedIs ==
  ASSUME NEW orders \in SUBSET Orders
  PROVE  /\ Checked(orders) \in [Moments -> CheckStates]
         /\ Checked(orders)[0] = Unchecked
         /\ \A k \in 1 .. Last : Checked(orders)[k] = CheckAt(orders, k, Checked(orders)[k - 1])
<1> DEFINE Rec(f) == f = [k \in Moments |-> IF k = 0 THEN Unchecked ELSE CheckAt(orders, k, f[k - 1])]
           step == [k \in 1 .. Last |-> [s \in CheckStates |-> CheckAt(orders, k, s)]]
           b == Checked(orders)
<1>1. Unchecked \in CheckStates /\ Last \in Nat /\ Moments = 0 .. Last
  BY LastMoment, UncheckedType
<1>2. \A k \in 1 .. Last : \A s \in CheckStates : CheckAt(orders, k, s) \in CheckStates
  BY CheckType, DueType DEF CheckAt
<1>3. step \in [1 .. Last -> [CheckStates -> CheckStates]]
  BY <1>2
<1>4. \A k \in 1 .. Last : \A s \in CheckStates : step[k][s] = CheckAt(orders, k, s)
  OBVIOUS
<1> HIDE DEF step
<1>5. PICK f \in [0 .. Last -> CheckStates] : f[0] = Unchecked /\ Runs(f, step, Last)
  BY <1>1, <1>3, Recursion
<1>6. ASSUME NEW k \in 1 .. Last PROVE f[k] = CheckAt(orders, k, f[k - 1])
  <2>1. f[k - 1] \in CheckStates /\ f[k] = step[k][f[k - 1]]
    BY <1>1, <1>5 DEF Runs
  <2>2. QED
    BY <1>4, <2>1
<1>7. Rec(f)
  BY <1>1, <1>5, <1>6
<1>8. Rec(b)
  BY <1>7 DEF Checked
<1> HIDE DEF b
<1>9. b[0] = Unchecked /\ \A k \in 1 .. Last : b[k] = CheckAt(orders, k, b[k - 1])
  BY <1>1, <1>8
<1>10. DOMAIN b = Moments /\ b = [k \in Moments |-> b[k]]
  BY <1>8
<1>11. b[0] \in CheckStates /\ \A k \in 1 .. Last : b[k - 1] \in CheckStates => b[k] \in CheckStates
  BY <1>1, <1>2, <1>9
<1>12. \A k \in 0 .. Last : b[k] \in CheckStates
  BY <1>1, <1>11, StaysIn
<1>13. QED
  BY <1>1, <1>9, <1>10, <1>12 DEF b

LEMMA FlowType == ASSUME NEW o \in Orders PROVE Flow(o) \in Int
BY OrderFields DEF Flow

LEMMA TotalType ==
  ASSUME NEW S \in SUBSET Orders, NEW n, NEW s \in Int
  PROVE  TotalAt(S, n, s) \in Int
<1>1. CASE \E o \in S : o.id = n
  <2>1. (CHOOSE o \in S : o.id = n) \in Orders
    BY <1>1
  <2>2. Flow(CHOOSE o \in S : o.id = n) \in Int
    BY <2>1, FlowType
  <2>3. QED
    BY <1>1, <2>2 DEF TotalAt
<1>2. QED
  BY <1>1 DEF TotalAt

LEMMA TotalIs ==
  ASSUME NEW S \in SUBSET Orders
  PROVE  /\ TotalUpTo(S) \in [0 .. MaxOrders -> Int]
         /\ TotalUpTo(S)[0] = 0
         /\ \A k \in 1 .. MaxOrders : TotalUpTo(S)[k] = TotalAt(S, k, TotalUpTo(S)[k - 1])
<1> DEFINE Rec(f) == f = [k \in 0 .. MaxOrders |-> IF k = 0 THEN 0 ELSE TotalAt(S, k, f[k - 1])]
           step == [k \in 1 .. MaxOrders |-> [s \in Int |-> TotalAt(S, k, s)]]
           b == TotalUpTo(S)
<1>1. 0 \in Int /\ MaxOrders \in Nat /\ 0 .. MaxOrders = 0 .. MaxOrders
  BY OrdersAssumption
<1>2. \A k \in 1 .. MaxOrders : \A s \in Int : TotalAt(S, k, s) \in Int
  BY TotalType
<1>3. step \in [1 .. MaxOrders -> [Int -> Int]]
  BY <1>2
<1>4. \A k \in 1 .. MaxOrders : \A s \in Int : step[k][s] = TotalAt(S, k, s)
  OBVIOUS
<1> HIDE DEF step
<1>5. PICK f \in [0 .. MaxOrders -> Int] : f[0] = 0 /\ Runs(f, step, MaxOrders)
  BY <1>1, <1>3, Recursion
<1>6. ASSUME NEW k \in 1 .. MaxOrders PROVE f[k] = TotalAt(S, k, f[k - 1])
  <2>1. f[k - 1] \in Int /\ f[k] = step[k][f[k - 1]]
    BY <1>1, <1>5 DEF Runs
  <2>2. QED
    BY <1>4, <2>1
<1>7. Rec(f)
  BY <1>1, <1>5, <1>6
<1>8. Rec(b)
  BY <1>7 DEF TotalUpTo
<1> HIDE DEF b
<1>9. b[0] = 0 /\ \A k \in 1 .. MaxOrders : b[k] = TotalAt(S, k, b[k - 1])
  BY <1>1, <1>8
<1>10. DOMAIN b = 0 .. MaxOrders /\ b = [k \in 0 .. MaxOrders |-> b[k]]
  BY <1>8
<1>11. b[0] \in Int /\ \A k \in 1 .. MaxOrders : b[k - 1] \in Int => b[k] \in Int
  BY <1>1, <1>2, <1>9
<1>12. \A k \in 0 .. MaxOrders : b[k] \in Int
  BY <1>1, <1>11, StaysIn
<1>13. QED
  BY <1>1, <1>9, <1>10, <1>12 DEF b

LEMMA TryFillType ==
  ASSUME NEW o \in Orders, NEW prior, NEW quoted
  PROVE  TryFill(o, prior, quoted) \in Orders /\ TryFill(o, prior, quoted).id = o.id
<1>1. CASE o.status = "pending"
  <2>1. o \in Trades
    BY <1>1 DEF Orders, Syncs
  <2>2. \A s \in {"filled", "rejected"} :
          [o EXCEPT !.status = s] \in Trades /\ [o EXCEPT !.status = s].id = o.id
    BY <2>1 DEF Trades
  <2>3. TryFill(o, prior, quoted) \in {o} \cup {[o EXCEPT !.status = s] : s \in {"filled", "rejected"}}
    BY DEF TryFill
  <2>4. QED
    BY <2>1, <2>2, <2>3 DEF Orders
<1>2. CASE o.status # "pending"
  BY <1>2 DEF TryFill
<1>3. QED
  BY <1>1, <1>2

LEMMA ProcessType ==
  ASSUME NEW orders \in SUBSET Orders, NEW quoted, NEW n, NEW S \in SUBSET Orders
  PROVE  ProcessAt(orders, quoted, n, S) \in SUBSET Orders
BY TryFillType DEF ProcessAt

LEMMA ProcessedIs ==
  ASSUME NEW orders \in SUBSET Orders, NEW quoted
  PROVE  /\ ProcessedUpTo(orders, quoted) \in [0 .. MaxOrders -> (SUBSET Orders)]
         /\ ProcessedUpTo(orders, quoted)[0] = {}
         /\ \A k \in 1 .. MaxOrders : ProcessedUpTo(orders, quoted)[k] = ProcessAt(orders, quoted, k, ProcessedUpTo(orders, quoted)[k - 1])
<1> DEFINE Rec(f) == f = [k \in 0 .. MaxOrders |-> IF k = 0 THEN {} ELSE ProcessAt(orders, quoted, k, f[k - 1])]
           step == [k \in 1 .. MaxOrders |-> [s \in (SUBSET Orders) |-> ProcessAt(orders, quoted, k, s)]]
           b == ProcessedUpTo(orders, quoted)
<1>1. {} \in (SUBSET Orders) /\ MaxOrders \in Nat /\ 0 .. MaxOrders = 0 .. MaxOrders
  BY OrdersAssumption
<1>2. \A k \in 1 .. MaxOrders : \A s \in (SUBSET Orders) : ProcessAt(orders, quoted, k, s) \in (SUBSET Orders)
  BY ProcessType
<1>3. step \in [1 .. MaxOrders -> [(SUBSET Orders) -> (SUBSET Orders)]]
  BY <1>2
<1>4. \A k \in 1 .. MaxOrders : \A s \in (SUBSET Orders) : step[k][s] = ProcessAt(orders, quoted, k, s)
  OBVIOUS
<1> HIDE DEF step
<1>5. PICK f \in [0 .. MaxOrders -> (SUBSET Orders)] : f[0] = {} /\ Runs(f, step, MaxOrders)
  BY <1>1, <1>3, Recursion
<1>6. ASSUME NEW k \in 1 .. MaxOrders PROVE f[k] = ProcessAt(orders, quoted, k, f[k - 1])
  <2>1. f[k - 1] \in (SUBSET Orders) /\ f[k] = step[k][f[k - 1]]
    BY <1>1, <1>5 DEF Runs
  <2>2. QED
    BY <1>4, <2>1
<1>7. Rec(f)
  BY <1>1, <1>5, <1>6
<1>8. Rec(b)
  BY <1>7 DEF ProcessedUpTo
<1> HIDE DEF b
<1>9. b[0] = {} /\ \A k \in 1 .. MaxOrders : b[k] = ProcessAt(orders, quoted, k, b[k - 1])
  <2>1. \A k \in 0 .. MaxOrders : b[k] = IF k = 0 THEN {} ELSE ProcessAt(orders, quoted, k, b[k - 1])
    BY <1>8, Zenon
  <2>2. 0 \in 0 .. MaxOrders /\ \A k \in 1 .. MaxOrders : k \in 0 .. MaxOrders /\ k # 0
    BY <1>1
  <2>3. QED
    BY <2>1, <2>2, Zenon
<1>10. DOMAIN b = 0 .. MaxOrders /\ b = [k \in 0 .. MaxOrders |-> b[k]]
  BY <1>8
<1>11. b[0] \in (SUBSET Orders) /\ \A k \in 1 .. MaxOrders : b[k - 1] \in (SUBSET Orders) => b[k] \in (SUBSET Orders)
  BY <1>1, <1>2, <1>9
<1>12. \A k \in 0 .. MaxOrders : b[k] \in (SUBSET Orders)
  BY <1>1, <1>11, StaysIn
<1>13. QED
  BY <1>1, <1>9, <1>10, <1>12 DEF b

-----------------------------------------------------------------------------
(* Books: orders of which no two have the same id.                             *)
Single(S) == \A o, p \in S : o.id = p.id => o = p
Tidy(S) == S \subseteq Orders /\ Single(S)
Ids(S) == {o.id : o \in S}

LEMMA ProcessedIds ==
  ASSUME NEW orders, Tidy(orders), NEW quoted
  PROVE  Tidy(Processed(orders, quoted)) /\ Ids(Processed(orders, quoted)) \subseteq Ids(orders)
<1> DEFINE p == ProcessedUpTo(orders, quoted)
           Upto(n, S) == /\ S \subseteq Orders /\ Single(S)
                         /\ \A o \in S : o.id \in 1 .. n /\ o.id \in Ids(orders)
           T == {n \in 0 .. MaxOrders : Upto(n, p[n])}
<1>1. /\ p[0] = {}
      /\ \A n \in 1 .. MaxOrders : p[n] = ProcessAt(orders, quoted, n, p[n - 1])
      /\ orders \in SUBSET Orders
  BY ProcessedIs DEF Tidy
<1> HIDE DEF p
<1>2. 0 \in T
  BY <1>1, OrdersAssumption DEF Single
<1>3. ASSUME NEW n \in 1 .. MaxOrders, n - 1 \in T PROVE n \in T
  <2>1. Upto(n - 1, p[n - 1]) /\ n \in 0 .. MaxOrders
    BY <1>3, OrdersAssumption
  <2> DEFINE New == {TryFill(o, p[n - 1], quoted) : o \in {q \in orders : q.id = n}}
  <2>2. p[n] = p[n - 1] \cup New
    BY <1>1 DEF ProcessAt
  <2>3. ASSUME NEW o \in New PROVE o \in Orders /\ o.id = n /\ o.id \in Ids(orders)
    BY <1>1, TryFillType DEF Ids
  <2>4. ASSUME NEW o \in New, NEW q \in New PROVE o = q
    BY DEF Tidy, Single
  <2> HIDE DEF New
  <2>5. \A o \in p[n - 1] : o.id \in 1 .. n /\ o.id # n
    BY <2>1
  <2>6. Single(p[n])
    BY <2>1, <2>2, <2>3, <2>4, <2>5 DEF Single
  <2>7. Upto(n, p[n])
    <3>1. p[n] \subseteq Orders
      BY <2>1, <2>2, <2>3
    <3>2. \A o \in p[n] : o.id \in 1 .. n /\ o.id \in Ids(orders)
      BY <2>1, <2>2, <2>3, <2>5
    <3>3. QED
      BY <2>6, <3>1, <3>2
  <2>8. QED
    BY <2>1, <2>7
<1> HIDE DEF T
<1>4. 0 .. MaxOrders \subseteq T
  BY <1>2, <1>3, OrdersAssumption, CountUp
<1>5. MaxOrders \in T
  BY <1>4, OrdersAssumption
<1>6. Upto(MaxOrders, p[MaxOrders])
  BY <1>5 DEF T
<1>7. Processed(orders, quoted) = p[MaxOrders]
  BY DEF Processed, p
<1>8. QED
  BY <1>6, <1>7 DEF Tidy, Ids

LEMMA SanitizedIds ==
  ASSUME NEW orders, Tidy(orders)
  PROVE  Tidy(Sanitized(orders)) /\ Sanitized(orders) \subseteq orders
BY DEF Tidy, Single, Sanitized

-----------------------------------------------------------------------------
(* Due orders, and what checking one after the other finds.                    *)
LEMMA DueOrder ==
  ASSUME NEW orders, Tidy(orders), NEW o \in orders, o.status = "filled"
  PROVE  Due(orders, Moment(o)) = {o}
BY MomentsTell DEF Due, Tidy, Single

LEMMA AtMoment ==
  ASSUME NEW orders, Tidy(orders), NEW k
  PROVE  \/ Due(orders, k) = {}
         \/ \E o \in orders : o.status = "filled" /\ Moment(o) = k /\ Due(orders, k) = {o}
<1>1. CASE Due(orders, k) # {}
  <2>1. PICK o \in orders : o.status = "filled" /\ Moment(o) = k
    BY <1>1 DEF Due
  <2>2. QED
    BY <2>1, DueOrder
<1>2. QED
  BY <1>1

LEMMA StepsAtMoment ==
  ASSUME NEW orders, NEW k, NEW o, Due(orders, k) = {o}, NEW s
  PROVE  BalanceAt(orders, k, s) = Apply(s, o) /\ CheckAt(orders, k, s) = Check(s, o)
<1>1. (CHOOSE p \in {o} : TRUE) = o
  OBVIOUS
<1>2. QED
  BY <1>1 DEF BalanceAt, CheckAt

LEMMA Checking ==
  ASSUME NEW acc \in CheckStates, NEW o \in Orders
  PROVE  /\ Valid(acc.state, o) => /\ Check(acc, o).state = Apply(acc.state, o)
                                   /\ Check(acc, o).invalid = acc.invalid
         /\ ~ Valid(acc.state, o) => /\ Check(acc, o).state = acc.state
                                     /\ Check(acc, o).invalid = acc.invalid \cup {o.id}
BY DEF Check, CheckStates

\* What was found stays found.
LEMMA InvalidGrows ==
  ASSUME NEW orders, Tidy(orders), NEW k \in 1 .. Last
  PROVE  Checked(orders)[k - 1].invalid \subseteq Checked(orders)[k].invalid
<1> DEFINE c == Checked(orders)
<1>1. orders \in SUBSET Orders
  BY DEF Tidy
<1>2. c[k] = CheckAt(orders, k, c[k - 1]) /\ c[k - 1] \in CheckStates
  BY <1>1, CheckedIs, LastMoment
<1> SUFFICES c[k - 1].invalid \subseteq c[k].invalid
  OBVIOUS
<1> HIDE DEF c
<1>3. CASE Due(orders, k) = {}
  BY <1>2, <1>3 DEF CheckAt
<1>4. CASE Due(orders, k) # {}
  <2>1. PICK o \in orders : Due(orders, k) = {o}
    BY <1>4, AtMoment
  <2>2. c[k] = Check(c[k - 1], o) /\ o \in Orders
    BY <1>1, <1>2, <2>1, StepsAtMoment
  <2>3. QED
    BY <1>2, <2>2, Checking
<1>5. QED
  BY <1>3, <1>4

LEMMA InvalidKept ==
  ASSUME NEW orders, Tidy(orders), NEW k \in 0 .. Last
  PROVE  Checked(orders)[k].invalid \subseteq Invalid(orders)
<1> DEFINE c == Checked(orders)
           T == {j \in 0 .. Last : c[Last - j].invalid \subseteq c[Last].invalid}
<1>0. Last \in Nat
  BY LastMoment
<1>1. \A j \in 1 .. Last : c[j - 1].invalid \subseteq c[j].invalid
  BY InvalidGrows
<1> HIDE DEF c
<1>2. 0 \in T
  <2>1. Last - 0 = Last
    BY <1>0
  <2>2. QED
    BY <1>0, <2>1
<1>3. ASSUME NEW j \in 1 .. Last, j - 1 \in T PROVE j \in T
  <2>1. c[Last - (j - 1)].invalid \subseteq c[Last].invalid
    BY <1>3
  <2>2. Last - (j - 1) \in 1 .. Last /\ (Last - (j - 1)) - 1 = Last - j
    BY <1>0
  <2>3. c[Last - j].invalid \subseteq c[Last - (j - 1)].invalid
    BY <1>1, <2>2
  <2>4. QED
    BY <1>0, <2>1, <2>3
<1> HIDE DEF T
<1>4. 0 .. Last \subseteq T
  BY <1>0, <1>2, <1>3, CountUp
<1>5. Last - k \in T /\ Last - (Last - k) = k
  BY <1>0, <1>4
<1>6. c[k].invalid \subseteq c[Last].invalid
  BY <1>5 DEF T
<1>7. QED
  BY <1>6 DEF c, Invalid, Last

\* Only an order that is not valid at its moment is found.
LEMMA OnlyInvalid ==
  ASSUME NEW orders, Tidy(orders), NEW o \in orders, o.status = "filled",
         Valid(Checked(orders)[Moment(o) - 1].state, o)
  PROVE  o.id \notin Invalid(orders)
<1> DEFINE c == Checked(orders)
<1>0. Last \in Nat /\ orders \in SUBSET Orders
  BY LastMoment DEF Tidy
<1>1. /\ c[0] = Unchecked
      /\ \A k \in 1 .. Last : c[k] = CheckAt(orders, k, c[k - 1]) /\ c[k - 1] \in CheckStates
  BY <1>0, CheckedIs, LastMoment
<1>2. Valid(c[Moment(o) - 1].state, o)
  OBVIOUS
<1> HIDE DEF c
<1> DEFINE T == {k \in 0 .. Last : o.id \notin c[k].invalid}
<1>3. 0 \in T
  BY <1>0, <1>1 DEF Unchecked
<1>4. ASSUME NEW k \in 1 .. Last, k - 1 \in T PROVE k \in T
  <2>1. o.id \notin c[k - 1].invalid
    BY <1>4
  <2>2. CASE Due(orders, k) = {}
    BY <1>1, <2>1, <2>2 DEF CheckAt
  <2>3. CASE Due(orders, k) # {}
    <3>1. PICK p \in orders : p.status = "filled" /\ Moment(p) = k /\ Due(orders, k) = {p}
      BY <2>3, AtMoment
    <3>2. c[k] = Check(c[k - 1], p) /\ p \in Orders
      BY <1>0, <1>1, <3>1, StepsAtMoment
    <3>3. p.id = o.id => p = o
      BY DEF Tidy, Single
    <3>4. o.id \notin c[k].invalid
      <4>1. CASE p = o
        BY <1>1, <1>2, <2>1, <3>1, <3>2, <4>1, Checking
      <4>2. CASE p.id # o.id
        BY <1>1, <2>1, <3>2, <4>2, Checking
      <4>3. QED
        BY <3>3, <4>1, <4>2
    <3>5. QED
      BY <3>4
  <2>4. QED
    BY <2>2, <2>3
<1> HIDE DEF T
<1>5. 0 .. Last \subseteq T
  BY <1>0, <1>3, <1>4, CountUp
<1>6. o.id \notin c[Last].invalid
  BY <1>0, <1>5 DEF T
<1>7. QED
  BY <1>6 DEF c, Invalid, Last

\* Sanitizing takes out exactly the orders whose effects checking left out.
LEMMA CleanChecks ==
  ASSUME NEW orders, Tidy(orders)
  PROVE  Invalid(Sanitized(orders)) = {}
<1>1. CASE Invalid(orders) = {}
  BY <1>1 DEF Sanitized
<1>2. CASE Invalid(orders) # {}
  <2> DEFINE clean == Sanitized(orders)
             c == Checked(orders)
             d == Checked(clean)
  <2>0. Last \in Nat /\ orders \in SUBSET Orders /\ clean \in SUBSET Orders /\ Tidy(clean)
    BY LastMoment, SanitizedIds DEF Tidy
  <2>1. /\ c[0] = Unchecked
        /\ \A k \in 1 .. Last : c[k] = CheckAt(orders, k, c[k - 1]) /\ c[k - 1] \in CheckStates
    BY <2>0, CheckedIs, LastMoment
  <2>2. /\ d[0] = Unchecked
        /\ \A k \in 1 .. Last : d[k] = CheckAt(clean, k, d[k - 1]) /\ d[k - 1] \in CheckStates
    <3> HIDE DEF clean
    <3>1. QED
      BY <2>0, CheckedIs, LastMoment
  <2>3. clean = {o \in orders : o.id \notin Invalid(orders) /\ o.status # "rejected"}
    BY <1>2 DEF Sanitized
  <2>4. \A k \in 0 .. Last : c[k].invalid \subseteq Invalid(orders)
    BY InvalidKept
  <2>5. \A o \in orders :
          o.status = "filled" /\ Valid(c[Moment(o) - 1].state, o) => o.id \notin Invalid(orders)
    BY OnlyInvalid
  <2>6. Invalid(clean) = d[Last].invalid
    BY DEF Invalid, Last
  <2> HIDE DEF c, d, clean
  <2> DEFINE T == {k \in 0 .. Last : d[k].state = c[k].state /\ d[k].invalid = {}}
  <2>7. 0 \in T
    BY <2>0, <2>1, <2>2 DEF Unchecked
  <2>8. ASSUME NEW k \in 1 .. Last, k - 1 \in T PROVE k \in T
    <3>1. d[k - 1].state = c[k - 1].state /\ d[k - 1].invalid = {}
      BY <2>8
    <3>2. k \in 0 .. Last
      BY <2>0
    <3>3. CASE Due(orders, k) = {}
      <4>1. Due(clean, k) = {}
        BY <2>3, <3>3 DEF Due
      <4>2. c[k] = c[k - 1] /\ d[k] = d[k - 1]
        BY <2>1, <2>2, <3>3, <4>1 DEF CheckAt
      <4>3. QED
        BY <3>1, <3>2, <4>2
    <3>4. CASE Due(orders, k) # {}
      <4>1. PICK o \in orders : o.status = "filled" /\ Moment(o) = k /\ Due(orders, k) = {o}
        BY <3>4, AtMoment
      <4>2. c[k] = Check(c[k - 1], o) /\ o \in Orders
        <5>1. c[k] = CheckAt(orders, k, c[k - 1])
          BY <2>1
        <5>2. CheckAt(orders, k, c[k - 1]) = Check(c[k - 1], o)
          BY <4>1, StepsAtMoment
        <5>3. QED
          BY <2>0, <5>1, <5>2
      <4>3. CASE Valid(c[k - 1].state, o)
        <5>1. o \in clean
          BY <2>3, <2>5, <4>1, <4>3
        <5>2. Due(clean, k) = {o}
          BY <2>3, <4>1, <5>1 DEF Due
        <5>3. d[k] = Check(d[k - 1], o)
          <6>1. d[k] = CheckAt(clean, k, d[k - 1])
            BY <2>2
          <6>2. CheckAt(clean, k, d[k - 1]) = Check(d[k - 1], o)
            BY <5>2, StepsAtMoment
          <6>3. QED
            BY <6>1, <6>2
        <5>4. QED
          BY <2>0, <2>1, <2>2, <3>1, <3>2, <4>2, <4>3, <5>3, Checking
      <4>4. CASE ~ Valid(c[k - 1].state, o)
        <5>1. o.id \in Invalid(orders) /\ c[k].state = c[k - 1].state
          BY <2>1, <2>4, <3>2, <4>2, <4>4, Checking
        <5>2. Due(clean, k) = {}
          BY <2>3, <4>1, <5>1 DEF Due
        <5>3. d[k] = d[k - 1]
          BY <2>2, <5>2 DEF CheckAt
        <5>4. QED
          BY <3>1, <3>2, <5>1, <5>3
      <4>5. QED
        BY <4>3, <4>4
    <3>5. QED
      BY <3>3, <3>4
  <2> HIDE DEF T
  <2>9. 0 .. Last \subseteq T
    BY <2>0, <2>7, <2>8, CountUp
  <2>10. d[Last].invalid = {}
    BY <2>0, <2>9 DEF T
  <2>11. QED
    BY <2>6, <2>10 DEF clean
<1>3. QED
  BY <1>1, <1>2

-----------------------------------------------------------------------------
(* The cash of a replay that skips nothing.                                    *)
LEMMA TotalOfNone == Total({}) = 0
<1> DEFINE t == TotalUpTo({})
           T == {n \in 0 .. MaxOrders : t[n] = 0}
<1>1. t[0] = 0 /\ \A n \in 1 .. MaxOrders : t[n] = TotalAt({}, n, t[n - 1])
  BY TotalIs
<1> HIDE DEF t
<1>2. 0 \in T /\ \A n \in 1 .. MaxOrders : n - 1 \in T => n \in T
  BY <1>1, OrdersAssumption DEF TotalAt
<1> HIDE DEF T
<1>3. 0 .. MaxOrders \subseteq T
  BY <1>2, OrdersAssumption, CountUp
<1>4. t[MaxOrders] = 0
  BY <1>3, OrdersAssumption DEF T
<1>5. QED
  BY <1>4 DEF t, Total

LEMMA TotalAdds ==
  ASSUME NEW S, Tidy(S), NEW o \in Orders, o.id \notin Ids(S)
  PROVE  Total(S \cup {o}) = Total(S) + Flow(o)
<1> DEFINE more == S \cup {o}
           t == TotalUpTo(S)
           u == TotalUpTo(more)
           T == {n \in 0 .. MaxOrders : u[n] = t[n] + (IF o.id <= n THEN Flow(o) ELSE 0)}
<1>1. S \in SUBSET Orders /\ more \in SUBSET Orders /\ o.id \in 1 .. MaxOrders /\ Flow(o) \in Int
  BY OrderFields, FlowType DEF Tidy
<1>2. /\ t[0] = 0 /\ \A n \in 1 .. MaxOrders : t[n] = TotalAt(S, n, t[n - 1])
      /\ \A n \in 0 .. MaxOrders : t[n] \in Int
  BY <1>1, TotalIs
<1>3. u[0] = 0 /\ \A n \in 1 .. MaxOrders : u[n] = TotalAt(more, n, u[n - 1])
  <2> HIDE DEF more
  <2>1. QED
    BY <1>1, TotalIs
<1>4. Total(S) = t[MaxOrders] /\ Total(more) = u[MaxOrders]
  BY DEF Total
<1> HIDE DEF t, u
<1>5. 0 \in T
  BY <1>1, <1>2, <1>3, OrdersAssumption
<1>6. ASSUME NEW n \in 1 .. MaxOrders, n - 1 \in T PROVE n \in T
  <2>0. n - 1 \in 0 .. MaxOrders /\ n \in 0 .. MaxOrders /\ n \in Int
    BY OrdersAssumption
  <2>1. /\ u[n - 1] = t[n - 1] + (IF o.id <= n - 1 THEN Flow(o) ELSE 0)
        /\ t[n - 1] \in Int
        /\ t[n] = TotalAt(S, n, t[n - 1]) /\ u[n] = TotalAt(more, n, u[n - 1])
    BY <1>2, <1>3, <1>6, <2>0
  <2>2. CASE o.id = n
    <3>1. ~ \E p \in S : p.id = n
      BY <2>2 DEF Ids
    <3>2. (CHOOSE p \in more : p.id = n) = o /\ \E p \in more : p.id = n
      BY <2>2, <3>1
    <3>3. t[n] = t[n - 1]
      BY <2>1, <3>1 DEF TotalAt
    <3>4. u[n] = u[n - 1] + Flow(o)
      BY <2>1, <3>2 DEF TotalAt
    <3>5. u[n - 1] = t[n - 1]
      BY <2>0, <2>1, <2>2
    <3>6. QED
      BY <2>0, <2>2, <3>3, <3>4, <3>5
  <2>3. CASE o.id # n /\ \E p \in S : p.id = n
    <3>1. PICK p \in S : p.id = n
      BY <2>3
    <3>2. /\ (CHOOSE q \in S : q.id = n) = p /\ (CHOOSE q \in more : q.id = n) = p
          /\ \E q \in more : q.id = n
      BY <2>3, <3>1 DEF Tidy, Single
    <3>3. Flow(p) \in Int
      BY <1>1, <3>1, FlowType
    <3>4. t[n] = t[n - 1] + Flow(p) /\ u[n] = u[n - 1] + Flow(p)
      BY <2>1, <2>3, <3>2 DEF TotalAt
    <3>5. o.id <= n <=> o.id <= n - 1
      BY <1>1, <2>0, <2>3
    <3>6. QED
      BY <1>1, <2>0, <2>1, <3>3, <3>4, <3>5
  <2>4. CASE o.id # n /\ ~ \E p \in S : p.id = n
    <3>1. ~ \E p \in more : p.id = n
      BY <2>4
    <3>2. t[n] = t[n - 1] /\ u[n] = u[n - 1]
      BY <2>1, <2>4, <3>1 DEF TotalAt
    <3>3. o.id <= n <=> o.id <= n - 1
      BY <1>1, <2>0, <2>4
    <3>4. QED
      BY <2>0, <2>1, <3>2, <3>3
  <2>5. QED
    BY <2>2, <2>3, <2>4
<1> HIDE DEF T
<1>7. 0 .. MaxOrders \subseteq T
  BY <1>5, <1>6, OrdersAssumption, CountUp
<1>8. MaxOrders \in T /\ o.id <= MaxOrders
  BY <1>1, <1>7, OrdersAssumption
<1>9. u[MaxOrders] = t[MaxOrders] + Flow(o)
  BY <1>8 DEF T
<1>10. QED
  BY <1>4, <1>9

\* A valid order is applied in full.
LEMMA ValidFlow ==
  ASSUME NEW s \in States, NEW o \in Orders, Valid(s, o)
  PROVE  Apply(s, o).cash = s.cash + Flow(o)
<1>1. /\ o.ticker \in Tickers /\ o.qty \in Nat /\ o.price \in Nat /\ Cost(o) \in Nat
      /\ o.side \in {"buy", "sell", "set"}
  BY OrderFields
<1>2. s.cash \in Int /\ s.held \in [Tickers -> Int] /\ s.held[o.ticker] \in Int
  BY <1>1 DEF States
<1>3. CASE o.side = "buy"
  <2>1. Apply(s, o) = Bought(s, o)
    BY <1>1, <1>2, <1>3 DEF Apply, Valid
  <2>2. QED
    BY <1>1, <1>2, <1>3, <2>1 DEF Bought, Flow
<1>4. CASE o.side = "sell"
  <2>1. Apply(s, o) = Sold(s, o, o.qty)
    BY <1>1, <1>2, <1>4 DEF Apply, Valid
  <2>2. Apply(s, o).cash = s.cash + o.price * o.qty
    BY <2>1 DEF Sold
  <2>3. Flow(o) = o.price * o.qty
    BY <1>4 DEF Flow, Cost
  <2>4. QED
    BY <2>2, <2>3
<1>5. CASE o.side = "set"
  <2>1. Apply(s, o).cash = s.cash
    BY <1>5 DEF Apply, Adjusted, States
  <2>2. QED
    BY <1>2, <1>5, <2>1 DEF Flow
<1>6. QED
  BY <1>1, <1>3, <1>4, <1>5

LEMMA CleanAddsUp ==
  ASSUME NEW orders, Tidy(orders), Invalid(orders) = {}
  PROVE  Replay(orders, Today, Start).cash = Capital + Total({o \in orders : o.status = "filled"})
<1> DEFINE c == Checked(orders)
           b == Balance(orders, Start)
           Filled(k) == {o \in orders : o.status = "filled" /\ Moment(o) <= k}
           T == {k \in 0 .. Last : b[k] = c[k].state /\ b[k].cash = Capital + Total(Filled(k))}
<1>0. Last \in Nat /\ orders \in SUBSET Orders /\ Capital \in Int
  BY LastMoment, OrdersAssumption DEF Tidy
<1>1. /\ c[0] = Unchecked
      /\ \A k \in 1 .. Last : c[k] = CheckAt(orders, k, c[k - 1]) /\ c[k - 1] \in CheckStates
  BY <1>0, CheckedIs, LastMoment
<1>2. /\ b[0] = Start
      /\ \A k \in 1 .. Last : b[k] = BalanceAt(orders, k, b[k - 1]) /\ b[k - 1] \in States
  BY <1>0, BalanceIs, LastMoment, StartType
<1>3. \A k \in 0 .. Last : c[k].invalid = {}
  BY InvalidKept
<1>4. Replay(orders, Today, Start) = b[Last]
  BY DEF Replay, Last
<1> HIDE DEF b, c
<1>5. \A o \in orders : Moment(o) \in 1 .. Last
  BY <1>0, MomentIn
<1>6. 0 \in T
  <2>1. Filled(0) = {}
    BY <1>0, <1>5
  <2>2. b[0].cash = Capital + Total(Filled(0))
    BY <1>0, <1>2, <2>1, TotalOfNone DEF Start
  <2>3. b[0] = c[0].state
    BY <1>1, <1>2 DEF Unchecked
  <2>4. QED
    BY <1>0, <2>2, <2>3
<1>7. ASSUME NEW k \in 1 .. Last, k - 1 \in T PROVE k \in T
  <2>1. b[k - 1] = c[k - 1].state /\ b[k - 1].cash = Capital + Total(Filled(k - 1))
    BY <1>7
  <2>2. k \in 0 .. Last /\ k \in Int
    BY <1>0
  <2>3. CASE Due(orders, k) = {}
    <3>1. Filled(k) = Filled(k - 1)
      <4>1. ASSUME NEW o \in orders, o.status = "filled" PROVE Moment(o) <= k <=> Moment(o) <= k - 1
        <5>1. Moment(o) # k
          BY <2>3, <4>1 DEF Due
        <5>2. Moment(o) \in Int
          BY <1>0, <1>5
        <5>3. QED
          BY <2>2, <5>1, <5>2
      <4>2. QED
        BY <4>1
    <3>2. b[k] = b[k - 1] /\ c[k] = c[k - 1]
      BY <1>1, <1>2, <2>3 DEF BalanceAt, CheckAt
    <3>3. QED
      BY <2>1, <2>2, <3>1, <3>2
  <2>4. CASE Due(orders, k) # {}
    <3>1. PICK o \in orders : o.status = "filled" /\ Moment(o) = k /\ Due(orders, k) = {o}
      BY <2>4, AtMoment
    <3>2. o \in Orders /\ c[k - 1] \in CheckStates /\ b[k - 1] \in States /\ Flow(o) \in Int
      BY <1>0, <1>1, <1>2, FlowType
    <3>3. c[k] = Check(c[k - 1], o)
      <4>1. c[k] = CheckAt(orders, k, c[k - 1])
        BY <1>1
      <4>2. QED
        BY <3>1, <4>1, StepsAtMoment
    <3>4. b[k] = Apply(b[k - 1], o)
      <4>1. b[k] = BalanceAt(orders, k, b[k - 1])
        BY <1>2
      <4>2. QED
        BY <3>1, <4>1, StepsAtMoment
    <3>5. Valid(b[k - 1], o)
      <4>1. c[k].invalid = {}
        BY <1>3, <2>2
      <4>2. QED
        <5>1. ~ Valid(c[k - 1].state, o) => o.id \in c[k].invalid
          BY <3>2, <3>3, Checking
        <5>2. QED
          BY <2>1, <4>1, <5>1
    <3>6. b[k] = c[k].state
      BY <2>1, <3>2, <3>3, <3>4, <3>5, Checking
    <3>7. b[k].cash = b[k - 1].cash + Flow(o)
      BY <3>2, <3>4, <3>5, ValidFlow
    <3>8. Filled(k) = Filled(k - 1) \cup {o}
      <4>1. ASSUME NEW p \in orders, p.status = "filled"
            PROVE  Moment(p) <= k <=> Moment(p) <= k - 1 \/ p = o
        <5>1. Moment(p) = k <=> p = o
          BY <3>1, <4>1 DEF Due
        <5>2. Moment(p) \in Int
          BY <1>0, <1>5
        <5>3. QED
          BY <2>2, <5>1, <5>2
      <4>2. QED
        BY <3>1, <4>1
    <3>9. o.id \notin Ids(Filled(k - 1)) /\ Tidy(Filled(k - 1))
      <4>1. o \notin Filled(k - 1)
        BY <2>2, <3>1
      <4>2. QED
        BY <4>1 DEF Tidy, Single, Ids
    <3> HIDE DEF Filled
    <3>10. Total(Filled(k)) = Total(Filled(k - 1)) + Flow(o)
      BY <3>2, <3>8, <3>9, TotalAdds
    <3>11. Total(Filled(k - 1)) \in Int
      BY <3>9, TotalIs, OrdersAssumption DEF Tidy, Total
    <3>12. b[k].cash = Capital + Total(Filled(k))
      BY <1>0, <2>1, <3>2, <3>7, <3>10, <3>11
    <3>13. QED
      BY <2>2, <3>6, <3>12
  <2>5. QED
    BY <2>3, <2>4
<1> HIDE DEF T
<1>8. 0 .. Last \subseteq T
  BY <1>0, <1>6, <1>7, CountUp
<1>9. b[Last].cash = Capital + Total(Filled(Last))
  BY <1>0, <1>8 DEF T
<1>10. Filled(Last) = {o \in orders : o.status = "filled"}
  BY <1>5
<1>11. QED
  BY <1>4, <1>9, <1>10

-----------------------------------------------------------------------------
(* What requests know.  A book is tidy, and its ids are among those made; an   *)
(* order that is about to be added has an id no order of the request's book    *)
(* has: it was made after that book was read.                                  *)
RequestStates ==
  {Idle} \cup [at : {"add"}, order : Orders, orders : SUBSET Orders]
         \cup [at : {"process", "save", "answer", "discard"}, id : Nat, orders : SUBSET Orders]
         \cup [at : {"cancel"}, orders : SUBSET Orders]

Numbered(orders, n) == Tidy(orders) /\ Ids(orders) \subseteq 1 .. n

\* What holds of a request that is at q when n orders were made.
Sound(q, n) ==
  /\ q \in RequestStates
  /\ q.at # "idle" => Numbered(q.orders, n)
  /\ q.at = "add" => q.order.id \in 1 .. n /\ q.order.id \notin Ids(q.orders)

OrdersInv ==
  /\ made \in 0 .. MaxOrders
  /\ Numbered(book, made)
  /\ DOMAIN request = Requests /\ request = [r \in Requests |-> request[r]]
  /\ \A r \in Requests : Sound(request[r], made)

LEMMA OrdersInvTypes == OrdersInv => OrdersTypeOK
<1> SUFFICES ASSUME OrdersInv PROVE OrdersTypeOK
  OBVIOUS
<1>1. book \subseteq Trades \cup Syncs /\ made \in 0 .. MaxOrders
  BY DEF OrdersInv, Numbered, Tidy, Orders
<1>2. ASSUME NEW r \in Requests
      PROVE  request[r].at \in {"idle", "add", "process", "save", "answer", "discard", "cancel"}
  <2>1. request[r] \in RequestStates
    BY DEF OrdersInv, Sound
  <2>2. QED
    BY <2>1 DEF RequestStates, Idle
<1>3. QED
  BY <1>1, <1>2 DEF OrdersTypeOK

LEMMA OrdersInvStarts == OrdersInit => OrdersInv
<1> SUFFICES ASSUME OrdersInit PROVE OrdersInv
  OBVIOUS
<1>1. book = {} /\ made = 0 /\ request = [r \in Requests |-> Idle]
  BY DEF OrdersInit
<1>2. Numbered(book, made)
  BY <1>1 DEF Numbered, Tidy, Single, Ids
<1>3. Sound(Idle, made)
  BY DEF Sound, RequestStates, Idle
<1>4. QED
  BY <1>1, <1>2, <1>3, OrdersAssumption DEF OrdersInv

LEMMA MoreNumbers ==
  ASSUME NEW n \in Nat, NEW m \in Nat, n <= m
  PROVE  /\ \A orders : Numbered(orders, n) => Numbered(orders, m)
         /\ \A q : Sound(q, n) => Sound(q, m)
<1>1. 1 .. n \subseteq 1 .. m
  OBVIOUS
<1>2. QED
  BY <1>1 DEF Numbered, Sound

\* A step that changes one request, to q, and perhaps the book.
LEMMA OneRequest ==
  ASSUME OrdersInv, made' \in 0 .. MaxOrders, made <= made', Numbered(book', made'),
         NEW r \in Requests, NEW q, Sound(q, made'), request' = [request EXCEPT ![r] = q]
  PROVE  OrdersInv'
<1>1. made \in Nat /\ made' \in Nat
  BY OrdersAssumption DEF OrdersInv
<1>2. \A s \in Requests : Sound(request[s], made')
  BY <1>1, MoreNumbers DEF OrdersInv
<1>3. request' = [s \in Requests |-> IF s = r THEN q ELSE request[s]]
  BY DEF OrdersInv
<1>4. \A s \in Requests : Sound(request'[s], made')
  BY <1>2, <1>3
<1>5. QED
  BY <1>3, <1>4 DEF OrdersInv

LEMMA SameMade ==
  ASSUME OrdersInv, made' = made, Numbered(book', made),
         NEW r \in Requests, NEW q, Sound(q, made), request' = [request EXCEPT ![r] = q]
  PROVE  OrdersInv'
<1>1. made' \in 0 .. MaxOrders /\ made <= made'
  BY OrdersAssumption DEF OrdersInv
<1>2. Numbered(book', made') /\ Sound(q, made')
  OBVIOUS
<1>3. QED
  BY <1>1, <1>2, OneRequest

Works == [at : {"process", "save", "answer", "discard"}, id : Nat, orders : SUBSET Orders]

LEMMA RequestShapes ==
  ASSUME NEW q \in RequestStates
  PROVE  /\ q.at = "add" => q \in [at : {"add"}, order : Orders, orders : SUBSET Orders]
         /\ q.at \in {"process", "save", "answer", "discard"} => q \in Works
         /\ q.at = "cancel" => q \in [at : {"cancel"}, orders : SUBSET Orders]
         /\ q.at # "idle" => q.orders \in SUBSET Orders
BY DEF RequestStates, Works, Idle

LEMMA WorkIsSound ==
  ASSUME NEW n, NEW q \in Works, Numbered(q.orders, n)
  PROVE  Sound(q, n)
BY DEF Sound, Works, RequestStates

LEMMA IdleIsSound == ASSUME NEW n PROVE Sound(Idle, n)
BY DEF Sound, RequestStates, Idle

LEMMA FewerNumbered ==
  ASSUME NEW orders, NEW n, Numbered(orders, n), NEW fewer \in SUBSET orders
  PROVE  Numbered(fewer, n)
BY DEF Numbered, Tidy, Single, Ids

LEMMA ProcessedNumbered ==
  ASSUME NEW orders, NEW n, Numbered(orders, n), NEW quoted
  PROVE  Numbered(Processed(Sanitized(orders), quoted), n)
<1>1. Tidy(Sanitized(orders)) /\ Sanitized(orders) \subseteq orders
  BY SanitizedIds DEF Numbered
<1>2. /\ Tidy(Processed(Sanitized(orders), quoted))
      /\ Ids(Processed(Sanitized(orders), quoted)) \subseteq Ids(Sanitized(orders))
  BY <1>1, ProcessedIds
<1>3. Ids(Sanitized(orders)) \subseteq Ids(orders)
  BY <1>1 DEF Ids
<1>4. QED
  BY <1>2, <1>3 DEF Numbered

LEMMA OrdersInvStep == OrdersInv /\ [OrdersNext]_orderVars => OrdersInv'
<1> SUFFICES ASSUME OrdersInv, [OrdersNext]_orderVars PROVE OrdersInv'
  OBVIOUS
<1>0. /\ made \in Nat /\ MaxOrders \in Nat /\ made \in 0 .. MaxOrders /\ Numbered(book, made)
      /\ \A r \in Requests : Sound(request[r], made) /\ request[r] \in RequestStates
  BY OrdersAssumption DEF OrdersInv, Sound
<1>1. ASSUME NEW r \in Requests, NEW o \in Trades \cup Syncs, NewOrder(r, o) PROVE OrdersInv'
  <2> DEFINE q == [at |-> "add", order |-> o, orders |-> book]
  <2>1. /\ made' = made + 1 /\ o.id = made + 1 /\ book' = book
        /\ made' \in 0 .. MaxOrders /\ made <= made' /\ made' \in Nat
        /\ request' = [request EXCEPT ![r] = q]
    BY <1>0, <1>1 DEF NewOrder
  <2>2. Numbered(book, made')
    BY <1>0, <2>1, MoreNumbers
  <2>3. o.id \in 1 .. made' /\ o.id \notin Ids(book)
    BY <1>0, <2>1 DEF Numbered
  <2>4. Sound(q, made')
    BY <2>2, <2>3 DEF Sound, RequestStates, Orders, Numbered, Tidy
  <2> HIDE DEF q
  <2>5. QED
    BY <2>1, <2>2, <2>4, OneRequest
<1>2. ASSUME NEW r \in Requests, AddOrder(r) PROVE OrdersInv'
  <2>1. request[r] \in [at : {"add"}, order : Orders, orders : SUBSET Orders] /\ Sound(request[r], made)
    BY <1>0, <1>2, RequestShapes DEF AddOrder
  <2> DEFINE o == request[r].order
             q == IF o.side = "set" THEN Idle
                  ELSE [at |-> "process", id |-> o.id, orders |-> book']
  <2>2. /\ book' = request[r].orders \cup {o} /\ made' = made
        /\ request' = [request EXCEPT ![r] = q]
    BY <1>2 DEF AddOrder
  <2>3. o \in Orders /\ Numbered(request[r].orders, made) /\ o.id \in 1 .. made /\ o.id \notin Ids(request[r].orders)
    BY <1>2, <2>1 DEF Sound, AddOrder
  <2>4. Numbered(book', made)
    BY <2>2, <2>3 DEF Numbered, Tidy, Single, Ids
  <2>5. Sound(q, made)
    <3>1. CASE o.side = "set"
      BY <3>1, IdleIsSound
    <3>2. CASE o.side # "set"
      <4>1. q \in Works /\ q.orders = book'
        BY <1>0, <2>3, <2>4, <3>2 DEF Works, Numbered, Tidy
      <4>2. QED
        BY <2>4, <4>1, WorkIsSound
    <3>3. QED
      BY <3>1, <3>2
  <2> HIDE DEF q
  <2>6. QED
    BY <1>0, <2>2, <2>4, <2>5, SameMade
<1>3. ASSUME NEW r \in Requests, GetDetail(r) PROVE OrdersInv'
  <2> DEFINE q == [at |-> "process", id |-> 0, orders |-> book]
  <2>1. book' = book /\ made' = made /\ request' = [request EXCEPT ![r] = q]
    BY <1>3 DEF GetDetail
  <2>2. q \in Works /\ q.orders = book
    BY <1>0 DEF Works, Numbered, Tidy
  <2>3. Sound(q, made)
    BY <1>0, <2>2, WorkIsSound
  <2> HIDE DEF q
  <2>4. QED
    BY <1>0, <2>1, <2>3, SameMade
<1>4. ASSUME NEW r \in Requests, NEW quoted, Process(r, quoted) PROVE OrdersInv'
  <2> DEFINE orders == Processed(Sanitized(request[r].orders), quoted)
             same == Invalid(request[r].orders) = {} /\ orders = request[r].orders
             q == [request[r] EXCEPT !.orders = orders, !.at = IF same THEN "answer" ELSE "save"]
  <2>1. request[r] \in Works /\ Numbered(request[r].orders, made)
    BY <1>0, <1>4, RequestShapes DEF Process, Sound
  <2>2. Numbered(orders, made)
    BY <2>1, ProcessedNumbered
  <2>3. book' = book /\ made' = made /\ request' = [request EXCEPT ![r] = q]
    BY <1>4 DEF Process
  <2>4. q \in Works /\ q.orders = orders
    <3>1. orders \in SUBSET Orders
      BY <2>2 DEF Numbered, Tidy
    <3> HIDE DEF orders, same
    <3>2. QED
      BY <2>1, <3>1 DEF Works
  <2>5. Sound(q, made)
    BY <2>2, <2>4, WorkIsSound
  <2> HIDE DEF q
  <2>6. QED
    BY <1>0, <2>3, <2>5, SameMade
<1>5. ASSUME NEW r \in Requests, SaveOrders(r) PROVE OrdersInv'
  <2> DEFINE q == [request[r] EXCEPT !.at = "answer"]
  <2>1. request[r] \in Works /\ Numbered(request[r].orders, made)
    BY <1>0, <1>5, RequestShapes DEF SaveOrders, Sound
  <2>2. book' = request[r].orders /\ made' = made /\ request' = [request EXCEPT ![r] = q]
    BY <1>5 DEF SaveOrders
  <2>3. q \in Works /\ q.orders = request[r].orders
    BY <2>1 DEF Works
  <2>4. Sound(q, made)
    BY <2>1, <2>3, WorkIsSound
  <2> HIDE DEF q
  <2>5. QED
    BY <1>0, <2>1, <2>2, <2>4, SameMade
<1>6. ASSUME NEW r \in Requests, Answer(r) PROVE OrdersInv'
  <2>1. request[r] \in Works /\ Numbered(request[r].orders, made)
    BY <1>0, <1>6, RequestShapes DEF Answer, Sound
  <2>2. PICK q \in {Idle, [request[r] EXCEPT !.at = "discard"]} :
          book' = book /\ made' = made /\ request' = [request EXCEPT ![r] = q]
    BY <1>6 DEF Answer
  <2>3. Sound(q, made)
    <3>1. CASE q = Idle
      BY <3>1, IdleIsSound
    <3>2. CASE q = [request[r] EXCEPT !.at = "discard"]
      <4>1. q \in Works /\ q.orders = request[r].orders
        BY <2>1, <3>2 DEF Works
      <4>2. QED
        BY <2>1, <4>1, WorkIsSound
    <3>3. QED
      BY <2>2, <3>1, <3>2
  <2>4. QED
    BY <1>0, <2>2, <2>3, SameMade
<1>7. ASSUME NEW r \in Requests, DiscardOrder(r) PROVE OrdersInv'
  <2>1. Numbered(request[r].orders, made)
    BY <1>0, <1>7 DEF DiscardOrder, Sound
  <2>2. book' \in SUBSET request[r].orders /\ made' = made /\ request' = [request EXCEPT ![r] = Idle]
    BY <1>7 DEF DiscardOrder
  <2>3. Numbered(book', made)
    BY <2>1, <2>2, FewerNumbered
  <2>4. QED
    BY <1>0, <2>2, <2>3, IdleIsSound, SameMade
<1>8. ASSUME NEW r \in Requests, NEW id, CancelOrder(r, id) PROVE OrdersInv'
  <2>1. PICK o \in book :
          /\ o.id = id /\ o.status = "pending"
          /\ request' = [request EXCEPT ![r] =
               [at |-> "cancel", orders |-> (book \ {o}) \cup {[o EXCEPT !.status = "cancelled"]}]]
    BY <1>8 DEF CancelOrder
  <2> DEFINE gone == [o EXCEPT !.status = "cancelled"]
             q == [at |-> "cancel", orders |-> (book \ {o}) \cup {gone}]
  <2>2. book' = book /\ made' = made /\ request' = [request EXCEPT ![r] = q]
    BY <1>8, <2>1 DEF CancelOrder
  <2>3. o \in Trades
    BY <1>0, <2>1 DEF Numbered, Tidy, Orders, Syncs
  <2>4. gone \in Orders /\ gone.id = o.id
    BY <2>3 DEF Trades, Orders
  <2> HIDE DEF gone
  <2>5. Numbered(q.orders, made)
    BY <1>0, <2>1, <2>4 DEF Numbered, Tidy, Single, Ids
  <2>6. Sound(q, made)
    BY <2>5 DEF Sound, RequestStates, Numbered, Tidy
  <2> HIDE DEF q
  <2>7. QED
    BY <1>0, <2>2, <2>6, SameMade
<1>9. ASSUME NEW r \in Requests, CancelWrites(r) PROVE OrdersInv'
  <2>1. Numbered(request[r].orders, made)
    BY <1>0, <1>9 DEF CancelWrites, Sound
  <2>2. book' = request[r].orders /\ made' = made /\ request' = [request EXCEPT ![r] = Idle]
    BY <1>9 DEF CancelWrites
  <2>3. QED
    BY <1>0, <2>1, <2>2, IdleIsSound, SameMade
<1>10. CASE UNCHANGED orderVars
  BY <1>10 DEF orderVars, OrdersInv
<1>11. QED
  BY <1>1, <1>2, <1>3, <1>4, <1>5, <1>6, <1>7, <1>8, <1>9, <1>10 DEF OrdersNext

LEMMA OrdersAlways == OrdersSpec => []OrdersInv
BY OrdersInvStarts, OrdersInvStep, PTL DEF OrdersSpec

\* Type correctness of the order book and its requests.
THEOREM OrdersTyped == OrdersSpec => []OrdersTypeOK
BY OrdersAlways, OrdersInvTypes, PTL

\* Whatever the requests have written over one another (create_order,
\* sync_positions, cancel_order and get_detail, which nothing locks), the
\* sanitized book has no order to sanitize, and replaying it skips and shortens
\* none: sanitize_invalid_filled_orders and replay_market_balance agree.
THEOREM SanitizedIsReplayed == OrdersSpec => []SanitizedBookIsReplayed
<1>1. OrdersInv => SanitizedBookIsReplayed
  <2> SUFFICES ASSUME OrdersInv PROVE SanitizedBookIsReplayed
    OBVIOUS
  <2>1. Tidy(Sanitized(book))
    BY SanitizedIds DEF OrdersInv, Numbered
  <2>2. Invalid(Sanitized(book)) = {}
    BY CleanChecks DEF OrdersInv, Numbered
  <2>3. QED
    BY <2>1, <2>2, CleanAddsUp DEF SanitizedBookIsReplayed
<1>2. QED
  BY <1>1, OrdersAlways, PTL

=============================================================================
