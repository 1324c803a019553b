------------------------------ MODULE PaperBook ------------------------------
(***************************************************************************)
(* Simulated execution and the position it keeps for one instrument:       *)
(* PaperExecutionEngine.simulate_fill (market and limit orders, partial    *)
(* fills, spread and slippage against the trader) and                      *)
(* PaperPosition.apply_fill (average price, realized profit, flips through *)
(* zero).  Prices and quantities are whole ticks and lots, of any sign:    *)
(* the quantity of an approval's payload reaches the order unvalidated     *)
(* (routers/approvals.py:72), so a purchase of minus two lots or of none   *)
(* is filled like any other.  Averages are exact fractions, never reduced, *)
(* so a broken identity is an error of the bookkeeping and not of          *)
(* rounding.                                                               *)
(*                                                                         *)
(* Source: services/paper-execution/paper_execution_service.               *)
(***************************************************************************)
EXTENDS Integers, Sequences, FiniteSetsExt

CONSTANTS
    Quantities,     \* order quantities: negative and zero ones too
    MarketPrices,
    LimitPrices,
    Costs,          \* spread and slippage of a fill, per unit
    MaxFills        \* bound: fills recorded

ASSUME PaperBookAssumption ==
    /\ Quantities \subseteq Int
    /\ MarketPrices \cup LimitPrices \cup Costs \subseteq Int
    /\ MaxFills \in Nat

VARIABLES
    position,   \* PaperPosition: quantity, avg_price, realized_pnl
    fills       \* PaperPortfolio.fills

bookVars == <<position, fills>>

Sides == {"BUY", "SELL"}

Orders == [type : {"MARKET", "LIMIT"}, side : Sides, quantity : Quantities,
           limit : LimitPrices]

FillRecords == [side : Sides, quantity : Int, price : Int]

-----------------------------------------------------------------------------
(* Fractions: a numerator and a positive denominator *)

Absolute(x) == IF x < 0 THEN -x ELSE x

Fraction(n, d) == [num |-> n, den |-> d]

Whole(n) == Fraction(n, 1)

Plus(a, b) == Fraction(a.num * b.den + b.num * a.den, a.den * b.den)

Times(n, a) == Fraction(n * a.num, a.den)

\* a divided by a non-zero integer.
Over(a, n) == IF n > 0 THEN Fraction(a.num, a.den * n)
              ELSE Fraction(-a.num, a.den * (-n))

Equal(a, b) == a.num * b.den = b.num * a.den

AtMost(a, b) == a.num * b.den <= b.num * a.den

-----------------------------------------------------------------------------
(* simulate_fill *)

Marketable(order, market) ==
    \/ order.type = "MARKET"
    \/ order.side = "BUY" /\ order.limit >= market
    \/ order.side = "SELL" /\ order.limit <= market

\* All of it, or between 60% and 99% of its size.
FillQuantities(q) ==
    LET size == Absolute(q)
        parts == {f \in 0 .. size : 60 * size <= 100 * f /\ 100 * f <= 99 * size}
    IN  {q} \cup {IF q < 0 THEN -f ELSE f : f \in parts}

FillPrice(side, market, cost) ==
    IF side = "BUY" THEN market + cost ELSE market - cost

-----------------------------------------------------------------------------
(* apply_fill *)

Signed(fill) == IF fill.side = "BUY" THEN fill.quantity ELSE -fill.quantity

Adds(pos, s) == pos.quantity = 0 \/ (pos.quantity > 0 <=> s > 0)

\* Mutant: weighted with the new total instead of the old quantity.
MutBlended(pos, s, price) ==
    LET total == pos.quantity + s IN
    [pos EXCEPT !.quantity = total,
                !.avg_price = IF total = 0 THEN @
                              ELSE Over(Plus(Times(total, @), Whole(price * s)), total)]

\* Opening or adding: the average price is blended.
Blended(pos, s, price) ==
    LET total == pos.quantity + s IN
    [pos EXCEPT !.quantity = total,
                !.avg_price =
                    IF total = 0 THEN @
                    ELSE Over(Plus(Times(pos.quantity, @), Whole(price * s)), total)]

\* What closing c units of the position at price realizes.
Realized(pos, c, price) ==
    LET gain == Plus(Whole(price), Times(-1, pos.avg_price))
    IN  Times(IF pos.quantity > 0 THEN c ELSE -c, gain)

\* Mutant: a flip keeps the old average price.
MutReduced(pos, s, price) ==
    LET left == pos.quantity + s
        closing == Min({Absolute(s), Absolute(pos.quantity)})
    IN  [quantity |-> left,
         avg_price |-> IF left = 0 THEN Whole(0) ELSE pos.avg_price,
         realized_pnl |-> Plus(pos.realized_pnl, Realized(pos, closing, price))]

\* Reducing or flipping: profit on the closed part; what is left of a flip
\* was opened at the fill's price.
Reduced(pos, s, price) ==
    LET left == pos.quantity + s
        closing == Min({Absolute(s), Absolute(pos.quantity)})
        flipped == left # 0 /\ ~(left > 0 <=> pos.quantity > 0)
    IN  [quantity |-> left,
         avg_price |-> IF left = 0 THEN Whole(0)
                       ELSE IF flipped THEN Whole(price) ELSE pos.avg_price,
         realized_pnl |-> Plus(pos.realized_pnl, Realized(pos, closing, price))]

Applied(pos, fill) ==
    LET s == Signed(fill) IN
    IF Adds(pos, s) THEN Blended(pos, s, fill.price) ELSE Reduced(pos, s, fill.price)

-----------------------------------------------------------------------------
Flat == [quantity |-> 0, avg_price |-> Whole(0), realized_pnl |-> Whole(0)]

Fractions == [num : Int, den : Nat \ {0}]

BookTypeOK ==
    /\ position \in [quantity : Int, avg_price : Fractions, realized_pnl : Fractions]
    /\ fills \in Seq(FillRecords)

BookInit ==
    /\ position = Flat
    /\ fills = << >>

\* PaperExecutionAdapter.submit_order.  An order the market does not reach
\* changes nothing: nobody keeps it.
SubmitOrder(order, market) ==
    /\ Len(fills) < MaxFills
    /\ Marketable(order, market)
    /\ \E q \in FillQuantities(order.quantity), cost \in Costs :
         LET fill == [side |-> order.side, quantity |-> q,
                      price |-> FillPrice(order.side, market, cost)] IN
         /\ position' = Applied(position, fill)
         /\ fills' = Append(fills, fill)

BookNext ==
    \E order \in Orders, market \in MarketPrices : SubmitOrder(order, market)

BookSpec == BookInit /\ [][BookNext]_bookVars

-----------------------------------------------------------------------------
(* Properties *)

\* The sum of a sequence of numbers.
Total(numbers) ==
    LET upto[n \in 0 .. Len(numbers)] == IF n = 0 THEN 0 ELSE upto[n - 1] + numbers[n]
    IN  upto[Len(numbers)]

\* What the fills moved into the position, and what was paid for it.
Bought == Total([i \in DOMAIN fills |-> Signed(fills[i])])
Paid == Total([i \in DOMAIN fills |-> Signed(fills[i]) * fills[i].price])

\* Which way a quantity goes: a negative purchase is a sale.
Heading(n) == IF n > 0 THEN "long" ELSE IF n < 0 THEN "short" ELSE "flat"

\* The prices of the fills that went the way of the open position.
EntryPrices ==
    {fills[i].price :
        i \in {n \in DOMAIN fills : Heading(Signed(fills[n])) = Heading(position.quantity)}}

(***************************************************************************)
(* However fills open, add to, reduce, close and flip the position, those  *)
(* of nothing and of less than nothing among them, it holds what they      *)
(* bought less what they sold, and its realized profit less the cost of    *)
(* what is open is the cash they brought in: no sequence of fills makes or *)
(* loses money in the bookkeeping (apply_fill).  The average price of what *)
(* is open lies between prices of fills that moved the position its way:   *)
(* close_trade takes it for the entry price of the trade.                  *)
(***************************************************************************)
FillsExplainPosition ==
    /\ position.quantity = Bought
    /\ Equal(Plus(position.realized_pnl, Times(-position.quantity, position.avg_price)),
             Whole(-Paid))
    /\ position.quantity # 0 =>
         \E low, high \in EntryPrices :
            /\ AtMost(Whole(low), position.avg_price)
            /\ AtMost(position.avg_price, Whole(high))
=============================================================================
