----------------------------- MODULE TradeRules -----------------------------
(***************************************************************************)
(* The two simulations that the rankings and the studies are judged by:     *)
(* Simulate of internal/strategy/trade.go, one lot bought at the open after *)
(* the signal, and simulateTrade of internal/bottomstudy/trading.go, up to  *)
(* Batches lots and stop decisions that latch.  Shares bought today cannot  *)
(* be sold today, a session locked at its lower limit sells nothing, and    *)
(* the days between are daily bars: what happened within one is not known.  *)
(*                                                                         *)
(* A bar is [open, high, low, close, traded]; prices are ticks.  Slippage   *)
(* is Slip ticks, the fees of an order are Fee, gains are percent.         *)
(***************************************************************************)
EXTENDS Integers, FiniteSets, SequencesExt, FiniteSetsExt

CONSTANTS
    Slip, Fee,
    Limit,          \* ticks of the daily price limit
    Gap,            \* MaxEntryGapPct, in ticks
    Cash,           \* TradeCash
    Batches,        \* TradePolicy.Batches
    Horizon,        \* sellable days
    Loss, Goal      \* stop and target, percent

CONSTANT Bars       \* the sessions that are tried

\* Bars are read with prices that are positive and inside the day's range (market.go).
ASSUME TradeAssumption ==
    /\ {Slip, Fee, Limit, Gap, Cash, Horizon, Loss, Goal} \subseteq Nat /\ Batches \in Nat \ {0}
    /\ \A b \in Bars : /\ {b.open, b.high, b.low, b.close} \subseteq Nat \ {0} /\ b.traded \in BOOLEAN
                       /\ b.low <= b.open /\ b.open <= b.high /\ b.low <= b.close /\ b.close <= b.high

\* What the elements of v add up to.
Total(v) ==
    LET sum[i \in 0 .. Len(v)] == IF i = 0 THEN 0 ELSE sum[i - 1] + v[i] IN sum[Len(v)]

mark(price) == price - Slip
marketFill(b, price) == Max({b.low, mark(price)})
onePrice(b) == b.high = b.low

\* lockedDown and sellBlocked: nothing trades, or only at the lower limit.
lockedDown(b, previous) == ~b.traded \/ (onePrice(b) /\ b.low <= previous.close - Limit)

-----------------------------------------------------------------------------
(* A position: lots [n, bought], what was paid and what was got back. *)

NoPosition == [lots |-> <<>>, invested |-> 0, realized |-> 0]

Lots(p, day, sellable) ==
    Total([i \in 1 .. Len(p.lots) |-> IF sellable /\ p.lots[i].bought >= day THEN 0 ELSE p.lots[i].n])
All(p) == Lots(p, 0, FALSE)

proceeds(price, n) == IF n = 0 THEN 0 ELSE price * n - Fee
purchaseCost(price, n) == price * n + Fee

\* position.net against a goal, in percent.
Worth(p, price) == 100 * (p.realized + proceeds(price, All(p)))
Reaches(p, price, goal) == Worth(p, price) >= p.invested * (100 + goal)
Loses(p, price) == Worth(p, price) <= p.invested * (100 - Loss)

\* What one percent of all shares, at the price sought, must bring.
Needed(p, goal) == p.invested * (100 + goal) - 100 * (p.realized - Fee)

\* position.price: the least price that reaches the goal, which the code closes in on.
priceFor(p, goal) == Max({0, 0 - ((0 - Needed(p, goal)) \div (100 * All(p)))})

\* Mutant of stopPrice: the trigger itself is taken for the fill.
stopPriceAtFill(p) == Max({Slip, Needed(p, 0 - Loss) \div (100 * All(p)) + 1})

\* position.stopPrice: the least trigger whose fill, after slippage and ticks, stays
\* inside the loss.
stopPrice(p) == Slip + Max({0, Needed(p, 0 - Loss) \div (100 * All(p)) + 1})

\* position.buy: as many shares as the budget pays for, at a price the bar has.
shares(budget, price) == IF budget < price + Fee THEN 0 ELSE (budget - Fee) \div price

bought(p, b, day, budget) ==
    LET n == shares(budget, b.open + Slip) IN
    IF n = 0 \/ b.open + Slip > b.high THEN p
    ELSE [p EXCEPT !.lots = Append(@, [n |-> n, bought |-> day]),
                   !.invested = @ + purchaseCost(b.open + Slip, n)]

\* position.sell: the lots of earlier days.
sold(p, day, price) ==
    [p EXCEPT !.lots = [i \in 1 .. Len(@) |-> IF @[i].bought < day THEN [@[i] EXCEPT !.n = 0] ELSE @[i]],
              !.realized = @ + proceeds(price, Lots(p, day, TRUE))]

-----------------------------------------------------------------------------
(* simulateTrade. *)

NoTrade == [status |-> "entry_skipped", p |-> NoPosition, filled |-> 0, stop |-> 0,
            reason |-> "stop", blockedByT1 |-> FALSE, over |-> FALSE, fills |-> <<>>]

Sell(t, b, day, price, why) ==
    IF Lots(t.p, day, TRUE) = 0 THEN t
    ELSE [t EXCEPT !.p = sold(@, day, price),
                   !.fills = Append(@, [day |-> day, side |-> "sell", price |-> price,
                                        n |-> Lots(t.p, day, TRUE), reason |-> why])]

\* finish, when nothing is left.
SoldOut(t, why) ==
    IF All(t.p) = 0 THEN [t EXCEPT !.status = why, !.over = TRUE] ELSE t

\* Decisions at the opening price, before any purchase.  A stop that is decided
\* stays decided: the day is over once what can be sold was.
AtOpen(t, b, previous, day) ==
    LET gapped == t.stop = 0 /\ Loss > 0 /\ b.open <= stopPrice(t.p)
        after == IF gapped THEN [t EXCEPT !.stop = day, !.reason = "stop_gap"] ELSE t
        free == ~lockedDown(b, previous)
    IN IF after.stop # 0
       THEN [SoldOut(IF free THEN Sell(after, b, day, marketFill(b, b.open), after.reason) ELSE after,
                      after.reason) EXCEPT !.over = TRUE]
       ELSE IF free /\ Lots(t.p, day, TRUE) = All(t.p) /\ Reaches(t.p, mark(b.open), Goal)
       THEN SoldOut(Sell(t, b, day, marketFill(b, b.open), "target"), "target")
       ELSE t

\* A purchase: the first one the day after the signal, one more after each further
\* signal that leaves a sellable day.
MayBuy(t, day, again) == t.filled < Batches /\ (day = 1 \/ (day <= Horizon /\ again))

Buying(t, b, previous, day) ==
    LET apart == IF b.open > previous.close THEN b.open - previous.close ELSE previous.close - b.open
        budget == Min({Cash \div Batches, Cash - t.p.invested})
        p == bought(t.p, b, day, budget)
    IN IF ~b.traded \/ onePrice(b) \/ apart > Gap \/ p = t.p THEN t
       ELSE [t EXCEPT !.p = p, !.filled = @ + 1,
                      !.status = IF t.filled = 0 THEN "unresolved" ELSE @,
                      !.fills = Append(@, [day |-> day, side |-> "buy", price |-> b.open + Slip,
                                           n |-> Last(p.lots).n, reason |-> "signal"])]

\* What the rest of the bar decides: the stop first, although the high may have come
\* before the low.
Within(t, b, previous, day) ==
    LET free == ~lockedDown(b, previous)
        sellable == Lots(t.p, day, TRUE)
        highHit == Reaches(t.p, mark(b.high), Goal)
        stopHit == Loss > 0 /\ b.low <= stopPrice(t.p)
        stopped == [t EXCEPT !.stop = day, !.blockedByT1 = sellable < All(t.p)]
    IN IF stopHit
       THEN SoldOut(IF free THEN Sell(stopped, b, day, marketFill(b, Min({b.high, stopPrice(t.p)})),
                                       t.reason) ELSE stopped, t.reason)
       ELSE IF free /\ highHit /\ sellable = All(t.p)
       THEN SoldOut(Sell(t, b, day, priceFor(t.p, Goal), "target"), "target")
       ELSE IF day = Horizon + 1 /\ free /\ sellable = All(t.p)
       THEN SoldOut(Sell(t, b, day, marketFill(b, b.close), "timeout"), "timeout")
       ELSE t

\* One turn of the loop: the bar of a day, whether the day before had another signal
\* (again), and what is known of it: an "invalid" day ends the trade, an "unknown" one
\* only if something would be bought.  over marks a day, then a trade, as decided.
Session(t, b, previous, day, again, known) ==
    LET opened == IF All(t.p) > 0 THEN AtOpen(t, b, previous, day) ELSE t
        filled == IF MayBuy(t, day, again) THEN Buying(opened, b, previous, day) ELSE opened
    IN CASE known = "invalid" -> [t EXCEPT !.status = "invalid", !.over = TRUE]
         [] known # "invalid" /\ opened.over -> [opened EXCEPT !.over = All(opened.p) = 0]
         [] known # "invalid" /\ ~opened.over ->
                IF known = "unknown" /\ MayBuy(t, day, again)
                THEN [opened EXCEPT !.status = "missing_add_context", !.over = TRUE]
                ELSE IF day = 1 /\ filled.filled = 0 THEN [filled EXCEPT !.over = TRUE]
                ELSE Within(filled, b, previous, day)

-----------------------------------------------------------------------------
(* Simulate: an outcome is [status, plan, day, price]. *)

\* NewPlan: bought at fill, with the prices that end the trade.
NewPlan(paid) ==
    LET n == shares(Cash, paid)
        p == [NoPosition EXCEPT !.lots = <<[n |-> n, bought |-> 1]>>, !.invested = purchaseCost(paid, n)]
    IN [p |-> p, fill |-> paid,
        stop |-> IF n = 0 THEN 0 ELSE stopPrice(p), profit |-> IF n = 0 THEN 0 ELSE priceFor(p, Goal)]

Outcome(status, plan, day, price) == [status |-> status, plan |-> plan, day |-> day, price |-> price]
Unresolved == Outcome("unresolved", [stop |-> 0], 0, 0)

\* The first session: what keeps the lot from being bought, in this order.
Entered(b, signal, known) ==
    LET apart == IF b.open > signal.close THEN b.open - signal.close ELSE signal.close - b.open
        plan == NewPlan(b.open + Slip)
        Refuse(why) == Outcome(why, plan, 0, 0)
    IN IF known = "invalid" THEN Refuse("missing_entry_session")
       ELSE IF ~b.traded \/ apart > Gap \/ onePrice(b) THEN Refuse("entry_skipped")
       ELSE IF All(plan.p) = 0 THEN Refuse("cash_insufficient")
       ELSE IF plan.stop >= plan.fill THEN Refuse("risk_budget_insufficient")
       ELSE IF plan.fill > b.high THEN Refuse("entry_skipped")
       ELSE [Unresolved EXCEPT !.plan = plan]

\* The exit of one sellable session; a target needs a price above it, not at it.
exitOf(h, b, previous, day) ==
    LET plan == h.plan
        target == b.high > plan.profit /\ plan.profit <= previous.close + Limit
        stop == b.low <= plan.stop /\ plan.stop >= previous.close - Limit
        Exit(why, price) == Outcome(why, plan, day, price)
    IN CASE b.open <= plan.stop -> Exit("stop_gap", marketFill(b, b.open))
         [] b.open > plan.stop /\ b.open >= plan.profit /\ target ->
                Exit("target", Max({plan.profit, marketFill(b, b.open)}))
         [] b.open > plan.stop /\ ~(b.open >= plan.profit /\ target) ->
                IF stop THEN Exit("stop", marketFill(b, plan.stop))
                ELSE IF target THEN Exit("target", plan.profit)
                ELSE IF day = Horizon + 1 THEN Exit("timeout", marketFill(b, b.close))
                ELSE h

Held(h, b, previous, day, known) ==
    IF known = "invalid" THEN [h EXCEPT !.status = "missing_exit_session"]
    ELSE IF lockedDown(b, previous) THEN h
    ELSE exitOf(h, b, previous, day)

-----------------------------------------------------------------------------
(* Both, one session after the other. *)

VARIABLES
    bars,       \* the signal's and the ones after it
    trade,      \* the state of simulateTrade
    outcome     \* the state of Simulate

tradeVars == <<bars, trade, outcome>>

TradeInit == bars \in {<<b>> : b \in Bars} /\ trade = NoTrade /\ outcome = Unresolved

NextBar(b, again, known) ==
    LET day == Len(bars) previous == Last(bars) IN
    /\ day <= Horizon + 1
    /\ bars' = Append(bars, b)
    /\ trade' = IF trade.over THEN trade ELSE Session(trade, b, previous, day, again, known)
    /\ outcome' = IF outcome.status # "unresolved" THEN outcome
                  ELSE IF day = 1 THEN Entered(b, previous, known)
                  ELSE Held(outcome, b, previous, day, known)

TradeNext == \E b \in Bars, again \in BOOLEAN, known \in {"known", "unknown", "invalid"} :
                NextBar(b, again, known)

TradeSpec == TradeInit /\ [][TradeNext]_tradeVars

-----------------------------------------------------------------------------
(* Properties. *)

BarOf(day) == bars[day + 1]
TotalOf(t, side) ==
    Total([i \in 1 .. Len(t.fills) |-> IF t.fills[i].side = side THEN t.fills[i].n ELSE 0])
HeldBefore(t, day) ==
    Total([i \in 1 .. Len(t.fills) |-> IF t.fills[i].day >= day THEN 0
                                       ELSE IF t.fills[i].side = "buy" THEN t.fills[i].n ELSE 0 - t.fills[i].n])
Exits == {"stop", "stop_gap", "target", "timeout"}

\* Nothing is sold on the day it was bought or in a locked session, and a target's
\* fill may leave the day's range by the slippage at most.
FillsArePossible(t) ==
    \A i \in 1 .. Len(t.fills) :
        LET f == t.fills[i] b == BarOf(f.day) IN
        /\ f.price <= b.high /\ f.price >= b.low - (IF f.reason = "target" THEN Slip ELSE 0)
        /\ f.side = "sell" => f.n <= HeldBefore(t, f.day) /\ ~lockedDown(b, BarOf(f.day - 1))

\* A trade is over when everything was sold, and only then; after a stop was decided
\* nothing is bought.
StopIsFinal(t) ==
    /\ t.status \in Exits <=> t.filled > 0 /\ TotalOf(t, "buy") = TotalOf(t, "sell")
    /\ \A i \in 1 .. Len(t.fills) : t.stop # 0 /\ t.fills[i].side = "buy" => t.fills[i].day <= t.stop

\* An ordinary stop's fill stays inside the loss; gaps and T+1 can exceed it.
StopIsBounded(t) ==
    t.status = "stop" /\ Last(t.fills).day = t.stop /\ ~t.blockedByT1 => ~Loses(t.p, 0)

\* What the studies report of a trade could have been done: no fill outside the day's
\* prices, on the day of the purchase or at the lower limit; a decided stop is never
\* taken back, and away from gaps and T+1 the loss stays inside its bound
\* ("an ordinary trigger fill stays strictly inside the nominal bound; gaps and T+1
\* can exceed it", simulateTrade).  So for Simulate's single lot.
TradeIsPossible ==
    /\ FillsArePossible(trade) /\ StopIsFinal(trade) /\ StopIsBounded(trade)
    /\ outcome.status \in Exits =>
        /\ outcome.day > 1 /\ ~lockedDown(BarOf(outcome.day), BarOf(outcome.day - 1))
        /\ outcome.price \in BarOf(outcome.day).low .. BarOf(outcome.day).high
        /\ outcome.status = "stop" => ~Loses(outcome.plan.p, outcome.price)
=============================================================================
