--------------------------- MODULE ManagePosition ---------------------------
(***************************************************************************)
(* The builtin method polymarket_manage_position: a run reads what an      *)
(* account holds of one market and what rests there, sells what it should  *)
(* not hold and buys what it lacks, one call to the exchange after         *)
(* another.  Between its calls orders fill, prices move and others trade,  *)
(* and what it reads again replaces only some of what it worked out.       *)
(*                                                                         *)
(* Shares are whole numbers; estimates, quotes and books are the few       *)
(* classes that decide a branch.                                           *)
(***************************************************************************)
EXTENDS Integers, FiniteSetsExt

CONSTANTS
    MinShares,      \* builtinPolymarketMinOrderShares
    Theses,         \* what a caller asks for: cap, confidence, probability
    Views,          \* what the quotes and the book of a moment amount to
    Funds,          \* the balance: shares it affords, more than a quarter of the AUM
    Weathers,       \* what may happen during a run: nothing, fills, or anything
    Held,           \* the shares an account may begin with, of either side
    MaxRuns, MaxTrades

Sides == {"yes", "no"}

\* A thesis: at most cap shares, of which level halves by confidence; whether
\* yes is likely; over once the market's day has passed.  A view: the better
\* side, whether its edge is 0.03, the tier of a buy its edge reaches (or
\* "thin", or "none"), the halves of the gap worth buying, whether the book
\* is too wide or thin for tier one, and a price.
PositionAssumption ==
    /\ MinShares \in Nat \ {0} /\ MaxRuns \in Nat /\ MaxTrades \in Nat
    /\ Theses \subseteq [cap : Nat, level : 0..2, likely : BOOLEAN, over : BOOLEAN]
    /\ Views \subseteq [side : Sides, strong : BOOLEAN, grade : {"none", "thin", "two", "one"},
                        part : 0..2, wide : BOOLEAN, price : Nat]
    /\ \A v \in Views : (v.grade = "none" <=> v.part = 0) /\ (v.grade = "one" => v.strong)
    /\ Funds \subseteq [afford : Nat, rich : BOOLEAN]
    /\ Held \subseteq Nat
    /\ Weathers \subseteq {"calm", "fills", "storm"}

VARIABLES
    held, orders, market,   \* the account and the market, on the exchange
    note,                   \* the latest thesis note
    run,                    \* the run: where it is, what it was given, read and worked out
    last,                   \* history: what the run before left, if nothing happened since
    runs, trades            \* how many runs there were, and trades of others

exchange == <<held, orders, market, trades>>
vars == <<exchange, note, run, last, runs>>

Opposite(s) == IF s = "yes" THEN "no" ELSE "yes"
Smaller(a, b) == IF a < b THEN a ELSE b
Larger(a, b) == IF a > b THEN a ELSE b
Of(os, s, way) == {o \in os : o.side = s /\ o.way = way}
Left(os) == MapThenSumSet(LAMBDA o : o.left, os)
Sellable(shares, os, s) == shares[s] - Left(Of(os, s, "sell"))

NoNote == [side |-> "none", level |-> 0, likely |-> FALSE, recent |-> FALSE]
NoLast == [is |-> FALSE]
AnyThesis == CHOOSE t \in Theses : TRUE
AnyFunds == CHOOSE f \in Funds : TRUE
AnyView == CHOOSE v \in Views : TRUE
AtRest ==
    [pc |-> "idle", then |-> "start", thesis |-> AnyThesis, funds |-> AnyFunds, weather |-> "calm",
     held |-> [s \in Sides |-> 0], orders |-> {}, view |-> AnyView,
     doomed |-> {}, reload |-> FALSE,
     had |-> 0, gap |-> 0, blocked |-> FALSE, grade |-> "none", wants |-> FALSE, tight |-> FALSE,
     side |-> "yes", asked |-> 0, tried |-> 0, back |-> "idle",
     tier |-> 0, price |-> 0, want |-> 0, bought |-> 0]

-----------------------------------------------------------------------------
(***************************************************************************)
(* What the run works out.                                                 *)
(***************************************************************************)
\* The latest note weakens a thesis on its own side: less confidence keeps
\* less of the position, and a lower probability also blocks adding to it.
Remembered(s) == note.recent /\ note.side = s
Falls(s) ==
    /\ Remembered(s)
    /\ note.likely # run.thesis.likely /\ note.likely = (s = "yes")
Weakened(s) == Remembered(s) /\ (Falls(s) \/ run.thesis.level < note.level)

\* deriveBuiltinPolymarketTargetPosition
Target(s) == (run.thesis.cap * run.thesis.level) \div (IF Weakened(s) THEN 4 ELSE 2)

Side == run.view.side
\* More was held than the target that was read last allows.
Excess == run.had > Target(Side)

\* builtinPolymarketBuyOrderNeedsUpdate
NeedsUpdate(o) == o.price # run.price \/ o.tier # run.tier
Aligned == {o \in Of(run.orders, Side, "buy") : ~NeedsUpdate(o)}

-----------------------------------------------------------------------------
(***************************************************************************)
(* Steps of the run.                                                       *)
(***************************************************************************)
At(p) == run.pc = p
Goes(r, to) == [r EXCEPT !.pc = to]
Local(r) == run' = r /\ UNCHANGED <<exchange, note, last, runs>>

\* cancelOrders, and reloadState where the code calls it after.
Cancels(r, os, again, to) ==
    IF os = {} THEN Goes(r, to)
    ELSE [r EXCEPT !.pc = "cancel", !.doomed = os, !.reload = again, !.then = to]
Reloads(r, to) == [r EXCEPT !.pc = "positions", !.then = to]

\* A run is called; the note may be old by now, and the market another.
Begin(t, f, w, v) ==
    /\ At("idle") /\ runs < MaxRuns
    /\ run' = [AtRest EXCEPT !.pc = "positions", !.thesis = t, !.funds = f, !.weather = w]
    /\ market' = v /\ runs' = runs + 1
    /\ \E r \in {note.recent, FALSE} : note' = [note EXCEPT !.recent = r]
    /\ UNCHANGED <<held, orders, trades, last>>

LoadPositions == At("positions") /\ Local([run EXCEPT !.pc = "orders", !.held = held])

LoadOrders ==
    At("orders") /\ Local([run EXCEPT !.pc = run.then, !.orders = orders, !.view = market])

Cancel(o) ==
    /\ At("cancel") /\ o \in run.doomed
    /\ \E x \in orders : x.id = o.id
    /\ orders' = {x \in orders : x.id # o.id}
    /\ run' = [run EXCEPT !.doomed = @ \ {o}]
    /\ UNCHANGED <<held, market, trades, note, last, runs>>

Cancelled ==
    /\ At("cancel") /\ run.doomed = {}
    /\ Local(IF run.reload THEN Reloads(run, run.then) ELSE Goes(run, run.then))

\* Past the market's day buys are withdrawn; else those of the other side.
Start ==
    /\ At("start")
    /\ Local(IF run.thesis.over
             THEN Cancels(run, {o \in run.orders : o.way = "buy"}, FALSE, "end")
             ELSE Cancels(run, Of(run.orders, Opposite(Side), "buy"), TRUE, "plan"))

\* placeSell: a sale that needs locked shares, or nearly all of them,
\* withdraws the sells that lock them first.
Sells(r, s, n, back) ==
    LET asks == [r EXCEPT !.side = s, !.asked = n, !.back = back] IN
    IF r.held[s] = 0 THEN Goes(r, back)
    ELSE IF 5 * n >= 4 * r.held[s] \/ n > Sellable(r.held, r.orders, s)
         THEN Cancels(asks, Of(r.orders, s, "sell"), TRUE, "sell")
         ELSE Goes(asks, "sell")

Plan ==
    /\ At("plan")
    /\ LET gap == Larger(Target(Side) - run.held[Side], 0) IN
       Local(Sells([run EXCEPT !.had = run.held[Side], !.gap = gap,
                               !.blocked = Falls(Side) /\ gap > 0],
                   Opposite(Side), run.held[Opposite(Side)], "trim"))

Trim ==
    /\ At("trim")
    /\ Local(IF Excess THEN Sells(run, Side, run.had - Target(Side), "decide")
                       ELSE Goes(run, "decide"))

\* The exchange takes an order under an id of its own, a sell if the account
\* holds the shares and no other sell locks them.
Takes(side, way, n, tier, price) ==
    LET ids == {o.id : o \in orders \cup run.orders \cup run.doomed} IN
    orders' = orders \cup {[id |-> 1 + Max(ids \cup {0}), side |-> side, way |-> way, left |-> n,
                            tier |-> tier, price |-> price]}
Fits(s, n) == n <= Sellable(held, orders, s)

ForSale == Smaller(run.asked, Sellable(run.held, run.orders, run.side))
TooFewToSell == ForSale < MinShares /\ Local(Goes(run, run.back))
Accepted ==
    /\ ForSale >= MinShares /\ Fits(run.side, ForSale)
    /\ Takes(run.side, "sell", ForSale, 0, 0) /\ run' = Goes(run, run.back)
    /\ UNCHANGED <<held, market, trades, note, last, runs>>

Sell ==
    /\ At("sell")
    /\ \/ TooFewToSell \/ Accepted
       \/ /\ ForSale >= MinShares /\ ~Fits(run.side, ForSale)
          /\ Local(Reloads([run EXCEPT !.tried = ForSale], "resell"))

Resell ==
    /\ At("resell")
    /\ Local(Cancels(run, Of(run.orders, run.side, "sell"), TRUE, "retry"))

\* The same size again, or none, is not tried: the run fails.
Hopeless == ForSale <= 0 \/ ForSale = run.tried
Retry == At("retry") /\ ~Hopeless /\ (TooFewToSell \/ Accepted)

\* Buys are withdrawn that the edge, the gap or the thesis no longer supports.
Decide ==
    /\ At("decide")
    /\ LET wants == run.gap > 0 /\ ~run.blocked /\ run.view.part > 0
           tight == ~run.view.strong /\ wants /\ run.view.grade = "two" /\ run.funds.rich
           r == [run EXCEPT !.grade = run.view.grade, !.wants = wants, !.tight = tight]
       IN Local(IF wants /\ (run.view.strong \/ tight) THEN Goes(r, "unlock")
                ELSE Cancels(r, Of(run.orders, Side, "buy"), FALSE, "unlock"))

Unlock ==
    /\ At("unlock")
    /\ Local(IF (run.view.strong \/ run.tight) /\ run.held[Side] > 0 /\ ~Excess
             THEN Cancels(run, Of(run.orders, Side, "sell"), TRUE, "terms")
             ELSE Goes(run, "terms"))

\* The edge is that of the plan; the book, the price and the share of the gap
\* are those read last.
Terms ==
    /\ At("terms")
    /\ LET tier == IF run.grade = "one" /\ ~run.view.wide THEN 1
                   ELSE IF run.grade = "two" /\ run.funds.rich THEN 2 ELSE 0
           part == (run.gap * run.view.part) \div 2
           want == IF run.funds.afford > 0 THEN Smaller(part, run.funds.afford) ELSE part
       IN Local(IF tier = 0 \/ ~run.wants THEN Goes(run, "end")
                ELSE [run EXCEPT !.pc = "stale", !.tier = tier, !.price = run.view.price, !.want = want])

Stale ==
    /\ At("stale")
    /\ Local(Cancels(run, Of(run.orders, Side, "buy") \ Aligned, TRUE, "oversized"))

Oversized ==
    /\ At("oversized")
    /\ Local(IF Left(Aligned) > run.want THEN Cancels(run, Aligned, TRUE, "buy") ELSE Goes(run, "buy"))

\* Fault: what the aligned orders would buy is bought again.
MissingWhole == Smaller(run.want, run.funds.afford)

\* prepareBuySize, and the order for what the aligned ones lack.
Missing == Smaller(run.want - Left(Aligned), run.funds.afford)
Buy ==
    /\ At("buy")
    /\ \/ Missing < MinShares /\ Local(Goes(run, "end"))
       \/ /\ Missing >= MinShares
          /\ Takes(Side, "buy", Missing, run.tier, run.price)
          /\ run' = [run EXCEPT !.pc = "end", !.bought = Missing]
          /\ UNCHANGED <<held, market, trades, note, last, runs>>
       \/ Missing >= MinShares /\ run.weather # "calm" /\ Local(Goes(run, "end"))   \* refused

\* The run returns, and its note is written: on side s, unless the market has
\* too little volume or the write fails.
Returns(s, left) ==
    /\ run' = AtRest /\ last' = left
    /\ note' \in {note, [side |-> s, level |-> run.thesis.level, likely |-> run.thesis.likely,
                         recent |-> TRUE]}
    /\ UNCHANGED <<exchange, runs>>

Leaves == [is |-> TRUE, thesis |-> run.thesis, funds |-> run.funds, view |-> run.view,
           target |-> Target(Side)]
Return == At("end") /\ Returns(Side, IF run.weather = "calm" THEN Leaves ELSE NoLast)

\* A read, a cancel or an order that fails ends the run; so does a market
\* without a price at the first read.
First == run.then = "start" /\ run.pc \in {"positions", "orders"}
GoneOrder == At("cancel") /\ \E o \in run.doomed : \A x \in orders : x.id # o.id
Fail ==
    /\ \/ At("retry") /\ Hopeless
       \/ At("retry") /\ ~Fits(run.side, ForSale)
       \/ GoneOrder
       \/ /\ run.weather # "calm"
          /\ run.pc \in {"positions", "orders", "cancel", "sell", "retry", "decide", "terms", "buy"}
    /\ Returns(IF ~First THEN Side ELSE IF run.thesis.likely THEN "yes" ELSE "no", NoLast)

-----------------------------------------------------------------------------
(***************************************************************************)
(* What happens meanwhile.                                                 *)
(***************************************************************************)
Meanwhile == At("idle") \/ run.weather # "calm"

Fill(o, n) ==
    /\ Meanwhile /\ n \in {o.left, o.left \div 2} \ {0}
    /\ orders' = (orders \ {o}) \cup (IF n = o.left THEN {} ELSE {[o EXCEPT !.left = @ - n]})
    /\ held' = [held EXCEPT ![o.side] = IF o.way = "buy" THEN @ + n ELSE @ - n]
    /\ last' = NoLast
    /\ UNCHANGED <<market, trades, note, run, runs>>

Others ==
    /\ At("idle") \/ run.weather = "storm"
    /\ trades < MaxTrades
    /\ trades' = trades + 1 /\ last' = NoLast
    /\ UNCHANGED <<held, note, run, runs>>

\* The legacy form of the method, called by others: it places what it is
\* told, or cancels it.
LegacyPlace(s, price) ==
    /\ Others /\ UNCHANGED market
    /\ \/ Takes(s, "buy", MinShares, 1, price)
       \/ Fits(s, MinShares) /\ Takes(s, "sell", MinShares, 0, 0)
LegacyCancel(o) == Others /\ orders' = orders \ {o} /\ UNCHANGED market
MarketMoves(v) == Others /\ ~At("idle") /\ market' = v /\ UNCHANGED orders

-----------------------------------------------------------------------------
Rests(id, s, way, tier, price) ==
    [id |-> id, side |-> s, way |-> way, left |-> MinShares, tier |-> tier, price |-> price]
Resting ==
    {os \in SUBSET {Rests(1, "no", "buy", 1, 1), Rests(2, "yes", "sell", 0, 0)} :
       \A s \in Sides : Sellable(held, os, s) >= 0}
Init ==
    /\ held \in [Sides -> Held] /\ orders \in Resting /\ market = AnyView
    /\ note = NoNote /\ run = AtRest /\ last = NoLast /\ runs = 0 /\ trades = 0

Steps ==
    \/ LoadPositions \/ LoadOrders \/ Cancelled \/ Start \/ Plan \/ Trim \/ Sell \/ Resell \/ Retry
    \/ Decide \/ Unlock \/ Terms \/ Stale \/ Oversized \/ Buy \/ Return \/ Fail
    \/ \E o \in run.doomed : Cancel(o)

Next ==
    \/ \E t \in Theses, f \in Funds, w \in Weathers, v \in Views : Begin(t, f, w, v)
    \/ Steps
    \/ \E o \in orders : \/ \E n \in 1..o.left : Fill(o, n)
                          \/ LegacyCancel(o)
    \/ \E v \in Views : MarketMoves(v) \/ \E s \in Sides : LegacyPlace(s, v.price)

Spec == Init /\ [][Next]_vars

-----------------------------------------------------------------------------
(***************************************************************************)
(* Properties.                                                             *)
(***************************************************************************)
Order == [id : Nat, side : Sides, way : {"buy", "sell"}, left : Nat, tier : 0..2, price : Nat]
PositionTypeOK ==
    /\ held \in [Sides -> Nat] /\ orders \subseteq Order
    /\ \A o, x \in orders : o.id = x.id => o = x
    /\ run.orders \subseteq Order /\ run.doomed \subseteq Order
    /\ run.want \in Nat /\ run.gap \in Nat /\ run.bought \in Nat

Ended == At("end") /\ ~run.thesis.over
Calm == run.weather = "calm"
Buys(s) == Left(Of(orders, s, "buy"))
Sales(s) == Left(Of(orders, s, "sell"))

\* Orders may fill while a run works, but unless others trade or prices move it
\* leaves no order that buys the other side, and no side on which the account
\* both buys and sells; past the market's day it leaves no buys.
NeverAgainstItself ==
    At("end") /\ run.weather # "storm"
        => IF run.thesis.over THEN \A s \in Sides : Buys(s) = 0
           ELSE Buys(Opposite(Side)) = 0 /\ (Buys(Side) = 0 \/ Sales(Side) = 0)

\* What an undisturbed run should not hold is for sale, but for less than the
\* least order.
ExcessIsForSale ==
    Ended /\ Calm => /\ held[Opposite(Side)] - Sales(Opposite(Side)) < MinShares
                     /\ held[Side] - Sales(Side) < Target(Side) + MinShares

\* What it holds and what its orders would buy stay within the target, however
\* often it ran before; where the book alone speaks against buying, orders that
\* rest are left.
WithinTarget ==
    Ended /\ Calm /\ (run.wants => run.tier > 0)
        => held[Side] + Buys(Side) <= Larger(held[Side], Target(Side))

\* It buys what it decided on, as far as the funds go.
BuysWhatItLacks ==
    Ended /\ Calm /\ run.tier > 0 /\ run.funds.afford > 0 => run.want - Buys(Side) < MinShares

\* A second run with the same inputs buys nothing if nothing happened since.
ReRunBuysNothing ==
    Ended /\ Calm /\ last = Leaves => run.bought = 0
=============================================================================
