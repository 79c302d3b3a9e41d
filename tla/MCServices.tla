----------------------------- MODULE MCServices -----------------------------
(***************************************************************************)
(* For TLC: two parts in which pipelines meet services outside - the       *)
(* webhook events that come in, and the trades that go out - checked in    *)
(* one run.  A behaviour is of one of them and the other stays as it       *)
(* began.                                                                  *)
(***************************************************************************)
EXTENDS Webhooks, Integers, TLC

CONSTANTS
    r1, r2, r3, e1, e2,
    MinShares, Theses, Views, Funds, Weathers, Held, MaxRuns, MaxTrades

VARIABLES
    held, orders, market, note, run, last, runs, trades,
    part        \* whose behaviour this is: "events", or the weather of the trades

P == INSTANCE ManagePosition

ASSUME ServicesAssumption == P!PositionAssumption

\* An event whose request is repeated, and one that comes once.
Repeated == (r1 :> e1) @@ (r2 :> e1) @@ (r3 :> e2)

Thesis(level, likely) == [cap |-> 8, level |-> level, likely |-> likely, over |-> FALSE]
View(side, grade, share, price) ==
    [side |-> side, strong |-> grade = "one", grade |-> grade, part |-> share,
     wide |-> FALSE, price |-> price]
MCTheses == {Thesis(2, TRUE), Thesis(1, FALSE), [Thesis(2, TRUE) EXCEPT !.over = TRUE]}
MCViews ==
    {View("yes", "one", 2, 1), [View("yes", "one", 2, 2) EXCEPT !.wide = TRUE],
     View("yes", "two", 1, 2), View("no", "thin", 1, 1)}
MCFunds == {[afford |-> 6, rich |-> TRUE]}

positionVars == <<held, orders, market, note, run, last, runs, trades>>
allVars == <<vars, positionVars, part>>

ServicesInit ==
    /\ part \in {"events"} \cup Weathers /\ Init /\ P!Init
    /\ part = "storm" => held.yes > 0 /\ orders = {}
    /\ IF part = "events" THEN held.yes + held.no = 0 /\ orders = {} ELSE target = Nowhere

\* Two runs that nothing disturbs, the second with any thesis and with fills
\* between them; or one, during which orders fill or anything happens.
PositionPart ==
    /\ part \in Weathers /\ P!Next
    /\ runs' # runs =>
          /\ run'.weather = part
          /\ (part = "calm" /\ runs > 0) \/ (runs = 0 /\ run'.thesis = Thesis(2, TRUE))
          /\ part # "calm" => market'.part = 2
    /\ trades' # trades => part = "storm"
    /\ run.pc = "idle" /\ runs' = runs => part = "calm" /\ runs = 1
    /\ UNCHANGED <<vars, part>>
EventsPart == part = "events" /\ Next /\ UNCHANGED <<positionVars, part>>

\* The fairness of the webhooks, where the behaviour is theirs.
ServicesSpec ==
    /\ ServicesInit /\ [][EventsPart \/ PositionPart]_allVars
    /\ WF_vars(part = "events" /\ Tick) /\ WF_vars(part = "events" /\ Works)
    /\ \A r \in Requests : WF_vars(part = "events" /\ RetryTimeComes(r))

-----------------------------------------------------------------------------
\* A position run: types, no account that trades against itself, excess for
\* sale, buys up to the target and not beyond, and no more of them when it
\* runs again.
PositionInv ==
    /\ P!PositionTypeOK /\ P!NeverAgainstItself /\ P!ExcessIsForSale
    /\ P!WithinTarget /\ P!BuysWhatItLacks /\ P!ReRunBuysNothing
=============================================================================
