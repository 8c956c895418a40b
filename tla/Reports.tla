------------------------------ MODULE Reports ------------------------------
(***************************************************************************)
(* reports.Service.Query over the tables of Finalization: one SELECT, so   *)
(* it sees one committed state, grouped by branch and grain type, and the  *)
(* totals that Query computes from its rows.  A money or weight column is  *)
(* as wide as in PostgreSQL; no sum here comes near its limit.             *)
(***************************************************************************)
EXTENDS Finalization, Functions

CONSTANTS
    WeighedAt,  \* weighings.weighed_at, which the input of a session carries
    DayLength,  \* moments of a day
    Any         \* a field the filter leaves empty

ASSUME ReportConfig ==
    /\ WeighedAt \in [Sessions -> Nat]
    /\ DayLength \in Nat \ {0}
    /\ Any \notin Branches \cup Grains \cup Nat
    /\ IsFiniteSet(Branches) /\ IsFiniteSet(Grains)

\* Mutant: a day as the end of a period is the moment it begins.
ParseReportTimeStart(day, end) == day * DayLength

\* parseReportTime of a date: its first moment, or its last one as an end.
ParseReportTime(day, end) == day * DayLength + (IF end THEN DayLength - 1 ELSE 0)

\* Filter: branch, grain, start and end, each a value or Any.
Selected(f) ==
    {w \in weighings :
        /\ status[w.transport] = "WEIGHED"
        /\ f.branch = Any \/ BranchOf[w.transport] = f.branch
        /\ f.grain = Any \/ GrainOf[w.transport] = f.grain
        /\ f.start = Any \/ WeighedAt[w.session] >= f.start
        /\ f.end = Any \/ WeighedAt[w.session] <= f.end}

\* ROUND(AVG(...)): half up, the values are not negative.
SqlAverage(sum, n) == (2 * sum + n) \div (2 * n)

\* The columns of one group; prices and margins are the sums behind the averages.
ItemOf(rows) ==
    LET n == Cardinality(rows)
        prices  == SumFunction([w \in rows |-> PriceOf[w.transport]])
        margins == SumFunction([w \in rows |-> w.margin])
    IN  [net |-> SumFunction([w \in rows |-> w.net]),
         cost |-> SumFunction([w \in rows |-> w.cost]),
         count |-> n, prices |-> prices, margins |-> margins,
         price |-> SqlAverage(prices, n), margin |-> SqlAverage(margins, n)]

\* GROUP BY: there is no group without a row.
Items(f) ==
    [b \in {BinOf(w.transport) : w \in Selected(f)} |->
        ItemOf({w \in Selected(f) : BinOf(w.transport) = b})]

\* The integer division of Query, with half of n added before.
TotalAverage(sum, n) == (sum + n \div 2) \div n

Totals(items) ==
    LET total(column) == SumFunction([b \in DOMAIN items |-> items[b][column]])
        n == total("count")
    IN  [net |-> total("net"), cost |-> total("cost"), count |-> n,
         price  |-> IF n = 0 THEN 0 ELSE TotalAverage(total("prices"), n),
         margin |-> IF n = 0 THEN 0 ELSE TotalAverage(total("margins"), n)]

Refused(f) == f.start # Any /\ f.end # Any /\ f.start > f.end

\* Query; a refused filter has no report.
Report(f) == LET items == Items(f) IN [items |-> items, totals |-> Totals(items)]

-----------------------------------------------------------------------------
Everything == [branch |-> Any, grain |-> Any, start |-> Any, end |-> Any]

\* The value nearest to sum / n, the larger one of two.
IsMean(value, sum, n) == 2 * sum - n < 2 * n * value /\ 2 * n * value <= 2 * sum + n

(***************************************************************************)
(* A report tells the stock, at every moment between the statements of     *)
(* finalizations: without a period, each item has the net weight of its    *)
(* inventory row and its WEIGHED transports, and the totals are those of   *)
(* the single loads, averages included, though they are computed from      *)
(* groups.  The days up to one and the days after it share no load and     *)
(* miss none, though both ends of a period are inclusive.                  *)
(***************************************************************************)
ReportTellsStock ==
    LET all == Report(Everything)
        weighed(bins) == {t \in Transports : status[t] = "WEIGHED" /\ BinOf(t) \in bins}
    IN  /\ \A b \in Bins :
              IF b \notin DOMAIN all.items THEN inventory[b] = 0 /\ weighed({b}) = {}
              ELSE /\ all.items[b].net = inventory[b]
                   /\ all.items[b].count = Cardinality(weighed({b}))
                   /\ Items([Everything EXCEPT !.branch = b[1], !.grain = b[2]]) =
                         [bin \in {b} |-> all.items[b]]
        /\ all.totals.net = SumFunction(inventory)
        /\ all.totals.count = Cardinality(weighed(Bins))
        /\ weighings # {} =>
              /\ IsMean(all.totals.margin, SumFunction([w \in weighings |-> w.margin]), all.totals.count)
              /\ IsMean(all.totals.price, SumFunction([w \in weighings |-> PriceOf[w.transport]]),
                        all.totals.count)
        /\ \A x \in Sessions :
              LET day == WeighedAt[x] \div DayLength
                  until  == [Everything EXCEPT !.end = ParseReportTime(day, TRUE)]
                  after  == [Everything EXCEPT !.start = ParseReportTime(day + 1, FALSE)]
                  thatDay == [until EXCEPT !.start = ParseReportTime(day, FALSE)]
              IN  /\ ~Refused(thatDay)
                  /\ Report(until).totals.cost + Report(after).totals.cost = all.totals.cost
                  /\ Report(until).totals.count + Report(after).totals.count = all.totals.count
                  /\ \A w \in weighings : w.session = x => w \in Selected(thatDay)
=============================================================================
