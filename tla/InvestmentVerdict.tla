-------------------------- MODULE InvestmentVerdict --------------------------
(***************************************************************************)
(* The rules by which an investment verdict follows from the signals that  *)
(* retrieval left: investment_decision_analyzer.py.  No language model has *)
(* a part in direction, confidence and verdict.                            *)
(*                                                                         *)
(* Scores are integers: prices and ratios in tenths of a percent, the      *)
(* sentiment in tenths, the financial score in halves, the two weighted    *)
(* sums in twentieths, which makes every weight of the code a whole        *)
(* number.  Sums that equal a threshold have no price term (14 * p is no   *)
(* multiple of 5 for 0 < |p| <= 3), so the code's floating point numbers   *)
(* compare as these integers do.                                           *)
(***************************************************************************)
EXTENDS Integers

\* The label of an event; one the language model made up, or left out, counts
\* as "low".
Impacts == {"high", "medium", "low", "other"}

\* How many events there are of each impact.
EventCounts == [Impacts -> Nat]

\* A value the signal does not have.
Absent == [absent |-> TRUE]
Given(n) == [absent |-> FALSE, value |-> n]
Optional == [absent : {FALSE}, value : Int] \cup {Absent}

NewsSignals == [positive : EventCounts, negative : EventCounts]
YouTubeSignals == [volume : Nat, sentiment : Int]
FinancialSignals == [margin : Optional, debt : Optional]

\* What a state without a source's result holds: an empty or absent dictionary.
NoEvents == [i \in Impacts |-> 0]
NoNews == [positive |-> NoEvents, negative |-> NoEvents]
NoYouTube == [volume |-> 0, sentiment |-> 0]
NoFinancials == [margin |-> Absent, debt |-> Absent]
NoSignals == [news |-> NoNews, youtube |-> NoYouTube, price |-> Absent,
              financial |-> NoFinancials]

Signals == [news : NewsSignals, youtube : YouTubeSignals, price : Optional,
            financial : FinancialSignals]

-----------------------------------------------------------------------------
Size(n) == IF n < 0 THEN -n ELSE n
One(holds) == IF holds THEN 1 ELSE 0

Weight(events) ==
    3 * events["high"] + 2 * events["medium"] + events["low"] + events["other"]

\* _compute_news_score
NewsScore(news) == Weight(news.positive) - Weight(news.negative)

\* How many of the thresholds 1 %, 3 % and 5 % a rise has reached.
Climb(rise) == One(rise >= 10) + One(rise >= 30) + One(rise >= 50)

\* _compute_price_score: the change over the previous close, -3 .. 3.
PriceScore(price) ==
    IF price.absent THEN 0 ELSE Climb(price.value) - Climb(-price.value)

\* _compute_financial_score, in halves.
MarginScore(margin) ==
    CASE margin.absent -> 0
      [] ~margin.absent /\ margin.value >= 200 -> 4
      [] ~margin.absent /\ margin.value \in 100 .. 199 -> 2
      [] ~margin.absent /\ margin.value \in 0 .. 99 -> 0
      [] OTHER -> -6
DebtScore(debt) ==
    CASE debt.absent -> 0
      [] ~debt.absent /\ debt.value >= 800 -> -3
      [] ~debt.absent /\ debt.value \in 600 .. 799 -> -1
      [] ~debt.absent /\ debt.value <= 300 -> 1
      [] OTHER -> 0
FinancialScore(financial) ==
    MarginScore(financial.margin) + DebtScore(financial.debt)

-----------------------------------------------------------------------------
\* The sum that decides the direction, against a threshold of 2.0.
Combined(s) ==
    20 * NewsScore(s.news) + 14 * PriceScore(s.price)
        + 5 * FinancialScore(s.financial)

Direction(s) ==
    CASE Combined(s) > 40 -> "bullish"
      [] Combined(s) < -40 -> "bearish"
      [] OTHER -> "neutral"

\* Mutant: the change of the price has no part in the confidence.
EvidenceWithoutPrice(s) ==
    20 * Size(NewsScore(s.news)) + Size(s.youtube.sentiment)
        + 4 * Size(FinancialScore(s.financial))
\* The argument of the sigmoid.  Confidence grows with it from 0.5, so that
\* the model keeps this number in place of the confidence.
Evidence(s) ==
    20 * Size(NewsScore(s.news)) + Size(s.youtube.sentiment)
        + 10 * Size(PriceScore(s.price)) + 4 * Size(FinancialScore(s.financial))

\* confidence > 0.6: the sigmoid passes it between 8 and 9 twentieths.
Convincing(evidence) == evidence >= 9

\* The confidence 0.3 of the fallback, below that of any evidence.
Shortage == -1
FallbackVerdict ==
    [direction |-> "neutral", evidence |-> Shortage, verdict |-> "hold"]

\* compute_direction_confidence_verdict
Ruling(s) ==
    [direction |-> Direction(s),
     evidence |-> Evidence(s),
     verdict |->
        CASE Direction(s) = "bullish" /\ Convincing(Evidence(s)) -> "buy"
          [] Direction(s) = "bearish" /\ Convincing(Evidence(s)) -> "sell"
          [] OTHER -> "hold"]

\* has_news, has_youtube, has_price or has_financial.
HasSignal(s) ==
    \/ s.news # NoNews
    \/ s.youtube.volume > 0
    \/ ~s.price.absent
    \/ s.financial # NoFinancials

\* analyze_investment_decision
Decide(s) == IF HasSignal(s) THEN Ruling(s) ELSE FallbackVerdict

Verdicts ==
    [direction : {"bullish", "bearish", "neutral"}, evidence : Nat,
     verdict : {"buy", "sell", "hold"}] \cup {FallbackVerdict}

\* The test of the synthesis for "hold, for want of data" (confidence <= 0.3).
ForWantOfData(v) == v.verdict = "hold" /\ v.evidence = Shortage
=============================================================================
