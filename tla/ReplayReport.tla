---------------------------- MODULE ReplayReport ----------------------------
(***************************************************************************)
(* The quality report of a replay batch: the dates replayed, the           *)
(* recommendations as runs complete in any order, and, by symbol, how      *)
(* score and action moved from one date to the next.                       *)
(*                                                                         *)
(* Days are numbered through a calendar of months of the lengths given.    *)
(* A score breakdown has two components and their total; a symbol has at   *)
(* most one recommendation for a date.                                     *)
(***************************************************************************)
EXTENDS Integers, Sequences, FiniteSets, SequencesExt, FiniteSetsExt

CONSTANTS Tickers,                  \* symbols of the batch, in their order
          MonthLengths, Week,       \* the calendar
          Starts,                   \* first days asked for
          Breakdowns,               \* pairs of the components risk and technical
          BuyAt,                    \* the score from which the action is BUY
          Meaningful,               \* the rise of score that is an upside (10)
          MaxRuns,                  \* _MAX_REPLAY_RUNS
          NoDelta

VARIABLES request,  \* start, end and cadence of the batch
          dates,    \* as_of_date of the runs of the batch
          made      \* made[s][d]: the neutral recommendation, where there is one

reportVars == <<request, dates, made>>

-----------------------------------------------------------------------------
(* _generate_replay_dates *)

\* the days before month m
Before(m) == SumFunction([i \in 1..(m - 1) |-> MonthLengths[i]])

Days == 1..Before(Len(MonthLengths) + 1)

ASSUME CalendarTyped ==
  /\ MonthLengths \in Seq(Nat \ {0}) /\ Week \in Nat \ {0} /\ Starts \subseteq Days
  /\ Tickers \subseteq Int /\ IsFiniteSet(Tickers) /\ Tickers # {}
  /\ Breakdowns \subseteq Nat \X Nat /\ BuyAt \in Nat
  /\ Meaningful \in Nat \ {0} /\ MaxRuns \in Nat
  /\ NoDelta \notin Int /\ NoDelta \notin [symbol : Tickers, from : Days, delta : Int]

Month(day) == CHOOSE m \in DOMAIN MonthLengths : Before(m) < day /\ day <= Before(m + 1)

\* mutation: a month later, by its number of days
AdvanceByLength(day, cadence) ==
  CASE cadence = "daily" -> day + 1
    [] cadence = "weekly" -> day + Week
    [] cadence = "monthly" -> day + MonthLengths[Month(day)]

\* A month has its last day where it has no such day.
Advance(day, cadence) ==
  CASE cadence = "daily" -> day + 1
    [] cadence = "weekly" -> day + Week
    [] cadence = "monthly" ->
         LET m == Month(day) IN
           IF m = Len(MonthLengths) THEN Before(m + 1) + 1
           ELSE Before(m + 1) + Min({day - Before(m), MonthLengths[m + 1]})

Dates(start, end, cadence) ==
  LET cur[n \in 0..Cardinality(Days)] ==
        IF n = 0 THEN start
        ELSE IF cur[n - 1] > end THEN cur[n - 1] ELSE Advance(cur[n - 1], cadence)
  IN {cur[n] : n \in 0..Cardinality(Days)} \cap start..end

-----------------------------------------------------------------------------
InitReport == request = <<>> /\ dates = {} /\ made = [s \in Tickers |-> <<>>]

\* a batch of too many runs is rejected
Ask(start, end, cadence) ==
  /\ request = <<>> /\ start <= end
  /\ Cardinality(Dates(start, end, cadence)) <= MaxRuns
  /\ request' = <<start, end, cadence>>
  /\ dates' = Dates(start, end, cadence)
  /\ UNCHANGED made

\* A run completes, with a recommendation for the symbols that did not fail.
Complete(d, s, b) ==
  /\ d \in dates \ DOMAIN made[s]
  /\ LET total == b[1] + b[2]
         rec == [risk |-> b[1], technical |-> b[2], total |-> total,
                 action |-> IF total >= BuyAt THEN "BUY_CANDIDATE" ELSE "HOLD"]
     IN made' = [made EXCEPT ![s] = [x \in DOMAIN @ \cup {d} |-> IF x = d THEN rec ELSE @[x]]]
  /\ UNCHANGED <<request, dates>>

NextReport ==
  \/ \E start \in Starts, end \in Days, c \in {"daily", "weekly", "monthly"} : Ask(start, end, c)
  \/ \E d \in dates, s \in Tickers, b \in Breakdowns : Complete(d, s, b)

ReportSpec == InitReport /\ [][NextReport]_reportVars

-----------------------------------------------------------------------------
(* get_replay_batch_report *)

\* what is at place n when D is sorted
Nth(D, n) == CHOOSE d \in D : Cardinality({e \in D : e < d}) = n - 1

\* the points of a symbol, sorted by date
Points(s) == LET D == DOMAIN made[s] IN
  [n \in 1..Cardinality(D) |-> [date |-> Nth(D, n), rec |-> made[s][Nth(D, n)]]]

\* how many steps there are from one point to the next
Steps(s) == IF DOMAIN made[s] = {} THEN 0 ELSE Cardinality(DOMAIN made[s]) - 1

\* build_timeline_changes, without the explanations
Changes(s) == LET ps == Points(s) IN [n \in 1..Steps(s) |->
  LET prev == ps[n]  curr == ps[n + 1] IN
    [from |-> prev.date, to |-> curr.date,
     delta |-> curr.rec.total - prev.rec.total,
     action_changed |-> prev.rec.action # curr.rec.action]]

\* the numbers of a breakdown, by name, among them the total
Components == <<"risk", "technical", "total">>

Abs(n) == IF n < 0 THEN -n ELSE n

\* changed_components: a stable sort by size
Changed(from, to) ==
  LET Keys == {i \in DOMAIN Components : to[Components[i]] # from[Components[i]]}
      Size(i) == Abs(to[Components[i]] - from[Components[i]])
      order == SetToSortSeq(Keys, LAMBDA i, j : Size(i) > Size(j) \/ (Size(i) = Size(j) /\ i < j))
  IN [n \in DOMAIN order |-> LET k == Components[order[n]] IN [key |-> k, delta |-> to[k] - from[k]]]

\* the parts of the explanation of step n
Explanation(s, n) ==
  LET prev == Points(s)[n].rec  curr == Points(s)[n + 1].rec  changed == Changed(prev, curr) IN
    [changed |-> changed,
     stable |-> prev.action = curr.action /\ prev.total = curr.total /\ changed = <<>>]

\* A loop over the sizes that keeps the place of the first of the largest; 0 if
\* none is above 0.
FirstLargest(sizes) ==
  LET best[n \in 0..Len(sizes)] ==
        IF n = 0 THEN 0
        ELSE LET b == best[n - 1] IN IF sizes[n] > (IF b = 0 THEN 0 ELSE sizes[b]) THEN n ELSE b
  IN best[Len(sizes)]

\* the step of the timeline of s that is kept
Kept(s, sizes) == LET n == FirstLargest(sizes)  ch == Changes(s) IN
  IF n = 0 THEN NoDelta ELSE [symbol |-> s, from |-> ch[n].from, delta |-> ch[n].delta]

\* mutation: the largest by sign
LargestRise(s) == LET ch == Changes(s) IN Kept(s, [i \in DOMAIN ch |-> ch[i].delta])

\* largest_score_move
LargestMove(s) == LET ch == Changes(s) IN Kept(s, [i \in DOMAIN ch |-> Abs(ch[i].delta)])

\* build_timeline_summary
Summary(s) == LET ps == Points(s)  n == Len(ps)  Scores == {ps[i].rec.total : i \in DOMAIN ps} IN
  [point_count |-> n,
   score_change |-> IF n >= 2 THEN ps[n].rec.total - ps[1].rec.total ELSE NoDelta,
   action_changed |-> n > 0 /\ ps[1].rec.action # ps[n].rec.action,
   span |-> IF n = 0 THEN 0 ELSE Max(Scores) - Min(Scores),
   largest |-> LargestMove(s)]

-----------------------------------------------------------------------------
(* build_evaluation *)

\* build_highlights: the first of the largest in the direction, symbol after symbol
Extreme(sign) ==
  LET Told == {s \in Tickers : DOMAIN made[s] # {}}
      Step(s) == LET ch == Changes(s) IN Kept(s, [i \in DOMAIN ch |-> sign * ch[i].delta])
      steps == [n \in 1..Cardinality(Told) |-> Step(Nth(Told, n))]
      n == FirstLargest([i \in DOMAIN steps |-> IF steps[i] = NoDelta THEN 0 ELSE sign * steps[i].delta])
  IN IF n = 0 THEN NoDelta ELSE steps[n]

Drop == Extreme(-1)
Jump == Extreme(1)

\* build_advisor_behavior, of the kinds of trades there were
Behavior(s, kinds) ==
  LET sold == kinds \cap {"SELL", "REDUCE"} # {}
      bought == kinds \cap {"BUY", "ADD"} # {}
      change == Summary(s).score_change
  IN [only_held |-> ~bought /\ ~sold,
      avoided_drawdown |-> IF change = NoDelta THEN FALSE ELSE sold /\ change < 0,
      missed_upside |-> IF change = NoDelta THEN FALSE ELSE ~bought /\ change >= Meaningful]

-----------------------------------------------------------------------------
(* Properties *)

ReportTyped == /\ dates \subseteq Days /\ Cardinality(dates) <= MaxRuns
          /\ \A s \in Tickers : /\ DOMAIN made[s] \subseteq dates
                                /\ Len(Points(s)) = Cardinality(DOMAIN made[s])

\* A monthly batch has one date in every month it crosses, also past a month
\* too short for the day it began on.
MonthlyIsMonthly == (request # <<>> => request[3] # "monthly") \/
  \A m \in DOMAIN MonthLengths :
    LET there == Cardinality({d \in dates : Month(d) = m}) IN
      IF Month(request[1]) <= m /\ m < Month(request[2]) THEN there = 1 ELSE there <= 1

\* The steps of a timeline lead from its first to its last score, in the order
\* of the dates replayed and whichever run completed first.
StepsAddUp == \A s \in Tickers : LET ch == Changes(s)  sum == Summary(s) IN
  /\ \A i \in DOMAIN ch : ch[i].from < ch[i].to
  /\ sum.score_change # NoDelta =>
       sum.score_change = SumFunction([i \in DOMAIN ch |-> ch[i].delta])
  /\ sum.action_changed => \E i \in DOMAIN ch : ch[i].action_changed

\* The largest move of a symbol bounds all its steps and is within its range of
\* scores, and there is none only if the score never moved.
LargestBounds == \A s \in Tickers : LET ch == Changes(s)  sum == Summary(s) IN
  IF sum.largest = NoDelta THEN sum.span = 0
  ELSE /\ \A i \in DOMAIN ch : Abs(ch[i].delta) <= Abs(sum.largest.delta)
       /\ Abs(sum.largest.delta) <= sum.span
       /\ sum.span <= Len(ch) * Abs(sum.largest.delta)

\* The highlights of the batch agree with the timelines: the largest of drop and
\* jump is the largest move of any symbol.
HighlightsAgree ==
  LET Size(x) == IF x = NoDelta THEN 0 ELSE Abs(x.delta)
  IN Max({Size(Drop), Size(Jump)}) = Max({Size(LargestMove(s)) : s \in Tickers})

\* A symbol with an avoided drawdown fell in some step, by the batch's largest
\* drop at most; one with a missed upside rose, in steps of its largest jump at
\* most; none has both.
BehaviorHasMoves == LET drop == Drop  jump == Jump IN
  \A s \in Tickers, kinds \in SUBSET {"BUY", "SELL", "SKIP"} : LET b == Behavior(s, kinds)  ch == Changes(s) IN
    /\ b.avoided_drawdown => \E i \in DOMAIN ch : ch[i].delta < 0 /\ drop # NoDelta /\ ch[i].delta >= drop.delta
    /\ b.missed_upside => jump # NoDelta /\ Len(ch) * jump.delta >= Meaningful
    /\ ~(b.avoided_drawdown /\ b.missed_upside)

\* The report agrees with itself, whichever run completed first and although
\* steps, summary and highlights are computed apart.
ReportAgrees == StepsAddUp /\ LargestBounds /\ HighlightsAgree /\ BehaviorHasMoves

\* "Mainly because {key} improved": a component is the reason of a change of the
\* score, and it changed in the same direction.
CauseExplains == \A s \in Tickers : \A n \in 1..Steps(s) :
  LET delta == Changes(s)[n].delta  changed == Explanation(s, n).changed IN
    delta # 0 => changed[1].key # "total" /\ changed[1].delta * delta > 0
=============================================================================
