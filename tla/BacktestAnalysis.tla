-------------------------- MODULE BacktestAnalysis --------------------------
(***************************************************************************)
(* The analysis of a stored simulation by a local model: generated on      *)
(* request, kept, and given again to whoever asks later.                   *)
(*                                                                         *)
(* A request is named by the time its transaction began, which is also the *)
(* created_at of the row it may write (now() in Postgres).  A generation   *)
(* is a model and a version of the prompt; both change with a restart.     *)
(***************************************************************************)
EXTENDS Integers, FiniteSets

CONSTANTS MaxRequests,   \* bound: requests for an analysis
          MaxRestarts,   \* bound: restarts of the API
          Generations

ASSUME RequestsBounded == MaxRequests \in Nat /\ MaxRestarts \in Nat /\ Generations # {}

VARIABLES found,      \* whether there is an AdvisorBacktestRun of this user
          generation, enabled,   \* settings of the running API
          restarts,
          opened,     \* requests begun: 1..opened
          request,    \* request[t]: where it is, whether forced, of which generation
          row,        \* row[t]: status of the AdvisorBacktestAnalysis it wrote, or "NONE"
          answer,     \* answer[t]: the row returned, 0 for an error or none yet
          shown       \* history: what GET would have returned when t looked for a row

settings == <<generation, enabled, restarts>>
analysisVars == <<found, settings, opened, request, row, answer, shown>>

Times == 1..MaxRequests

NoRequest == [at |-> "none", force |-> FALSE, of |-> CHOOSE g \in Generations : TRUE]

InitAnalysis ==
  /\ found = FALSE
  /\ generation \in Generations /\ enabled \in BOOLEAN /\ restarts = 0
  /\ opened = 0
  /\ request = [t \in Times |-> NoRequest]
  /\ row = [t \in Times |-> "NONE"]
  /\ answer = [t \in Times |-> 0]
  /\ shown = [t \in Times |-> 0]

\* the simulation is committed
Store == /\ ~found
         /\ found' = TRUE
         /\ UNCHANGED <<settings, opened, request, row, answer, shown>>

-----------------------------------------------------------------------------
Completed(g) == {t \in Times : row[t] = "COMPLETED" /\ request[t].of = g}

\* status COMPLETED, created_at descending, of this provider, model and prompt
Latest(g) == IF Completed(g) = {} THEN 0
             ELSE CHOOSE t \in Completed(g) : \A u \in Completed(g) : u <= t

\* get_advisor_backtest_analysis; 0 is 404
Get == IF found THEN Latest(generation) ELSE 0

-----------------------------------------------------------------------------
(* generate_advisor_backtest_analysis *)

\* Ownership is checked, 404 without a run.
Open(force) ==
  /\ opened < MaxRequests
  /\ opened' = opened + 1
  /\ request' = [request EXCEPT ![opened + 1] =
                   [at |-> IF found THEN "looking" ELSE "refused", force |-> force, of |-> generation]]
  /\ UNCHANGED <<found, settings, row, answer, shown>>

\* mutation: an analysis of any model will do
LookAnyModel(t) ==
  /\ request[t].at = "looking"
  /\ LET rows == {u \in Times : row[u] = "COMPLETED"}
         hit == IF request[t].force \/ rows = {} THEN 0 ELSE CHOOSE u \in rows : \A v \in rows : v <= u
     IN /\ request' = [request EXCEPT ![t].at = IF hit # 0 THEN "answered"
                                                ELSE IF enabled THEN "calling" ELSE "refused"]
        /\ answer' = [answer EXCEPT ![t] = hit]
        /\ shown' = [shown EXCEPT ![t] = Latest(request[t].of)]
  /\ UNCHANGED <<found, settings, opened, row>>

\* Unless forced, the latest analysis there is; without one the model is
\* called, or 503 is returned and nothing written when it is disabled.
Look(t) ==
  /\ request[t].at = "looking"
  /\ LET hit == IF request[t].force THEN 0 ELSE Latest(request[t].of)
     IN /\ request' = [request EXCEPT ![t].at = IF hit # 0 THEN "answered"
                                                ELSE IF enabled THEN "calling" ELSE "refused"]
        /\ answer' = [answer EXCEPT ![t] = hit]
        /\ shown' = [shown EXCEPT ![t] = Latest(request[t].of)]
  /\ UNCHANGED <<found, settings, opened, row>>

\* The answer of the model is valid; its headline is replaced.
Generate(t) ==
  /\ request[t].at = "calling"
  /\ row' = [row EXCEPT ![t] = "COMPLETED"]
  /\ request' = [request EXCEPT ![t].at = "answered"]
  /\ answer' = [answer EXCEPT ![t] = t]
  /\ UNCHANGED <<found, settings, opened, shown>>

\* Unreachable, timed out, or not what was asked for: a FAILED row is
\* committed and 503 or 502 returned.
Fail(t) ==
  /\ request[t].at = "calling"
  /\ row' = [row EXCEPT ![t] = "FAILED"]
  /\ request' = [request EXCEPT ![t].at = "refused"]
  /\ UNCHANGED <<found, settings, opened, answer, shown>>

\* The API restarts, perhaps with other settings; what it was doing is lost.
Restart(g, e) ==
  /\ restarts < MaxRestarts
  /\ restarts' = restarts + 1
  /\ generation' = g /\ enabled' = e
  /\ request' = [t \in Times |-> IF request[t].at \in {"looking", "calling"}
                                 THEN [request[t] EXCEPT !.at = "refused"] ELSE request[t]]
  /\ UNCHANGED <<found, opened, row, answer, shown>>

Work(t) == Look(t) \/ Generate(t) \/ Fail(t)

NextAnalysis == \/ \E force \in BOOLEAN : Open(force)
                \/ \E t \in Times : Work(t)
                \/ \E g \in Generations, e \in BOOLEAN : Restart(g, e)

AnalysisSpec == InitAnalysis /\ [][Store \/ NextAnalysis]_analysisVars

-----------------------------------------------------------------------------
(* Properties *)

RequestsTyped ==
  /\ found \in BOOLEAN /\ generation \in Generations /\ enabled \in BOOLEAN
  /\ restarts \in 0..MaxRestarts /\ opened \in 0..MaxRequests
  /\ request \in [Times -> [at : {"none", "looking", "calling", "answered", "refused"},
                            force : BOOLEAN, of : Generations]]
  /\ row \in [Times -> {"NONE", "COMPLETED", "FAILED"}]
  /\ answer \in [Times -> 0..MaxRequests] /\ shown \in [Times -> 0..MaxRequests]

\* "Generate (or return cached)": what a request is answered with is a complete
\* analysis by the model and the prompt it was asked of, its own if it was
\* forced, and never one older than GET showed when it looked; and from then on
\* GET shows nothing older either, as long as that model and prompt are in use,
\* whatever fails, whoever else asks, and although rows are ordered by when
\* their request began, not by when they were written.
AnswersAgree == \A t \in Times : LET a == answer[t] IN
  a # 0 => /\ row[a] = "COMPLETED" /\ request[a].of = request[t].of
           /\ request[t].force => a = t
           /\ a < t => a = shown[t]
           /\ generation = request[t].of => Get >= a
=============================================================================
