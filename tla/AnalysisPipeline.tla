--------------------------- MODULE AnalysisPipeline --------------------------
(***************************************************************************)
(* The analysis of one instrument: a LangGraph graph of agents.            *)
(*                                                                         *)
(* LangGraph runs a graph in supersteps.  Every node that an edge of the   *)
(* previous superstep leads to runs once, all of them in parallel, on the  *)
(* state the previous superstep left; a conditional edge sees that state   *)
(* and the writes of its own node.  A node with several incoming edges     *)
(* does not wait for all of them, so two waves can follow each other       *)
(* through the same nodes.                                                 *)
(*                                                                         *)
(* What an agent says is abstracted to whether its call succeeded.         *)
(***************************************************************************)
EXTENDS Naturals

CONSTANTS Fallible,        \* agents whose call may raise
          RecursionLimit   \* supersteps LangGraph allows

CoreAnalysts == {"fundamentals", "technical", "macro", "sentiment", "news_scanner",
                 "historical_validation"}
OptionalAnalysts == {"forex_macro", "deep_fundamentals", "earnings_analysis"}
Analysts == CoreAnalysts \union OptionalAnalysts
Nodes == Analysts \union
         {"pre_screener", "skip_instrument", "market_regime", "bull_research",
          "bear_research", "debate_counter", "quant_check", "risk_manager",
          "strategic_review", "final_trader"}

VARIABLES wanted,    \* the optional analysts this request calls for
          active,    \* nodes of the current superstep
          step,      \* supersteps done
          passed,    \* screening_decision.pass_screening
          round,     \* debate_round
          output,    \* what each node last left in the state
          runs,      \* how often each node ran
          informed   \* nodes that last ran on the reports of all analysts

vars == <<wanted, active, step, passed, round, output, runs, informed>>

TypeOK ==
    /\ wanted \subseteq OptionalAnalysts
    /\ active \subseteq Nodes
    /\ step \in 0..RecursionLimit
    /\ passed \in BOOLEAN
    /\ round \in 1..RecursionLimit
    /\ output \in [Nodes -> {"none", "ok", "failed"}]
    /\ runs \in [Nodes -> 0..RecursionLimit]
    /\ informed \subseteq Nodes

\* Any of the optional analysts may be called for: a forex pair among the
\* equities, analysed deeply, for an earnings play, has all three.
Init ==
    /\ wanted \in SUBSET OptionalAnalysts
    /\ active = {"pre_screener"}
    /\ step = 0
    /\ passed = FALSE
    /\ round = 1
    /\ output = [n \in Nodes |-> "none"]
    /\ runs = [n \in Nodes |-> 0]
    /\ informed = {}
-----------------------------------------------------------------------------
(* The edges.                                                              *)

Bug_ScreenNothing(pass) == {"market_regime"}
AfterScreening(pass) == IF pass THEN {"market_regime"} ELSE {"skip_instrument"}

Bug_AlwaysBull == CoreAnalysts \union wanted \union {"bull_research"}
\* An optional analyst that is not called for is replaced by bull_research.
AfterRegime ==
    CoreAnalysts \union wanted
        \union (IF wanted = OptionalAnalysts THEN {} ELSE {"bull_research"})

Bug_NeverDebate(r) == {"quant_check"}
\* Two rounds of debate.
AfterBear(r) == IF r < 2 THEN {"debate_counter"} ELSE {"quant_check"}

Bug_AnalystsLeadNowhere(n) ==
    CASE n = "bull_research" -> {"bear_research"}
      [] n = "debate_counter" -> {"bull_research"}
      [] n = "quant_check" -> {"risk_manager"}
      [] n = "risk_manager" -> {"strategic_review"}
      [] n = "strategic_review" -> {"final_trader"}
      [] OTHER -> {}
Fixed(n) ==
    CASE n \in Analysts -> {"bull_research"}
      [] n = "bull_research" -> {"bear_research"}
      [] n = "debate_counter" -> {"bull_research"}
      [] n = "quant_check" -> {"risk_manager"}
      [] n = "risk_manager" -> {"strategic_review"}
      [] n = "strategic_review" -> {"final_trader"}
      [] OTHER -> {}

\* Where the edges of node n lead.  bear_research writes no debate_round, so
\* the count of a debate_counter running beside it is not seen.
Successors(n, pass) ==
    CASE n = "pre_screener" -> AfterScreening(pass)
      [] n = "market_regime" -> AfterRegime
      [] n = "bear_research" -> AfterBear(round)
      [] OTHER -> Fixed(n)
-----------------------------------------------------------------------------
(* The nodes.  Each catches the exception of its agent, leaves None for    *)
(* the report and adds the error to errors.                                *)

\* The screening fails closed: an error is a decision to skip.
ScreeningPasses(fails, pass) == pass /\ "pre_screener" \notin fails

\* On failure these leave their report alone.
Keeping == {"earnings_analysis", "historical_validation", "strategic_review"}

\* skip_instrument writes the final decision, None.
Left(n, fails) ==
    CASE n \notin active -> IF n = "final_trader" /\ "skip_instrument" \in active
                              THEN "none" ELSE output[n]
      [] n \in active /\ n \notin fails -> "ok"
      [] n \in active /\ n \in fails -> IF n \in Keeping THEN output[n] ELSE "failed"

Bug_CountNothing == round
CountedRound == round + 1

\* The analysts this request runs have all left what they will leave.
ReportsIn == \A a \in CoreAnalysts \union wanted : runs[a] > 0

Superstep(fails, pass) ==
    /\ active # {}
    /\ step < RecursionLimit
    /\ fails \subseteq active
    /\ step' = step + 1
    /\ passed' = IF "pre_screener" \in active THEN ScreeningPasses(fails, pass) ELSE passed
    /\ active' = UNION {Successors(n, ScreeningPasses(fails, pass)) : n \in active}
    /\ round' = IF "debate_counter" \in active THEN CountedRound ELSE round
    /\ output' = [n \in Nodes |-> Left(n, fails)]
    /\ runs' = [n \in Nodes |-> IF n \in active THEN runs[n] + 1 ELSE runs[n]]
    /\ informed' = IF ReportsIn THEN informed \union active ELSE informed \ active
    /\ UNCHANGED wanted

Next == \E fails \in SUBSET Fallible, pass \in BOOLEAN : Superstep(fails, pass)

Spec == Init /\ [][Next]_vars /\ WF_vars(Next)
-----------------------------------------------------------------------------
Tail == {"bull_research", "bear_research", "quant_check", "risk_manager",
         "strategic_review", "final_trader"}

\* The debate cannot go round for ever: although two waves count their rounds
\* in one debate_round, the graph is done before LangGraph gives up on it.
EndsWithinLimit == step = RecursionLimit => active = {}

\* Whatever the debate started with, the result is in the end made from all
\* reports: when the graph is done, every node behind the analysts last ran
\* after the last of them.
DecisionIsInformed == active = {} /\ passed => Tail \subseteq informed

\* Each decision is debated in two rounds, also when a second wave runs one
\* superstep behind the first and both share debate_round.
DebatedTwice ==
    /\ runs["bear_research"] >= 2 * runs["quant_check"]
    /\ runs["bull_research"] >= runs["bear_research"]

\* An instrument that is screened out, also by an error of the screener, costs
\* no other agent a call and gets no decision.
SkippedIsFree ==
    runs["skip_instrument"] > 0 =>
        /\ \A n \in Nodes \ {"pre_screener", "skip_instrument"} : runs[n] = 0
        /\ output["final_trader"] = "none"

\* When no analyst is left out there is one wave: no agent is paid twice.
OneWaveIfAllAreWanted ==
    wanted = OptionalAnalysts =>
        /\ \A n \in Nodes \ {"bull_research", "bear_research"} : runs[n] <= 1
        /\ \A n \in {"bull_research", "bear_research"} : runs[n] <= 2
=============================================================================
