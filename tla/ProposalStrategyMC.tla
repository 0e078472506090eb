------------------------- MODULE ProposalStrategyMC -------------------------
(* Inputs for ProposalStrategy: analyses that settled more or less, and    *)
(* answers that vary in one part at a time.                                *)
EXTENDS ProposalStrategy

(* The problem's gap is recorded again by the dimensions after it. *)
Analysis(settled, international) ==
    [identified |-> TRUE, named |-> TRUE, international |-> international,
     claims |-> [d \in Dimensions |->
        [settled |-> d \in settled,
         figures |-> CASE d \notin settled -> {} [] d = "PROBLEM" -> {30}
                       [] d = "BUYER" -> {7} [] OTHER -> {12},
         gaps |-> CASE d = "PROBLEM" -> <<"volume", "site">>
                    [] d = "VALUE_DRIVER" -> <<"site">>
                    [] d \notin settled -> <<d>>
                    [] OTHER -> <<>>]]]

Settled ==
    {{}, {"PROBLEM"}, {"PROBLEM", "VALUE_DRIVER"},
     {"PROBLEM", "BUYER", "VALUE_PROPOSITION", "VALUE_DRIVER"},
     {"PROCUREMENT_CONTEXT", "DECISION_MAKER", "VALUE_PROPOSITION"},
     Dimensions}

Analyses == {Analysis(settled, <<"site", "customs">>) : settled \in Settled}

Statement(text, figures, dimensions, refs) ==
    [text |-> text, figures |-> figures, dimensions |-> dimensions,
     refs |-> refs]

Silent == Statement("absent", {}, {}, {})

Row(step_type, message, named) ==
    [step_type |-> step_type, message |-> message, named |-> named,
     dimensions |-> {"PROBLEM", "COMPETITIVE_ADVANTAGE"}]

Timing(need, timing) == [need |-> need, timing |-> timing]

Plain ==
    [objective |-> NoObjective, refs |-> {"S1"}, value_proposition |-> Silent,
     key_message |-> Silent, storyline |-> <<>>, timings |-> <<>>]

Objectives == ProposalObjective \cup {NoObjective, "CLOSE_THE_DEAL"}

Suggesting == {[Plain EXCEPT !.objective = o] : o \in Objectives}

Statements ==
    {Statement("given", figures, dimensions, refs) :
        figures \in {{}, {12}, {7, 30}, {12, 99}},
        dimensions \in {{}, {"PROBLEM"}, {"PROBLEM", "VALUE_DRIVER"},
                        {"PROBLEM", "VALUE_PROPOSITION", "BUYER"},
                        {"VALUE_PROPOSITION"}},
        refs \in {{}, {"S1"}, {"S1", "S2"}, {"S2", "S9"}}}
    \cup {Silent, Statement("too long", {}, Dimensions, {"S1"})}

Stating ==
    {[Plain EXCEPT !.key_message = s] : s \in Statements}
    \cup {[Plain EXCEPT !.value_proposition = s, !.refs = refs] :
            s \in Statements, refs \in {{"S1", "S2"}, {"S9"}, {}}}

StoryRows ==
    {Row("CONTEXT", "given", {}), Row("CONTEXT", "absent", {}),
     Row("DIFFERENTIATION", "given", {}), Row("SUMMARY", "given", {}),
     Row("NEXT_STEP", "given", {"POC"}), Row("NEXT_STEP", "given", {"PILOT"})}

Telling ==
    {[Plain EXCEPT !.objective = "POC", !.storyline = story] :
        story \in UNION {[1 .. n -> StoryRows] : n \in 1 .. 3}}

Timed ==
    {[Plain EXCEPT !.timings = timings] :
        timings \in UNION {[1 .. n ->
            {Timing("site", "BEFORE_PRICING"), Timing("site", "SOMEDAY"),
             Timing("customs", "BEFORE_CONTRACT"), Timing("site", "OPTIONAL"),
             Timing("unrecorded", "BEFORE_PROPOSAL")}] : n \in 0 .. 2}}

Objection(text, basis, dimensions, response, rests_on, admits) ==
    [text |-> text, basis |-> basis, dimensions |-> dimensions,
     response |-> response, response_dimensions |-> rests_on,
     admits |-> admits]

MCObjections ==
    {Objection("given", basis, dimensions, response, rests_on, admits) :
        basis \in {"EVIDENCE_BACKED", "RUMOUR"},
        dimensions \in {{}, {"PROBLEM", "BUYER"}},
        response \in {"given", "too long"},
        rests_on \in {{}, {"VALUE_DRIVER"}}, admits \in BOOLEAN}
    \cup {Objection("absent", "ANTICIPATED", {}, "given", {}, FALSE)}

Request(analysis, objective, answers, objections, n) ==
    [analysis |-> analysis, elements |-> {"S1", "S2"}, blank |-> {},
     objective |-> objective, answers |-> answers, objections |-> objections,
     rows |-> n]

(* What a caller may have left out, against answers that select the        *)
(* element concerned, another one or none, with sentences that stand.      *)
Careless ==
    LET full == Analysis(Dimensions, <<>>)
        stating == Request(full, "POC", Stating, {}, 0)
    IN  {[stating EXCEPT !.blank = blank] :
            blank \in {{"S1"}, {"S2"}, {"S1", "S2"}}}
        \cup {[stating EXCEPT !.analysis.named = FALSE]}
        \cup {Request([full EXCEPT !.identified = FALSE], "POC", {Plain}, {}, 0)}

MCRequests ==
    {Request(a, o, Suggesting, {}, 0) : a \in Analyses, o \in
                                    {NoObjective, "FORMAL_PROPOSAL", "POC"}}
    \cup {Request(a, NoObjective, Stating \cup Telling \cup Timed, {}, 0) :
            a \in Analyses}
    \cup {Request(a, "PILOT", {Plain}, MCObjections, 3) : a \in Analyses}
    \cup Careless
=============================================================================
