-------------------------- MODULE ClientAnalysisMC --------------------------
(* Inputs for ClientAnalysis: rich answers about one client over several   *)
(* bodies of evidence, and thin answers over several clients with research *)
(* between them.                                                           *)
EXTENDS ClientAnalysis

Read(type, level, notes) ==
    [evidence_type |-> type, confidence |-> level, mn_basis |-> notes]

BuyingFact == Read("FACT", "HIGH", {"MN03"})
Guess      == Read("INFERENCE", "LOW", {"MN03"})
RivalFact  == Read("FACT", "HIGH", {"MN04"})
Difference == Read("INFERENCE", "MEDIUM", {"MN04"})
BothFact   == Read("FACT", "HIGH", {"MN03", "MN04"})

Corpus(readings) ==
    [i \in DOMAIN readings |-> Finding(0, i, readings[i])]

MCDiscoverable == {BuyingFact, Difference}

MCDrafts ==
    {d \in ClaimDraft(1 .. 3) :
        /\ Cardinality(d.refs) = 3 => d.statement /\ d.organization = "none"
        /\ d.organization = "invented" => d.statement /\ d.refs = {2}
        /\ d.organization # "none" => d.statement
        /\ ~d.statement => d.refs \in {{}, {2}}
        /\ d.gaps => d.refs = {}}

Scenario(client_ids, findings, our_solution, scope, search, answered) ==
    [client_ids |-> client_ids, findings |-> findings,
     our_solution |-> our_solution, scope |-> scope, search |-> search,
     answered |-> answered]

Dependent ==
    {"PROBLEM", "KBF", "COMPETITOR", "VALUE_PROPOSITION",
     "COMPETITIVE_ADVANTAGE"}

OneClient ==
    {Scenario(<<"c1">>, Corpus(readings), sold, "DOMESTIC", FALSE, Dependent) :
        readings \in {<<BuyingFact, RivalFact, Difference>>,
                      <<BothFact, RivalFact, Difference>>,
                      <<BuyingFact, Guess>>},
        sold \in BOOLEAN}

Commercial ==
    {Scenario(<<"c1">>, Corpus(<<BothFact, Guess>>), TRUE, "INTERNATIONAL",
              FALSE, {"KBF", "PRICE_SENSITIVITY", "PARTNER", "TARIFF"})}

SeveralClients ==
    {Scenario(client_ids, Corpus(<<RivalFact>>), TRUE, "DOMESTIC", TRUE,
              {"COMPETITOR"}) :
        client_ids \in {<<>>, <<"c1", "ghost", "c2">>, <<"c2", "c1">>,
                        <<"c1", "c1">>, <<"c1", "c2", "c1", "c2">>}}

MCScenarios == OneClient \cup Commercial \cup SeveralClients
=============================================================================
