----------------------------- MODULE EngagementMC -----------------------------
(* Inputs for Engagement, in families that each open one part wide and     *)
(* keep the others narrow: files, batches of passages, answers of research *)
(* and answers of discovery.                                               *)
EXTENDS Engagement

MCFrameworks == <<"A", "B">>

-----------------------------------------------------------------------------
(* Files *)

Archive(main, directories) ==
    [content_types |-> TRUE, main |-> main, directories |-> directories,
     expands |-> 1]

HeadOf(type) ==
    CASE type = "PDF" -> "%PDF" [] type \in OOXML_TYPES -> "PK"
      [] OTHER -> "other"

Document(type, units) ==
    [declared |-> type, head |-> HeadOf(type), size |-> 1,
     archive |-> Archive({type} \cap OOXML_TYPES, {}), fault |-> "none",
     units |-> units, category |-> "COMPANY_DATA", source_date |-> "recent",
     topics |-> {}, says |-> <<>>]

UnitsOf(type) ==
    CASE type = "HTML" -> {"text", "mark", "block", "open", "close"}
      [] type = "MD"   -> {"text", "head", "mark", "blank"}
      [] type = "DOCX" -> {"text", "table", "mark"}
      [] type = "PPTX" -> {"slide", "text", "mark", "graphic", "note"}
      [] type = "PDF"  -> {"page", "lost page", "text", "mark"}
      [] type = "TXT"  -> {"text", "mark", "blank"}
      [] type = "XLSX" -> {"sheet", "text", "blank"}
      [] OTHER         -> {"text", "blank"}

(* What a document of a type begins with. *)
Opening(type) ==
    CASE type = "PDF" -> {"page", "lost page"} [] type = "PPTX" -> {"slide"}
      [] type = "XLSX" -> {"sheet"} [] OTHER -> UnitsOf(type)

(* A slide ends with its notes. *)
IsDocument(type, units) ==
    /\ units[1] \in Opening(type)
    /\ \A i \in 2 .. Len(units) : units[i - 1] = "note" => units[i] = "slide"

Texts(type, longest) ==
    {units \in UNION {[1 .. n -> UnitsOf(type)] : n \in 1 .. longest} :
        IsDocument(type, units)}

Readings == UNION {{Document(type, units) :
                        units \in Texts(type, IF type \in {"PDF", "PPTX", "XLSX"}
                                              THEN 5 ELSE 4)} :
                    type \in FileTypes}

OnePage(type) ==
    Document(type, CASE type = "PDF" -> <<"page", "text">>
                     [] type = "PPTX" -> <<"slide", "text">>
                     [] type = "XLSX" -> <<"sheet", "text">>
                     [] OTHER -> <<"text">>)

(* Everything a file can be refused for. *)
Refusable ==
    {[OnePage("PDF") EXCEPT !.size = n] : n \in 1 .. 3}
    \cup {[OnePage(type) EXCEPT !.head = head] :
            type \in {"PDF", "DOCX", "TXT"}, head \in {"%PDF", "PK", "other"}}
    \cup {[OnePage(type) EXCEPT !.fault = fault] :
            type \in {"PDF", "XLSX", "CSV"},
            fault \in {"undecodable", "malformed", "encrypted", "not a zip",
                       "library raises", "escapes"}}
    \cup {[OnePage("DOCX") EXCEPT
                !.archive = [Archive(main, directories) EXCEPT
                                !.expands = n, !.content_types = n # 2]] :
            main \in {{}, {"DOCX"}, {"XLSX"}}, directories \in {{}, {"DOCX"}},
            n \in 1 .. 3}
    \cup {OnePage("MD")}

(* What a batch is made of: good, too large for what is left, too large,   *)
(* and one that raises.                                                    *)
Batchable ==
    {OnePage("TXT"), [OnePage("CSV") EXCEPT !.size = 2],
     [OnePage("PDF") EXCEPT !.size = 3],
     [OnePage("TXT") EXCEPT !.fault = "escapes"]}

Batches ==
    {<<f>> : f \in Readings \cup Refusable}
    \cup UNION {[1 .. n -> Batchable] : n \in {0, 2, 3}}

-----------------------------------------------------------------------------
(* Requests *)

Hit(snippet, publisher, topics, says) ==
    [snippet |-> snippet, publisher |-> publisher, source_date |-> "recent",
     topics |-> topics, says |-> says, size |-> 1]

Rows(first, second, third, fourth, mentions) ==
    [findings |-> first, inferences |-> second, swot |-> third,
     issues |-> fourth, mentions |-> mentions]

NoAnswers ==
    [findings |-> {}, inferences |-> {}, swot |-> {}, issues |-> {},
     mentions |-> {}, fit |-> {}]

IntakeOnly ==
    [files |-> <<>>, hits |-> <<>>, frameworks |-> <<>>, shortlist |-> FALSE,
     infer |-> FALSE, research |-> FALSE, discovery |-> FALSE,
     rows |-> Rows(0, 0, 0, 0, 0), answers |-> NoAnswers]

Uploading ==
    {[IntakeOnly EXCEPT !.files = batch] : batch \in Batches}
    \cup {[IntakeOnly EXCEPT !.files = <<OnePage("MD")>>,
                !.hits = <<Hit(snippet, TRUE, {}, <<>>),
                           Hit(TRUE, FALSE, {}, <<>>)>>] : snippet \in BOOLEAN}

Draft(type, ref, level, summary) ==
    [evidence_type |-> type, ref |-> ref, confidence |-> level,
     summary |-> summary]

Inference(refs, level) == [refs |-> refs, confidence |-> level]

Item(category, refs) == [category |-> category, refs |-> refs]

Issue(swot_refs, refs, level, complete) ==
    [swot_refs |-> swot_refs, refs |-> refs, confidence |-> level,
     complete |-> complete]

Paper(topics, size) ==
    [OnePage("PDF") EXCEPT !.topics = topics, !.size = size]

Filed(category, paper) == [paper EXCEPT !.category = category]

(* Passages of several sizes and topics, put to every choice of frameworks.*)
Reading ==
    {[IntakeOnly EXCEPT !.files = papers, !.research = TRUE,
            !.hits = <<Hit(TRUE, publisher, {"B"}, <<>>)>>,
            !.frameworks = frameworks, !.shortlist = short,
            !.rows = Rows(1, 0, 0, 0, 0),
            !.answers = [NoAnswers EXCEPT
                !.findings = {Draft("FACT", 1, "HIGH", FALSE)}]] :
        papers \in {<<>>, <<Paper({"A"}, 1)>>,
                    <<Filed("EXTERNAL_BUSINESS_DATA", Paper({}, 2))>>,
                    <<Paper({"A"}, 1), Paper({"B"}, 2)>>,
                    <<Paper({"A", "B"}, 2), Filed("USER_PROVIDED", Paper({}, 1))>>},
        publisher \in BOOLEAN, short \in BOOLEAN,
        frameworks \in {<<>>, <<"B">>, <<"B", "A">>}}

(* Every kind of row, over one passage of a document and one of a search.  *)
Concluding ==
    {[IntakeOnly EXCEPT !.files = papers, !.research = TRUE,
            !.hits = <<Hit(TRUE, TRUE, {"B"}, <<>>)>>,
            !.frameworks = <<"B">>, !.infer = infer,
            !.rows = Rows(1, 1, 2, 1, 0),
            !.answers = [NoAnswers EXCEPT
                !.findings = {Draft("FACT", 1, level, FALSE),
                              Draft("FACT", 3, "HIGH", FALSE),
                              Draft("MISSING_EVIDENCE", 0, "HIGH", summary),
                              Draft("ASSUMPTION", 0, "MEDIUM", FALSE),
                              Draft("INFERENCE", 1, "HIGH", TRUE)},
                !.inferences = {Inference({1}, "HIGH"),
                                Inference({1, 2}, "HIGH"),
                                Inference({1, 9}, "LOW"), Inference({9}, "LOW")},
                !.swot = {Item("STRENGTH", {1}), Item("THREAT", {1, 2}),
                          Item("none", {1}), Item("WEAKNESS", {3})},
                !.issues = {Issue({1}, {}, "HIGH", TRUE),
                            Issue({1, 2}, {3, 9}, "MEDIUM", TRUE),
                            Issue({1}, {1}, "LOW", FALSE),
                            Issue({9}, {1}, "HIGH", TRUE)}]] :
        papers \in {<<Paper({"A"}, 1)>>,
                    <<Paper({"A"}, 1),
                      [Paper({"B"}, 1) EXCEPT !.source_date = "old"]>>},
        infer \in BOOLEAN, level \in {"HIGH", "LOW"}, summary \in BOOLEAN}

(* Two frameworks over two batches: what the second one reads comes after  *)
(* what the first one found.                                               *)
Crossing ==
    {[IntakeOnly EXCEPT !.research = TRUE, !.infer = TRUE,
            !.files = <<Paper({"A"}, 2)>>,
            !.hits = <<Hit(TRUE, TRUE, {"B"}, <<>>), Hit(TRUE, TRUE, {}, <<>>)>>,
            !.frameworks = <<"A", "B">>, !.rows = Rows(1, 1, 1, 1, 0),
            !.answers = [NoAnswers EXCEPT
                !.findings = {Draft("FACT", 1, "HIGH", FALSE)},
                !.inferences = {Inference({1}, "HIGH"), Inference({1, 2}, "HIGH")},
                !.swot = {Item("STRENGTH", {1, 2})},
                !.issues = {Issue({1, 3}, {5}, "HIGH", TRUE)}]]}

-----------------------------------------------------------------------------
(* Organizations *)

Capital(word)  == Token(word, "Capital", FALSE)
Lower(word)    == Token(word, "lower", FALSE)

Delta          == <<"delta", "water">>
DeltaLtd       == <<"delta", "water", "ltd">>
DeltaHoldings  == <<"delta", "water", "holdings">>

Says ==
    {<<Capital("delta"), Capital("water"), Capital("ltd"), Lower("won")>>,
     <<Capital("delta"), Token("water", "Capital", TRUE), Lower("won")>>,
     <<Capital("delta"), Capital("water"), Capital("partners")>>,
     <<Capital("gamma"), Lower("bought"), Capital("delta"), Capital("water")>>,
     <<Capital("delta"), Capital("water"), Token("and", "particle", FALSE),
       Capital("partners")>>}

Mention(name, ref) == [name |-> name, ref |-> ref]

Fit(criterion, level, refs, signal) ==
    [criterion |-> criterion, level |-> level, refs |-> refs,
     signal |-> signal, too_long |-> FALSE, gap |-> FALSE]

FitAnswer(rationale, rows) == [rationale |-> rationale, rows |-> rows]

(* Names the provider may report of two passages, whatever they say. *)
Naming ==
    {[IntakeOnly EXCEPT !.research = TRUE, !.discovery = TRUE,
            !.files = <<[Paper({}, 1) EXCEPT !.says = first]>>,
            !.hits = <<Hit(TRUE, TRUE, {}, second)>>,
            !.frameworks = <<"A">>, !.rows = Rows(1, 0, 0, 0, 3),
            !.answers = [NoAnswers EXCEPT
                !.findings = {Draft("FACT", 1, "HIGH", FALSE)},
                !.mentions = {Mention(Delta, 1), Mention(DeltaLtd, 2),
                              Mention(DeltaHoldings, 1),
                              Mention(<<"delta">>, 2),
                              Mention(<<"delta", "ltd">>, 1),
                              Mention(<<"water", "partners">>, 2),
                              Mention(Delta, 9),
                              Mention(<<"gamma">>, 1)},
                !.fit = {FitAnswer("given",
                            <<Fit("PROBLEM_FIT", "MODERATE", {1}, FALSE)>>)}]] :
        first \in Says, second \in Says}

Core(problem, solution, capability) ==
    <<problem, Fit("SOLUTION_FIT", solution, {1}, FALSE),
      Fit("CAPABILITY_FIT", capability, {1}, FALSE)>>

Problems ==
    {Fit("PROBLEM_FIT", "STRONG", refs, FALSE) : refs \in {{1}, {2}, {3}}}
    \cup {Fit("PROBLEM_FIT", "WEAK", {1}, FALSE),
          [Fit("PROBLEM_FIT", "EVIDENCE_NEEDED", {1}, FALSE)
                EXCEPT !.gap = TRUE]}

Commercials ==
    {Fit("PURCHASING_POTENTIAL", "STRONG", refs, TRUE) : refs \in {{1}, {2}}}
    \cup {Fit("ACCESSIBILITY", "MODERATE", {2, 3}, TRUE),
          Fit("ACCESSIBILITY", "STRONG", {1}, FALSE),
          Fit("COMPETITIVE_SITUATION", "WEAK", {1}, FALSE),
          Fit("PURCHASING_POTENTIAL", "STRONG", {}, TRUE)}

Grounded ==
    {FitAnswer("given", Append(Core(problem, solution, "MODERATE"), commercial)) :
        problem \in Problems, commercial \in Commercials,
        solution \in {"MODERATE", "UNKNOWN"}}

Ungrounded ==
    {FitAnswer("given", <<Fit("PROBLEM_FIT", "STRONG", {}, FALSE)>>),
     FitAnswer("given", <<Fit("PROBLEM_FIT", "STRONG", {9}, FALSE),
                          Fit("PROBLEM_FIT", "WEAK", {1}, FALSE)>>),
     FitAnswer("given",
        <<[Fit("PROBLEM_FIT", "STRONG", {1}, FALSE) EXCEPT !.too_long = TRUE]>>),
     FitAnswer("given", <<Fit("REPUTATION", "STRONG", {1}, FALSE)>>),
     FitAnswer("absent", <<>>), FitAnswer("too long", <<>>)}

DeltaWon == <<Capital("delta"), Capital("water"), Lower("won")>>

(* One organization, facts of a document or a search, inferences on them.  *)
Judging ==
    {[IntakeOnly EXCEPT !.research = TRUE, !.discovery = TRUE,
            !.files = <<[Paper({}, 1) EXCEPT !.says = DeltaWon]>>,
            !.hits = <<Hit(TRUE, TRUE, {}, DeltaWon)>>,
            !.frameworks = <<"A">>, !.infer = TRUE,
            !.rows = Rows(2, 1, 0, 0, 1),
            !.answers = [NoAnswers EXCEPT
                !.findings = {Draft("FACT", 1, "HIGH", FALSE),
                              Draft("FACT", 2, "HIGH", FALSE)},
                !.inferences = {Inference({1}, "HIGH")},
                !.mentions = {Mention(Delta, 2)}, !.fit = menu]] :
        menu \in {Grounded, Ungrounded}}

MCRequests == Uploading \cup Reading \cup Concluding \cup Crossing
              \cup Naming \cup Judging

-----------------------------------------------------------------------------
(* What the two disagreements need *)

MCKnownFromSearch ==
    {[IntakeOnly EXCEPT !.research = TRUE, !.discovery = TRUE,
            !.hits = <<Hit(TRUE, TRUE, {}, DeltaWon)>>,
            !.frameworks = <<"A">>, !.infer = TRUE,
            !.rows = Rows(1, 1, 0, 0, 1),
            !.answers = [NoAnswers EXCEPT
                !.findings = {Draft("FACT", 1, "HIGH", FALSE)},
                !.inferences = {Inference({1}, "HIGH")},
                !.mentions = {Mention(Delta, 1)},
                !.fit = {FitAnswer("given",
                    Append([n \in 1 .. 3 |->
                        [Core(Fit("PROBLEM_FIT", "STRONG", {1}, FALSE),
                              "MODERATE", "MODERATE")[n]
                            EXCEPT !.refs = refs]],
                        Fit("PURCHASING_POTENTIAL", "STRONG", refs, TRUE))) :
                    refs \in {{1}, {2}}}]]}

MCLongerName ==
    {[request_of EXCEPT
        !.hits = <<Hit(TRUE, TRUE, {}, <<Capital("mekong"), Capital("delta"),
                                         Capital("water"), Lower("won")>>)>>] :
        request_of \in MCKnownFromSearch}
=============================================================================
