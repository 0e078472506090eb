# Verification of the client-discovery harness

TLA+ models of the parts of this repository that are hard to test, the TLC
configurations that check them on small instances, and TLAPS proofs of the
properties that matter most, for every value of the constants. Everything here
is translated from the code under `src/`; `PROJECT.json` maps each definition to
the lines it models.

## 1. Inventory

The harness turns documents and search results about a company into findings,
client candidates, analyses, proposals and a pricing case. A proof application
(`scripts/spikes/phase8_deployment_proof`) runs it behind a web page.

| Part | State | Operations | Correct when |
|---|---|---|---|
| `proof_app/runs.py`, `harness_probe.py` | running coroutines, the furthest stage reported, a thread per run | `start`, `_drive`, `report`, failure recording, the stages of `run_bootstrap` | what is stored of a run is true of it; a run settles; a lost process is noticed |
| `proof_app/store.py` | table `proof_run`, this process's start | `create_run`, `set_status`, `get_run` | a row is read for what it means, not echoed |
| `proof_app/app.py`, `templates/run.html` | the rendered page, its timer, fetches under way | upload, page, JSON, poll, reload | a page never shows a finish that is not one, and stops polling |
| `adapters/storage/sqlite.py` | one file: version, rows, the open transaction; a write lock per instance | initialise, append, replace, list, one | no save lost or torn; the same answers as `memory.py` |
| `core/pricing_bridge`, `adapters/pricing/file.py` | the stored `PricingResult`s, the exchanged files | build a case, acknowledge gaps, write, attach an answer | nothing leaves with a blocking gap nobody acknowledged; an answer is filed under its own case |
| `core/analysis` | claims per dimension, the outcome of a run | research, claims per framework group, cross-dimension rules, check, persist | a claim rests on evidence; an answer that is merely poor never loses an analysis |
| `adapters/intake`, `core/intake` | incoming buffers, bytes of the batch | ingest, close, the parsers | buffers released on every path; limits hold; nothing readable is lost, and a locator names where a passage is |
| `core/research` | none beyond one run's outcome | batches, extraction, inference, SWOT, key issues, persist | every passage is read; confidence is derived, never raised; citations were offered |
| `core/client` | none beyond one run's outcome | criteria, mentions and their verification, fit, priority, persist | a candidate is named by its sources; a band follows from evidence |
| `core/proposal` | none beyond one run's outcome | objective, statements, storyline, gaps, objections, check, persist | what an analysis refused is not argued later; no gap is lost |
| `adapters/llm`, `adapters/search` | none between calls | one request with retries | only transient failures are resent; every billed request is accounted for |
| `core/evidence.py` | none | entity checks | they accept what the pipelines build and nothing unfounded |
| `core/transmission.py`, `core/harness.py`, knowledge and prompt loading | provider slots | `send`, `create_harness` | wiring |

How they interact: the upload handler writes a row and starts a coroutine on the
event loop; the coroutine waits for a worker thread that runs intake and the
research pipeline and reports stages into the same table; pages read the table
from the loop. The pipelines call the providers synchronously, read what the one
before them established (passages, findings and key issues, candidates,
analyses, strategies) and hand their results to a storage provider at the end. The pricing hand-off crosses to
another program through files.

Hard behaviours: a process lost at any step; cancellation that stops a coroutine
and not its thread; status writes that raise, also while recording a failure;
overlapping fetches; threads and processes writing one SQLite file; approvals
and answers that belong to an earlier state of a case; a run of several clients
of which one fails; answers of a language model that cite what they were not
shown, in any order of rows; an exception between two of several saves. `PROJECT.json` lists them as hazards with their lines.


## 2. Modules and the code they model

Modules, from the leaves up. `RunStatus`, `RunLifecycle`, `EntityStore`,
`Confidence` and `Places` are shared vocabulary or abstract specifications; the
rest are components. `..MC` modules give constants their values for TLC, `.._proofs`
modules hold theorems.

| Module | Models | Uses |
|---|---|---|
| `RunStatus` | the states of a run and `reading_for` | |
| `RunLifecycle` | abstract: how the readings of a run may move | `RunStatus` |
| `BootstrapRun` | `runs.py`, `harness_probe.run_bootstrap`, `store.proof_run`, the upload handler, the process | `RunStatus`; implements `RunLifecycle` |
| `StatusPage` | `run.html`, `app.run_page`, `app.run_json` | composed with `RunLifecycle` |
| `PricingHandoff` | `core/pricing_bridge`, `adapters/pricing/file.py`, the pricing harness (external) | |
| `EntityStore` | abstract: what a storage provider owes, in the terms of `memory.py` | |
| `Places` | places in a list as sets of positions: the first, the n-th | |
| `SqliteStorage` | `adapters/storage/sqlite.py` | `Places`; implements `EntityStore` |
| `ProjectRecords` | what the stages of an engagement hand to each other: request, sources, passages, what is stored | |
| `DocumentParsers` | `adapters/intake/text.py`, `office.py`, `pdf.py`, `html.py`: how a document is cut and located | |
| `IntakeSession` | `adapters/intake/session.py`, `core/intake/policy.py`, `core/research/sources.py`, the callers that save | `ProjectRecords`, `DocumentParsers` |
| `ResearchRun` | `core/research/pipeline.py` and its parts | `ProjectRecords`, `Places`, `Confidence` |
| `NameMatch` | `core/client/verify.py` | |
| `EvidenceChecks` | the checks of `core/evidence.py` on sources, findings, SWOT items, key issues, candidates | `ProjectRecords` |
| `ClientDiscovery` | `core/client/pipeline.py`, `discover.py`, `fit.py`, `priority.py` | `ResearchRun`, `NameMatch`, `EvidenceChecks` |
| `EvidenceTrail` | abstract: records are only added, each after all it cites | |
| `Engagement` | intake, search, research and discovery in the order callers drive them | `IntakeSession`, `ClientDiscovery`; implements `EvidenceTrail` |
| `ProposalStrategy` | `core/proposal` with `check_proposal_strategy` | |
| `Confidence` | levels, `weakest`, `cap` of `core/research/confidence.py` | |
| `AnalysisClaims` | `core/analysis/claims.py`, `dimensions.py`, the checks of `core/evidence.py` | `Confidence` |
| `ClientAnalysis` | `core/analysis/pipeline.py`, `research.py` | `AnalysisClaims` |
| `ProviderCall` | one call of `adapters/search/brave.py` or `adapters/llm/anthropic.py` | |

Each component's `TypeOK` states the shape of its state. It is proved where the
component has a `_proofs` module; no run lists it, the runs are kept for properties that say more than a shape.

Actions have the name of the function they translate where there is one
(`create_run`, `_drive`, `run_pricing_handoff`, `write_payload`,
`_initialise`, `_record_usage`); an operator marked `Mutant` is a wrong version
of the one after it, used to show that a property notices the difference.

**BootstrapRun.** `row` is the table; `task` and `worker` are the coroutine
`_drive` and the thread inside `work(report)`; `stage` is `progress["stage"]`;
`handler` is the upload handler between `create_run` and `start`. Everything
but `row` is gone with the process (`ProcessDies`). `Shutdown` is the graceful
stop: it cancels the coroutines, and threads run on. Every store write may raise
instead (`StoreRaises`), and `_record_failure` then logs one line
(`unrecorded`). A coroutine runs between two awaits without interruption, so a
handler or a resumed `_drive` is one action; worker threads interleave with it.
`researched` is a history variable: the runs whose research was persisted.
Timestamps are compared with a process start only, so a write carries the number
of the process that made it.

**StatusPage.** The run underneath is `RunLifecycle`, not `BootstrapRun`:
`ImplementsLifecycle` lets every result about the page carry over. `page` is the
document's state, `answers` the fetches on their way. The script fetches every
tick without waiting for the fetch before, so answers arrive in any order, and
also after `clearInterval`.

**PricingHandoff.** `records` is what storage holds, in save order; `approved`
is what a person acknowledged, with the wording shown; `files` and `answers` are
the two directions of the file exchange. `Revise` changes a strategy's needs at
any time, `Approve` may approve from any stored record, and a caller may hand
any record, old or new, to `write_payload` and to `attach_engine_result`. The
pricing harness is another program: `EngineAnswers` copies a file's identity
into an answer. `gap_ref` is a truncated digest in the code and the digested
tuple here, so collisions are outside the model.

**SqliteStorage.** One write transaction at a time, readers see committed rows,
a transaction dies with its process. `pending` is what the open transaction
sees; `init` follows `_initialise` statement by statement because each commits
on its own. `lock` is the adapter instance's `_write_lock`, one per process.
`SaveFails` stands for every exception of a statement or of the commit.
`_one` and `_list` read the committed rows back, the latter by its `ORDER BY
row_id`, and `SameAsMemory` says that these reads behave as `EntityStore`.

**ClientAnalysis.** `input` is the call's arguments, `position` the client in
hand, `all` its `all_findings`, `claims` and `overseas` the claims so far,
`outcome` what the caller would get. A statement is only present or absent; a
reference `F<n>` is the position of a finding; an organization is named or not,
and in the cited passage or not. `Row` takes one row of a provider's answer, for
any dimension of the group and in any order, and does what `resolve_claim` does.
`ProviderRaises` ends the call wherever a prompt or query leaves. Left out:
rejections, flags, transmission records, partner profiles and the access route,
which no later step reads.

**ProviderCall.** Both adapters, side by side, because they share the loop and
differ in the order of what follows: the search adapter reads the results and
then records usage, the model adapter records usage and then judges the answer.
`last` is the handler's `last_error`, `reset` what the failed answer announced,
`usage` the records handed to the caller's sink.

**ProjectRecords, DocumentParsers, IntakeSession.** `buffers` are the bytearrays
handed over, `batch_bytes` is `session.batch_bytes`, `read_bytes` a history
variable. A file is ingested and its record saved before the next one, as both
callers do; `ingest_raises` and `SaveRaises` leave the `with` block, and `close`
ends it either way. A document is the sequence of its units, as the library that
opens it hands them over: lines, rows with their sheets, blocks with their pages,
shapes and notes with their slides, paragraphs, tables, tags. A unit of text is
blank, a lone mark too short to quote or readable; a lost page and a shape without
a text frame are units the parser passes over. A passage `holds` units and `claims`, by its locator, to
be at units, and the two are computed as the parsers do, so they can differ.
Opening a file is a library's business: `fault` says how that went.

**ResearchRun.** `call` is the provider call being made: the passage its batch
begins with, the place of its framework, the rows read. A batch runs from its
first passage to the last one that `batch_candidates` still lets in, so the
batches of a run are known one by one, each when its first passage is reached;
the rules that pick from a list (scoped facts, the strongest evidence) say which
positions they pick (`Places`). `offered` the extraction calls made, `skipped` the frameworks reported as
skipped. A provider answers row by row (`extract_findings`, `infer_findings`,
`classify_swot`, `derive_key_issues`) anything a request's menu holds, or raises
(`send`), which loses the run. E, F and S references are positions in what the
prompt listed, so a reference may point beyond it. `persist_research` saves one
record at a time and may raise between two.

**ClientDiscovery, NameMatch.** `organizations` are the verified mentions grouped
by name; `Mentioned` compares a name with the cited passage token by token as
`name_appears_in` does; `assess` takes one organization, resolves the eight
criteria, decides the band and checks the candidate. `dropped` says why an
organization is not among the candidates.

**Engagement.** The composition: the steps of intake, search, research and
discovery over one set of records, in the order `harness_probe.py:83` and
`run_example.py:200` call them in one process. Its `stored` implements
`EvidenceTrail`: whoever opens the store, after whatever failure of whatever
stage, can follow every reference.

**ProposalStrategy.** `answer` is what the provider proposed, `strategy` the
draft under way, `saved` what reached storage. Optional parts are sets of at most
one; a sentence is the figures and the objectives its words contain, since that
is what the rules look at. The storyline kept is the function over the positions
that stand, and the needs carried forward one over the gaps, each where it is
recorded first. `check` is the pipeline's last word on the draft.

## 3. Runs

| Run | Bounds | What it shows |
|---|---|---|
| `BootstrapRun` | 3 runs, 2 threads, 2 failing writes, 3 processes (314,418 states) | stored and read states are true; `RunLifecycle` is implemented; a run settles, or rests where `RunsSettle` says |
| `StatusPage` | 1 run, 3 tries | the page never shows a false finish; polling ends |
| `PricingHandoff_gate` | 2 cases, 2 strategies of 2 clients, 1 wording × 2 timings, 1 sheet, 3 records; symmetry over cases | the gate holds over every order of revising, approving, building, writing, answering |
| `SqliteStorage_saves` | 3 threads in 2 processes, 1 project, 2 payloads, 3 saves, 1 crash | no save lost or torn; same as memory; saves end |
| `ClientAnalysis_claims` | at most 3 clients, 2 findings per group, 2 queries | no analysis lost; claims are earned; evidence is kept apart |
| `ProviderCall` | 3 attempts, waits 1, 2, 3 (cap 3), announced waits 0, 2, 9 | nothing answered is asked twice; what an answer cost is on record if it can be read, and else the answer is raised, not returned; it ends |
| `Engagement` | 2 rows per table passage, files of 1 to 3 bytes against limits of 2 a file and 3 a batch, 2 passages and 3 characters per prompt, 2 findings per batch, 2 organizations, 4 findings offered; all file types but Markdown supported (131,518 states) | intake bounds and releases; passages are faithful; every passage is read; derived fields follow from evidence; the trail holds; it ends |
| `ProposalStrategy` | 2 storyline steps, 2 objections (35,870 states) | a strategy promises what its analysis established, and loses no gap |
| `PricingHandoff_doc_blocked`, `SqliteStorage_doc_refused`, `Engagement_doc_p1`, `Engagement_doc_name` | the smallest that show it | section 6 |

Why the bounds are enough for the cases that matter. *BootstrapRun*: three runs
on two threads let one wait for a thread while two work; three processes let a
row outlive one process, be read by a second and be compared with a third; two
failing writes let the write that records a failure fail too. The last process
(number `MaxStarts`) is never lost, which is what "a process that is not lost"
means in the liveness properties. *StatusPage*: pages do not share state, so one
run is enough; three tries allow three answers on their way at once.
*PricingHandoff*: three records are a build, a revision with a rebuild, and an
answer attached, and two cases with two clients let answers be crossed; the
timing decides whether a need blocks, so one wording with two timings has every
kind of revision. *SqliteStorage*: two threads share a lock and a third does
not; three saves let two replacements and an append meet, one crash hits any
step. *ClientAnalysis*: three kinds of inputs, each bounded on its own. One
client with five of the dimensions that depend on each other answered from three
bodies of evidence; one international client; several clients, among them an
unknown one, the same one twice and one too many, with research between them.
Drafts cite up to three references of which two at most are offered, so
invented references occur. *ProviderCall*: three attempts give a first, a middle
and a last failure, and the announced waits lie below, within and above the cap.
*Engagement*: inputs come in families that open one part wide and keep the others
narrow. `Uploading` has every document of up to four units of every type (five
of PDF, PowerPoint and Excel, whose first unit opens a page, a slide or a sheet),
every reason to refuse a file and every batch of up to three good, oversized and
raising files; that holds two blocks with two separators, a second chunk of a
table, a nested element, two blocks on one page between a lost page and another,
a slide with notes before the next, and two sheets. Markdown is the type the
policy refuses, so that a type is refused; of how it is cut only the proof
speaks. `Reading` and `Crossing` have batches that close by
number, by length and by the end, and two frameworks over two of them, so that
positions in a prompt differ from positions in the run. `Concluding` has every
kind of row, references to nothing included. `Naming` has five texts, two at a
time, against eight names; `Judging` every way a criterion can be earned, limited
or lost. *ProposalStrategy*: each family varies one part (objective, statements,
storyline, gaps, objections) over analyses that settle or refuse what it rests
on.

`CHECK_DEADLOCK FALSE` stands where the modelled system may rest: no upload is
due (BootstrapRun), every page is closed or finished (StatusPage), the saves of
the bound are done (SqliteStorage), the last stage has returned or raised
(Engagement, where `EngagementEnds` says that nothing rests before that, and
ProposalStrategy). The other runs check for deadlock, with an
explicit `Rest` at the end of a call.

## 4. Fairness

* `BootstrapRun`: the event loop runs a ready coroutine, a worker thread
  finishes its work (`run_bootstrap` has no unbounded loop and its providers are
  deterministic local ones), the platform ends a stopping process and starts the
  next one. Nothing makes anyone upload, and nothing makes anything crash.
  Fairness is weak and per run, as threads and coroutines are independent.
* `StatusPage`: the interval fires and a reload ends, in a document that is
  alive. Answers are under no obligation to arrive.
* `SqliteStorage`: a thread inside a save takes steps; a wait for another
  process's transaction ends in SQLite's timeout, that is in `SaveFails`.
* `ProviderCall`: every step is the calling thread's own, and the transport is
  given a timeout.
* `Engagement`: `WF_vars(Next)`. One thread runs the stages one after the other,
  every provider call ends with an answer or an exception (`ProviderCall` shows
  it of the network adapters), and an answer has finitely many rows.
* `PricingHandoff`, `ClientAnalysis` and `ProposalStrategy` state safety only and assume none:
  nothing in the code makes a person approve or a provider answer.

## 5. Proofs

TLAPS checks the theorems of the eight `_proofs` modules, for every value of the
constants. The assumptions are those named in the modules, and TLC evaluates
each on the instances of the runs:

* of the wiring: `BootstrapAssumption` (at least one thread and one process,
  `NoRun` is no run), `SqliteAssumption` (a thread belongs to a process),
  `StatusPageAssumption` (a page has at least one try), `PricingAssumption`
  (`ClientOf` maps strategies to clients, timings are those of the enumeration);
* of the policies: `PolicyAssumption` (a retry policy's numbers),
  `LimitsAssumption`, `RowsAssumption`, `DiscoveryPolicyAssumption`,
  `ProposalPolicyAssumption` and `BoundsAssumption` (limits are naturals, a table
  passage holds a row, an analysis takes a client), `ResearchPolicyAssumption`
  (the same; a prompt holds at least one passage);
* of what callers pass: `FilesAssumption` (files are lists of units with a type
  and a length), `HitsAssumption` (a search returns results),
  `ScenariosAssumption` (the project's findings have an id each),
  `RequestsAssumption` (an objective is of the list, or none);
* of what a provider may answer: `AnswersAssumption` and `MentionsAssumption` (a
  confidence is one of the levels, a name is a list of words, a rationale is
  given, absent or too long), `DiscoverableAssumption` (a search yields findings).
  They are the shapes the parsing of an answer leaves, none says that a
  reference, a name or a row makes sense.

The bounds of the runs (`MaxStarts`, `MaxRecords`, ...) are arbitrary naturals in
the theorems. Every strengthening below was checked by TLC on the instance of the
component's run before it was proved.

**BootstrapRun_proofs.** None of the properties is inductive: that a settled run
has no writer depends on what a thread may still report, and that depends on
how row, stage and thread lag behind each other. `RunInv(r)` says it: for every
run in flight, `RowMatchesWorker` gives the row, stage and history each place in
the thread's code can have, including "stage noted, write failed"; a pending
coroutine implies a live process and a cancelled one a stopping process; a row
still `RUNNING_*` in its own process has a coroutine or a log line. With
`Honest(r)` and the types it is inductive (`Invariance`). From it follow
`TypeCorrect`, `FailuresAreHonest`, `SettledRunsAreFinal`, `RunningRunsAreOwned`
and `Refinement`: every step is a step of `RunLifecycle` under the mapping
`reading <- [r |-> Reading(r)]`, the start of a process being the abstract
`ProcessLost`.

**PricingHandoff_proofs.** The invariant adds to the three properties that an
approved ref is the digest of the need that was approved (`RefsAreDigests`) and
that a file is filed under the case it names (`FilesAreNamed`). The core is
`RefDeterminesNeed`: two needs of one strategy with equal refs are the same, so
an approval of a ref is an approval of the need. Theorems: `TypeCorrect`,
`HandoffIsGated`, `ReleaseIsApproved`, `AnswersMatch`.

**SqliteStorage_proofs.** `SaveInv(t)` fixes what the open transaction sees at
each statement in terms of the committed rows, and that whoever is inside a
transaction opened it. Only `Commit` changes the rows, so the rest is an
argument about one action. The write lock is not used anywhere: these properties
hold by the file's single write transaction alone. `SavesAreWhole` is the
refinement of `EntityStore` by the reads: a commit of a project leaves one row of
it (`OneIsRead`), a commit of anything else an id above all others, so that the
ordered list is the old one with an element more (`ListIsAppended`, from the
lemmas about the n-th place of a set), and no other step changes a read. Theorems:
`TypeCorrect`, `ProjectsAreUnique`, `NothingLost`, `SavesAreWhole`. That the order
of the lists is the order of the saves is part of the last one: `EntityStore`
appends, and the row ids the reads sort by are only the means (`IdsAreCounted`, a
part of the invariant).

**StatusPage_proofs.** That a finish on the page is a finish of the run depends
on answers still on their way, so the invariant adds that no such answer is
ahead of the run (`AnswersAreNotAhead`), and that a page polls only with tries
left and only of an existing run. `TerminalIsFinal` carries it across steps of
the run. The run is `RunLifecycle`; by `Refinement` of `BootstrapRun_proofs` the
result is one about the real runner. Theorems: `PageTypeCorrect`,
`FinishIsNeverFalse`.

**ProviderCall_proofs.** The invariant (`PlaceInv`) says what each place of the
loop knows: a call in flight has no answer yet, a failed one a code and perhaps
an announced wait, a slept one a code of the policy, an answered one exactly its
own attempt on record or none. Theorems: `CallTypeCorrect`, `CostsAreOnRecord`,
`WaitsFit`, `NothingIsAskedForTwice`, for any policy. The planned waits are
powers of the multiplier, of whose size the prover knows nothing, so the waits'
numerical range is left out of the type.

**Engagement_proofs.** The whole engagement, for any files, search results,
limits, policies and answers. `EngagementInv` is a conjunction of ten parts, each
kept by the steps given the parts before it (`EngagementNext`):

* `IntakeInv`: what is charged to a batch may exceed its limit, because refused
  files are charged too; what is read stays below what was charged before it was
  charged (`ReadIsCounted`, `ReadIsWithinLimits`). Between two files no buffer
  holds anything, and while one is checked only the last one does
  (`OnlyTheLastIsHeld`).
* `SourcesInv`: sources pass their check and every passage is of one of them.
* `StageInv`: what a later stage fills is empty until that stage begins.
* `CallInv`: a batch begins at a passage, its framework is one that is asked, the
  last call on record is the one being answered. Without it nothing ties a
  reference to the prompt it was read from.
* `ReadInv`: passages before the batch are settled with every framework, those
  after it with none, and in the batch exactly the frameworks begun are done.
  `EveryPassageIsRead` is what is left of it when the last batch is closed.
* `FindingsInv`: each finding cites what came before it and is no firmer than the
  weakest of that; `IssuesInv` the same of SWOT items and key issues.
* `OrganizationsInv`: an organization has only sources that write its name, also
  after a mention under another spelling was merged into it.
* `ClientsInv`: what `assess` derived of a candidate (`SoundClient`), and that a
  check dropped one only for an answer without grounds.
* `StoredInv`: what the store holds at each stage, so that a record's references
  are stored before it.

The parts follow the order of the code because each stage rests on what the one
before it left.

That passages say where they are (`PassagesAreFaithful`) is a fact about the
parsers alone, proved for any document (`DocumentsAreFaithful`). The passages a
parser lists are all those it cuts out, each once (`InOrderIsComplete`), because
no two end at the same place. Sections, rows of a sheet, and the shapes or the
notes of a slide are classes of units with a common key (`Groups`), hence
disjoint; blocks of a page are passages of one unit that claim the whole page.
What the HTML parser takes, by its depth, is what stands in no skipped element
(`Hidden`), by counting what opens and closes since the depth was last zero. Blocks
of a text file are its maximal runs of lines that are not blank; the line counter
of `text.py` adds one for every block, and it is the line a block begins at when
no two lines in a row are blank, because the blank lines before a block and the
blocks before it then are as many (`CounterIsRight`, by a bijection between them).
The first and the last line belong to the block beside them even when blank
(`BlockLines`): the parser splits only between lines.

Theorems: `PassagesKeepTheirPlaces`, `TypeCorrect`, `BatchesAreBounded`, `NoBufferIsKept`,
`AllIsRead`, `NoConfidenceRises`, `KeptRecordsAreValid`, `CandidatesAreNamed`,
`FirstBandsAreEarned`, `OnlyTheUngroundedGo`; the action property
`ReferencesAreToTheirPrompt`; and `StagesKeepTheTrail`, the refinement of
`EvidenceTrail`, where a step saves one record with all it cites or maps to a
stutter.

**ClientAnalysis_proofs.** Several clients one after the other share a pool of
findings, so the invariant has to tell them apart. `Fresh`: ids are unique, and a
finding still to be read has an id nobody has. `OwnPool`: what a client may be
told about is the project's or its own. `ClaimsSoFar` and `OverseasSoFar`: the
claims answered so far are `Sound`, that is earned by findings of the pool and no
firmer than the best of them, and once all are there the rules across dimensions
hold; the advantage needs `OneFramework`, because its comparison must be among the
findings of the very framework it was asked with. `Kept` says the same of an
analysis that is built, and `NoneMissing` that none is left out. The lemmas before it follow
`resolve_claim` and the cross-dimension rules step by step. Theorems:
`TypeCorrect`, `AnalysesAreAllThere`, `AdvantagesCompare`,
`PropositionsAddressProblems`, `CreditIsEarned`, `EvidenceIsOwn`.

**ProposalStrategy_proofs.** The draft under way is a function of the first
answer (`Drafted`) with the objections read so far, and the invariant says so
(`IsDraft`): each property is then one of the rules, for any answer. The rules
across statements need their order (a value proposition is withdrawn with its
objective's requirements, a step with its objective), and the gaps a counting of
positions: a gap named by several dimensions is recorded at the first
(`FirstIsRecorded`). `RefusedOnlyForKnownCauses` is an equivalence, proved from a
lemma per rule of `check_proposal_strategy` (`OnlyKnownCausesFail`). Theorems: `TypeCorrect`,
`ObjectivesAreGiven`, `GapsAreCarried`, `RefusalsHold`, `FiguresHaveSources`,
`RefusalCausesAreKnown`.

Only model-checked: the liveness properties (`RunsSettle`, `PollingEnds`,
`SavesEnd`, `CallEnds`, `EngagementEnds`), which are outside what the prover
handles. Every other property of a passing run is also a theorem.

## 6. Findings

Four runs are expected to fail; each contradicts a sentence of the repository.

1. `BlockedBuildIsNeverSent`: `attach_engine_result` does not look at the
   record's status, so an answer to an earlier build turns a blocked rebuild into
   `COMPLETED`, which `write_payload` accepts. `FirstHandoffIsGated` is what
   does hold.
2. `OwnFileIsAccepted`: a crash between creating the table and writing
   `user_version` makes the adapter refuse its own file for good.
3. `P1RestsOnADocument`: `core/client/verify.py:257` says that a flag "is what
   stops a candidate known only from search summaries being placed first"; the
   flag (`snippet_only`) is not read anywhere. `has_direct_evidence`
   (`priority.py:77`) takes a criterion that cites findings without a source for
   grounded, so one that cites only inferences drawn from search summaries passes.
   `P1IsEarned` is what does hold.
4. `NameIsTheWholeName`: `verify.py:18` says "the name must account for the whole
   name in the text". Only the word after a match is looked at (`verify.py:183`):
   "Delta Water" matches inside "Mekong Delta Water". `SourcesNameTheFirm` is
   what does hold.

Seen on the way, without a run of their own:

* `_record_usage` (`anthropic.py:807`) takes the answer's usage apart unchecked,
  before the answer is judged. With a sink, a usage that is no object or counts no
  number leaves the adapter as `AttributeError` or `ValueError`, without a code and
  without a record, although `anthropic.py:111` knows no other codes and
  `anthropic.py:738` has a billed answer recorded. `CostIsOnRecord` leaves such
  answers out, and says that none of them is returned.
* `html.py:44` says the parser "collects the text a person would see". A skipped
  element that is never closed drops all text after it (`html.py:84`); a head whose
  end tag is left out, as HTML allows, makes the page an `EMPTY_DOCUMENT`.
  `PassagesAreFaithful` is what holds: nothing outside every skipped element is
  lost.
* `runs.py:208` says of a failure that cannot be recorded "It stays RUNNING_*";
  it stays `RESEARCH_COMPLETED` when that is what was stored last.
* `runs.py:169`: a discovery that finished and whose final write raises is
  recorded as a failed discovery.
* `harness_probe.py:92` speaks of results that are kept; line 159 clears the
  storage they were in, which nothing else refers to.
* `pipeline.py:150` of the pricing bridge keeps an earlier `engine_result` on a
  case that then fails with a malformed document; `core/evidence.py:763` expects
  none on a failed case.
* `context.py:93` inverts a map from components to elements: of two components
  of one element one is kept.
* `memory.py` keeps references and `sqlite.py` snapshots: an entity changed
  after it was saved differs between them.
* `core/analysis/models.py:29` says the findings are what persists; `persist`
  stores the analyses and leaves the findings of the run to the caller.
* `brave.py`'s `RetryPolicy` says of a failing search that "the stage simply
  finds nothing"; the error in fact leaves `run_client_analysis` and the
  finished analyses of the other clients with it (`ProviderRaises`).
* `reading_for` (`runs.py:248`) looks at `RUNNING_*` only: a process lost between
  `report(RESEARCH_COMPLETED)` and `report(RUNNING_DISCOVERY)` leaves a run that
  reads `RESEARCH_COMPLETED` for ever, while `docs/product-spec.md:688` has a
  message for process loss. `RunsSettle` names the state.
* `attach_engine_result` compares ids only (pricing `pipeline.py:164`), so an
  answer to an earlier payload completes a rebuilt case. `AnswerIsForThisCase`
  is what holds.
* `brave.py:434`: a search retried and then answered with an unreadable body
  reports one attempt.
* Two organizations whose names differ in the legal form only become one
  (`verify.py:263`), which `verify.py:12` disclaims.
* Locators drift: `text.py:46` counts one line for several blank ones, and
  `office.py:152` numbers the rows left after dropping blank ones
  (`CountedAsItIs` in `PassagesAreFaithful` excludes the two).
* `session.py:150` charges the batch with files it refused, the oversized ones
  included.
* `synthesize.py:149` resolves F references of a key issue although its prompt
  lists S lines only.
* `extract.py:13` speaks of one fact per passage; nothing enforces it.
* `skipped_frameworks` (research `pipeline.py:70`) does not say in which batch.
* Text is missed without a word to anyone on a page of a PDF that cannot be
  extracted, in the tables and groups of a slide, in the headers and text boxes of
  a Word file and in a block of a single character. `pdf.py:72` calls the first an
  honest gap in the locators; an empty page leaves the same gap.
* "Read" in `EveryPassageIsRead` means offered: of a passage longer than
  `max_chars_per_candidate` only the beginning is in the prompt.
* Of a proposal, a sentence that offers an element the answer did not select
  loses the whole strategy, and a second provider call that fails loses the first
  one. A solution element without key or wording and an analysis without client
  id are noticed only after both calls, and cost the draft as well
  (`RefusedOnlyForKnownCauses`).
* `core/proposal/pipeline.py:224` says a model's suggestion is not somebody's
  choice, and a suggested objective gives `STRATEGY_DRAFTED`, as
  `tests/test_proposal_strategy.py:178` expects.
* `prompts/proposal/synthesize-strategy.md:92` says an untimed gap is kept at the
  earliest timing; `strategy.py:306` keeps it `UNCLASSIFIED`. A gap's timing is
  matched word for word.
* Without an objective any next step is kept (`objectives.py:127`), and
  `next_step_matches` looks for substrings.
* A usage sink that raises takes the paid answer along (`SinkRaises`).

## 7. Not modelled

The decoding of documents and the third-party libraries behind it, prompt and
handbook loading, log filters, home page, sessions and cookies, `create_harness`
and the transmission records, the null storage and the runtime spike:
third-party code, pure I/O or wiring without a state of its own. Of the pipelines
the reports nothing reads back are left out: rejections, review flags,
transmission records, criteria and hypotheses, partner profiles. Wording,
identifiers, digests and timestamps appear only as far as the code compares
them. `PROJECT.json` gives the reason for each part.

## 8. Plan

Done, in this order: the run of an analysis and its page, the pricing gate, the
file storage, the client analysis, the provider calls, the engagement from
intake to candidates, the proposal strategy. Left:

1. `PricingPayload`: the assembly left out of `PricingHandoff`, with
   `binding_for`.
2. `ProposalStrategy` composed with `PricingHandoff`, whose `needs` it produces.
3. `Transmission`: `core/transmission.py` and `core/harness.py`, what is sent to
   a provider and what is recorded of it.
4. Proofs: the refinements of `EvidenceTrail` and `EntityStore` joined, since what
   `Engagement` stores one record at a time is what `SqliteStorage` keeps.
