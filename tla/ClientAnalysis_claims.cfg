SPECIFICATION Spec
CONSTANTS
    Candidates = {"c1", "c2"}
    MaxClients = 3
    MaxFindings = 2
    MaxQueries = 2
    Scenarios <- MCScenarios
    Discoverable <- MCDiscoverable
    Drafts <- MCDrafts
INVARIANTS
    NoAnalysisIsLost
    AdvantageIsComparative
    PropositionAddressesAProblem
    ClaimsAreEarned
    EvidenceStaysWithItsClient
