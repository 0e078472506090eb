SPECIFICATION Spec
CONSTANTS
    Requests <- MCKnownFromSearch
    RowsPerSegment = 2
    MaxFileBytes = 2
    MaxBatchBytes = 3
    MaxUncompressedBytes = 2
    SupportedTypes = {"PDF", "DOCX", "PPTX", "XLSX", "CSV", "TXT", "HTML"}
    PolicyFrameworks <- MCFrameworks
    MaxPassagesPerBatch = 2
    MaxTextPerBatch = 3
    MaxTextPerPassage = 2
    MaxFindingsPerBatch = 2
    CorroborationForHigh = 1
    MaxOrganizations = 2
    MaxFindingsOffered = 4
    RequireIdentity = TRUE
INVARIANT P1RestsOnADocument
CHECK_DEADLOCK FALSE
