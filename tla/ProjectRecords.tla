--------------------------- MODULE ProjectRecords ---------------------------
(* What the stages of one engagement hand to each other: the request, the  *)
(* place reached, the source records, the passages read out of documents   *)
(* and search results, and what the storage adapter holds.                 *)
EXTENDS Integers, Sequences, FiniteSets

CONSTANT Requests    \* what a caller may ask for

VARIABLES
    request,     \* files, hits, frameworks and what providers may answer
    at,          \* the step about to be taken
    sources,     \* SourceMetadata of the engagement, in order
    passages,    \* EvidenceCandidates, in order: in memory only
    stored       \* what was saved: ids, and the ids each record cites

records == <<request, at, sources, passages, stored>>

(* An entity is named by its kind and its position: new_id never repeats. *)
Entity(id, refs) == [id |-> id, refs |-> refs]

Stored(kind, n) == \E e \in stored : e.id = <<kind, n>>

FileTypes == {"PDF", "DOCX", "PPTX", "XLSX", "CSV", "TXT", "MD", "HTML"}

SourceCategories == {"COMPANY_DATA", "CONSULTING_OUTPUT",
                     "EXTERNAL_BUSINESS_DATA", "USER_PROVIDED"}

(* Every stage reads its sources from one record shape; what does not apply *)
(* to an origin stays unset.                                                *)
Unset == "unset"

Dates == {"recent", "old", Unset}

INTAKE_ERROR_CODES ==
    {"UNSUPPORTED_FILE_TYPE", "FILE_TOO_LARGE", "BATCH_TOO_LARGE",
     "TYPE_MISMATCH", "PARSER_UNAVAILABLE", "ENCRYPTED_DOCUMENT",
     "EXTRACT_NO_TEXT_LAYER", "EMPTY_DOCUMENT", "MALFORMED_DOCUMENT",
     "ARCHIVE_LIMIT_EXCEEDED", "TEXT_DECODE_FAILED", "EXTRACT_FAILED"}

SourceMetadata ==
    [source_origin : {"UPLOADED_FILE", "SEARCH_RESULT"},
     source_category : SourceCategories, file_type : FileTypes \cup {Unset},
     file_size : BOOLEAN, title : BOOLEAN, publisher : BOOLEAN,
     retrieved_at : BOOLEAN, source_date : Dates,
     processing_status : {"EXTRACTED", "PURGED", "FAILED"},
     error_code : INTAKE_ERROR_CODES \cup {"none"}]

(* topics are the frameworks whose vocabulary occurs in the text, says its *)
(* words, size its length.                                                 *)
Passage(source_id, locator, content) ==
    [source_id |-> source_id, locator |-> locator, topics |-> content.topics,
     says |-> content.says, size |-> content.size]

(* A locator names units of a document, or says only that it is a snippet. *)
SNIPPET_LOCATOR == <<"snippet">>

NoLocator == <<>>

Locators == {SNIPPET_LOCATOR, NoLocator} \cup ({"at"} \X SUBSET Nat)

Words == [word : STRING, written : STRING, glued : BOOLEAN]

Passages ==
    [source_id : Nat, locator : Locators, topics : SUBSET STRING,
     says : Seq(Words), size : Nat]

Init ==
    /\ request \in Requests
    /\ at = "uploading"
    /\ sources = <<>> /\ passages = <<>> /\ stored = {}
=============================================================================
