--------------------------- MODULE IntakeSession ---------------------------
(* One IntakeSession (adapters/intake/session.py) as its callers drive it: *)
(* every file is ingested and its source record saved before the next one, *)
(* and the session is closed however that ends. Then the results of a      *)
(* search are turned into sources and passages (core/research/sources.py). *)
(*                                                                         *)
(* The libraries that open a document are outside: a file may be encrypted,*)
(* not decode, make its library raise inside a guard, or make an exception *)
(* escape it. Bytes arrive in a bytearray, which can be overwritten.       *)
EXTENDS ProjectRecords, DocumentParsers

CONSTANTS
    MaxFileBytes,           \* policy.max_file_bytes
    MaxBatchBytes,          \* policy.max_batch_bytes
    MaxUncompressedBytes,   \* policy.max_uncompressed_bytes
    SupportedTypes          \* policy.supported_types

ASSUME LimitsAssumption ==
    /\ MaxFileBytes \in Nat /\ MaxBatchBytes \in Nat
    /\ MaxUncompressedBytes \in Nat /\ SupportedTypes \subseteq FileTypes

IsContent(c) ==
    /\ c.topics \subseteq STRING /\ c.size \in Nat /\ c.source_date \in Dates
    /\ c.says \in Seq(Words)

(* What a caller uploads are files of the types there are, each a list of  *)
(* units; what a search returns are results.                               *)
ASSUME FilesAssumption ==
    \A q \in Requests :
        /\ Len(q.files) \in Nat
        /\ \A i \in 1 .. Len(q.files) :
              /\ IsContent(q.files[i])
              /\ q.files[i].declared \in FileTypes
              /\ q.files[i].category \in SourceCategories
              /\ q.files[i].units \in Seq(STRING)

ASSUME HitsAssumption ==
    \A q \in Requests :
        /\ Len(q.hits) \in Nat /\ DOMAIN q.hits = 1 .. Len(q.hits)
        /\ \A i \in DOMAIN q.hits :
              IsContent(q.hits[i]) /\ q.hits[i].publisher \in BOOLEAN

VARIABLES
    batch_bytes,   \* session.batch_bytes
    buffers,       \* for each buffer handed over: is its content still there
    read_bytes,    \* sizes of the files that were read, of this session
    closed         \* session._closed

session == <<batch_bytes, buffers, read_bytes, closed>>

IntakeInit ==
    /\ batch_bytes = 0 /\ buffers = <<>> /\ read_bytes = 0 /\ closed = FALSE

-----------------------------------------------------------------------------
(* Which files are refused *)

OOXML_TYPES == {"DOCX", "PPTX", "XLSX"}

TEXT_TYPES == {"CSV", "TXT", "MD", "HTML"}

(* The types the leading bytes are consistent with. *)
classify_magic(head) ==
    CASE head = "%PDF" -> {"PDF"}
      [] head = "PK"   -> OOXML_TYPES
      [] OTHER         -> {}

check_declared_type(declared, head) ==
    IF declared \in TEXT_TYPES THEN classify_magic(head) = {}
    ELSE declared \in classify_magic(head)

(* An archive lists its main parts and its directories; two of either are  *)
(* not decided between.                                                    *)
resolve_ooxml(archive) ==
    IF ~archive.content_types THEN {}
    ELSE IF archive.main # {} THEN archive.main
    ELSE archive.directories

verify_ooxml_package(file) ==
    CASE file.fault = "not a zip" -> "MALFORMED_DOCUMENT"
      [] file.archive.expands > MaxUncompressedBytes -> "ARCHIVE_LIMIT_EXCEEDED"
      [] resolve_ooxml(file.archive) # {file.declared} -> "TYPE_MISMATCH"
      [] OTHER -> "accepted"

segments(file) == segments_of(file.declared, file.units)

(* What PdfParser, OfficeParser, TextParser and HtmlParser raise, in order:*)
(* a code, unless the exception gets past the guard.                       *)
parse(file) ==
    LET opened ==
            IF file.declared \in OOXML_TYPES THEN verify_ooxml_package(file)
            ELSE "accepted"
    IN  CASE file.fault = "escapes" -> "escapes"
          [] opened # "accepted" -> opened
          [] file.fault = "undecodable" -> "TEXT_DECODE_FAILED"
          [] file.fault = "malformed" -> "MALFORMED_DOCUMENT"
          [] file.fault = "encrypted" -> "ENCRYPTED_DOCUMENT"
          [] file.fault = "library raises" -> "EXTRACT_FAILED"
          [] file.declared = "PDF" /\ segments(file) = <<>> ->
                "EXTRACT_NO_TEXT_LAYER"
          [] segments(file) = <<>> -> "EMPTY_DOCUMENT"
          [] OTHER -> "accepted"

\* Mutant: the total is not looked at, each file is only held to its own.
check_limits_per_file(file) ==
    IF file.size > MaxFileBytes THEN "FILE_TOO_LARGE" ELSE "accepted"

check_limits(file) ==
    CASE file.size > MaxFileBytes -> "FILE_TOO_LARGE"
      [] batch_bytes + file.size > MaxBatchBytes -> "BATCH_TOO_LARGE"
      [] OTHER -> "accepted"

(* The code a file is refused with, "accepted" or "escapes". *)
verdict(file) ==
    CASE check_limits(file) # "accepted" -> check_limits(file)
      [] ~check_declared_type(file.declared, file.head) -> "TYPE_MISMATCH"
      [] file.declared \notin SupportedTypes -> "UNSUPPORTED_FILE_TYPE"
      [] OTHER -> parse(file)

-----------------------------------------------------------------------------
(* The session *)

File == request.files[Len(buffers)]

Upload(file, status, code) ==
    [source_origin |-> "UPLOADED_FILE", source_category |-> file.category,
     file_type |-> file.declared, file_size |-> TRUE,
     title |-> FALSE, publisher |-> FALSE, retrieved_at |-> FALSE,
     source_date |-> file.source_date, processing_status |-> status,
     error_code |-> code]

candidates_from(file, source_id) ==
    [i \in DOMAIN segments(file) |->
        Passage(source_id, <<"at", segments(file)[i].claims>>, file)]

release_buffer == buffers' = [buffers EXCEPT ![Len(buffers)] = FALSE]

(* ingest takes the buffer over. *)
ingest ==
    /\ at = "uploading" /\ Len(buffers) < Len(request.files)
    /\ buffers' = Append(buffers, TRUE)
    /\ at' = "checking"
    /\ UNCHANGED <<request, sources, passages, stored, batch_bytes,
                   read_bytes, closed>>

\* Mutant: the buffer is released on the way of a good document only.
_fail_keeping_buffer ==
    /\ at = "checking" /\ verdict(File) \notin {"accepted", "escapes"}
    /\ batch_bytes' = batch_bytes + File.size
    /\ sources' = Append(sources, Upload(File, "FAILED", verdict(File)))
    /\ at' = "answered"
    /\ UNCHANGED <<request, passages, stored, buffers, read_bytes, closed>>

(* A bad document is counted, recorded with its code, and has no passages. *)
_fail ==
    /\ at = "checking" /\ verdict(File) \notin {"accepted", "escapes"}
    /\ batch_bytes' = batch_bytes + File.size
    /\ sources' = Append(sources, Upload(File, "FAILED", verdict(File)))
    /\ release_buffer
    /\ at' = "answered"
    /\ UNCHANGED <<request, passages, stored, read_bytes, closed>>

(* A document that could be read: its source is marked PURGED, its         *)
(* passages are the caller's once the record is saved.                     *)
_succeed ==
    /\ at = "checking" /\ verdict(File) = "accepted"
    /\ batch_bytes' = batch_bytes + File.size
    /\ read_bytes' = read_bytes + File.size
    /\ sources' = Append(sources, Upload(File, "PURGED", "none"))
    /\ release_buffer
    /\ at' = "answered"
    /\ UNCHANGED <<request, passages, stored, closed>>

(* Another exception leaves ingest: nothing is counted and nothing is      *)
(* answered, and it leaves the with block too.                             *)
ingest_raises ==
    /\ at = "checking" /\ verdict(File) = "escapes"
    /\ release_buffer
    /\ at' = "leaving"
    /\ UNCHANGED <<request, sources, passages, stored, batch_bytes,
                   read_bytes, closed>>

(* The caller saves the record and keeps the passages. *)
save_source_metadata ==
    /\ at = "answered"
    /\ stored' = stored \cup {Entity(<<"source", Len(sources)>>, {})}
    /\ passages' = passages \o
            (IF sources[Len(sources)].processing_status = "PURGED"
             THEN candidates_from(File, Len(sources)) ELSE <<>>)
    /\ at' = "uploading"
    /\ UNCHANGED <<request, sources, session>>

SaveRaises ==
    /\ at = "answered" /\ at' = "leaving"
    /\ UNCHANGED <<request, sources, passages, stored, session>>

\* Mutant: the session is closed at its end, not when an exception leaves it.
close_at_the_end ==
    /\ at = "uploading" /\ Len(buffers) = Len(request.files) /\ ~closed
    /\ at' = "searching"
    /\ buffers' = [i \in DOMAIN buffers |-> FALSE]
    /\ closed' = TRUE
    /\ UNCHANGED <<request, sources, passages, stored, batch_bytes,
                   read_bytes>>

(* close releases what is left and forgets the buffers' contents. *)
close ==
    /\ \/ /\ at = "uploading" /\ Len(buffers) = Len(request.files) /\ ~closed
          /\ at' = "searching"
       \/ at = "leaving" /\ at' = "intake failed"
    /\ buffers' = [i \in DOMAIN buffers |-> FALSE]
    /\ closed' = TRUE
    /\ UNCHANGED <<request, sources, passages, stored, batch_bytes,
                   read_bytes>>

IntakeStep ==
    \/ ingest \/ _fail \/ _succeed \/ ingest_raises
    \/ save_source_metadata \/ SaveRaises \/ close

-----------------------------------------------------------------------------
(* Search results *)

source_from_search_result(hit) ==
    [source_origin |-> "SEARCH_RESULT",
     source_category |-> "EXTERNAL_BUSINESS_DATA", file_type |-> Unset,
     file_size |-> FALSE, title |-> TRUE, publisher |-> hit.publisher,
     retrieved_at |-> TRUE, source_date |-> hit.source_date,
     processing_status |-> "EXTRACTED", error_code |-> "none"]

(* A result without a snippet has nothing to cite and gets no source. *)
CitableHits ==
    LET citable == {i \in DOMAIN request.hits : request.hits[i].snippet}
    IN  [n \in 1 .. Cardinality(citable) |-> request.hits[Numbered(citable, n)]]

(* All results are turned into sources and passages, then saved in order.  *)
ingest_search_results ==
    /\ at = "searching"
    /\ sources' = sources \o [i \in DOMAIN CitableHits |->
                                source_from_search_result(CitableHits[i])]
    /\ passages' = passages \o
            [i \in DOMAIN CitableHits |->
                Passage(Len(sources) + i, SNIPPET_LOCATOR, CitableHits[i])]
    /\ at' = "saving hits"
    /\ UNCHANGED <<request, stored>>

Unsaved == {n \in DOMAIN sources : ~Stored("source", n)}

save_found_source ==
    /\ at = "saving hits" /\ Unsaved # {}
    /\ \/ /\ stored' = stored \cup {Entity(<<"source", First(Unsaved)>>, {})}
          /\ UNCHANGED at
       \/ at' = "intake failed" /\ UNCHANGED stored
    /\ UNCHANGED <<request, sources, passages>>

BeginResearch ==
    /\ at = "saving hits" /\ Unsaved = {}
    /\ at' = IF request.research THEN "extraction" ELSE "done"
    /\ UNCHANGED <<request, sources, passages, stored>>

SearchStep ==
    /\ ingest_search_results \/ save_found_source \/ BeginResearch
    /\ UNCHANGED session

-----------------------------------------------------------------------------
(* What intake promises *)

IntakeTypeOK ==
    /\ batch_bytes \in Nat /\ read_bytes \in Nat /\ closed \in BOOLEAN
    /\ buffers \in Seq(BOOLEAN)

(* The bytes this session has read never exceed the batch limit, whatever  *)
(* was refused or raised in between (session.py:164).                      *)
BatchIsBounded == read_bytes <= MaxBatchBytes

(* Once ingest has answered or raised, no buffer handed to it still holds  *)
(* its content: not of a refused file, not of one whose parser raised      *)
(* (session.py:160).                                                       *)
BuffersAreReleased ==
    at # "checking" => \A i \in DOMAIN buffers : ~buffers[i]

AnsweredWithADocument ==
    at = "answered" /\ sources[Len(sources)].processing_status = "PURGED"

(* Two readings of a document count the lines differently from it: a text  *)
(* file with several blank lines between blocks, and a workbook with blank *)
(* rows.                                                                   *)
CountedAsItIs(file) ==
    LET blank == Positions(file.units, {"blank"}) IN
    CASE file.declared = "TXT"  -> \A i \in blank : i + 1 \notin blank
      [] file.declared = "XLSX" -> blank = {}
      [] OTHER -> TRUE

(* All text of an accepted document that is in its parser's reach is in    *)
(* one passage, and only the header of a table in more. Out of reach, and  *)
(* missed without a word to anyone, are the pages of a PDF that cannot be  *)
(* extracted, the shapes of a slide without a text frame, and whatever     *)
(* stands in a skipped element of HTML, all that follows an unclosed one   *)
(* included. And the locator a finding will be quoted with names the units *)
(* its passage was taken from, in every document counted as it is          *)
(* (text.py:31, office.py:55, office.py:150, pdf.py:75).                   *)
PassagesAreFaithful ==
    AnsweredWithADocument =>
        LET passage == segments(File)
            header == IF File.declared = "CSV" THEN {1} ELSE {}
            quotable == Positions(File.units, Readable)
        IN  /\ \A u \in ReadableUnits(File.declared, File.units) :
                  LET within == {k \in DOMAIN passage : u \in passage[k].holds}
                  IN  /\ within # {}
                      /\ u \notin header => Cardinality(within) = 1
            /\ CountedAsItIs(File) =>
                  \A k \in DOMAIN passage :
                      quotable \cap (passage[k].holds \ header)
                          \subseteq passage[k].claims
=============================================================================
