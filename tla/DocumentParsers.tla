-------------------------- MODULE DocumentParsers --------------------------
(* How each parser of adapters/intake cuts a document into passages and    *)
(* where it says each of them is. A document is the sequence of its units, *)
(* as the library that opens it hands them over: lines of TXT and MD, rows *)
(* of CSV, sheets and rows of XLSX, pages of PDF and the blocks of text on *)
(* them, paragraphs and tables of DOCX (headers, footers and text boxes    *)
(* are not among them), slides with their shapes and notes, tags and data  *)
(* of HTML. A unit of text is blank, a lone "mark" too short to quote, or  *)
(* readable; a "lost page" is one whose extraction raises, a "graphic" a   *)
(* shape without a text frame, "open" and "close" an element that is       *)
(* skipped.                                                                *)
EXTENDS Places, Sequences

CONSTANT RowsPerSegment    \* rows of a CSV or XLSX passage

ASSUME RowsAssumption == RowsPerSegment \in Nat \ {0}

Readable == {"text", "head", "table", "note"}

Positions(units, kinds) == {i \in DOMAIN units : units[i] \in kinds}

(* MIN_SEGMENT_CHARS: two marks joined are long enough, one is not. *)
Kept(units, holds) ==
    \/ \E i \in holds : units[i] \in Readable
    \/ Cardinality({i \in holds : units[i] = "mark"}) > 1

(* A segment holds units and claims, by its locator, to be at units. *)
make_segment(holds, claims) == [holds |-> holds, claims |-> claims]

(* The list of the segments: each is appended once its last unit is read.  *)
InOrder(segments) ==
    LET ends == {End(s.holds) : s \in segments} IN
    [n \in 1 .. Cardinality(ends) |->
        CHOOSE s \in segments : End(s.holds) = Numbered(ends, n)]

(* The places of a document, those with the same key together. *)
Groups(places, key) == {{j \in places : key[j] = key[i]} : i \in places}

(* Which section, page, slide or sheet each unit is of, by what opens one. *)
Part(units, opening) ==
    [i \in DOMAIN units |-> Upto(Positions(units, opening), i)]

MaximalRuns(s) ==
    {p[1] .. p[2] :
        p \in {q \in s \X s : /\ q[1] <= q[2] /\ q[1] .. q[2] \subseteq s
                              /\ q[1] - 1 \notin s /\ q[2] + 1 \notin s}}

-----------------------------------------------------------------------------
(* Text *)

(* A separator needs a line break on each side of the blank lines, and     *)
(* takes as many as there are.                                             *)
Blocks(lines) ==
    MaximalRuns({i \in DOMAIN lines : i \in {1, Len(lines)}
                                      \/ lines[i] # "blank"})

\* Mutant: the counter does not step over the blank line.
_txt_segments_off_by_one(lines) ==
    LET blocks == Blocks(lines)
        before(b) == {c \in blocks : First(c) < First(b)}
        start(b) == 1 + Cardinality(UNION before(b))
    IN  {make_segment(b, start(b) .. start(b) + Cardinality(b) - 1) :
            b \in {c \in blocks : Kept(lines, c)}}

(* The line counter advances over each block and one blank line after it. *)
_txt_segments(lines) ==
    LET blocks == Blocks(lines)
        before(b) == {c \in blocks : First(c) < First(b)}
        start(b) == 1 + Cardinality(UNION before(b)) + Cardinality(before(b))
    IN  {make_segment(b, start(b) .. start(b) + Cardinality(b) - 1) :
            b \in {c \in blocks : Kept(lines, c)}}

(* A section runs from its heading to the next one. *)
_md_segments(lines) ==
    {make_segment(s, s) :
        s \in {t \in Groups(DOMAIN lines, Part(lines, {"head"})) :
                  Kept(lines, t)}}

(* Blocks of rows below the header, which every passage repeats. *)
_csv_segments(rows) ==
    LET block == [j \in 2 .. Len(rows) |-> (j - 2) \div RowsPerSegment]
        body == IF Len(rows) = 1 THEN {{1}} ELSE Groups(2 .. Len(rows), block)
    IN  {make_segment(c \cup {1}, c) :
            c \in {d \in body : Kept(rows, d \cup {1})}}

-----------------------------------------------------------------------------
(* Office and PDF *)

(* Every paragraph and every table for itself. *)
_docx_segments(units) ==
    {make_segment({i}, {i}) : i \in {j \in DOMAIN units : Kept(units, {j})}}

(* The shapes of a slide that have a text frame are one passage, located   *)
(* by the slide; the slide's notes are another, with a locator of their    *)
(* own.                                                                    *)
_pptx_segments(units) ==
    LET slide == Part(units, {"slide"})
        notes == Positions(units, {"note"})
        place == [i \in DOMAIN units |->
                    <<slide[i], IF i \in notes THEN "notes" ELSE "slide">>]
        read == Positions(units, Readable \cup {"mark"})
    IN  {make_segment(s, {j \in DOMAIN units : \E i \in s : place[j] = place[i]}) :
            s \in {t \in Groups(read, place) : Kept(units, t)}}

(* Each sheet for itself: blank rows are dropped, the rows that are left   *)
(* are cut into blocks, and the range counts those rows while whoever      *)
(* looks it up counts the rows there are. A sheet with none is passed over.*)
_xlsx_segments(units) ==
    LET sheet == Part(units, {"sheet"})
        rows == DOMAIN units \ Positions(units, {"sheet"})
        filled == rows \ Positions(units, {"blank"})
        number(s, i) == Upto({j \in s : sheet[j] = sheet[i]}, i)
        block == [i \in filled |->
                    <<sheet[i], (number(filled, i) - 1) \div RowsPerSegment>>]
        range(c) == {j \in rows : \E i \in c : sheet[j] = sheet[i]
                                    /\ number(rows, j) = number(filled, i)}
    IN  {make_segment(c, range(c)) :
            c \in {d \in Groups(filled, block) : Kept(units, d)}}

(* What is on a page that could not be read is passed over. *)
Lost(units) ==
    LET page == Part(units, {"page", "lost page"}) IN
    {i \in DOMAIN units :
        \E j \in Positions(units, {"lost page"}) : page[j] = page[i]}

(* Every block of text for itself, all located by their page. *)
PdfParser(units) ==
    LET page == Part(units, {"page", "lost page"}) IN
    {make_segment({i}, {j \in DOMAIN units : page[j] = page[i]}) :
        i \in {j \in DOMAIN units \ Lost(units) : Kept(units, {j})}}

-----------------------------------------------------------------------------
(* HTML *)

(* _skip_depth after each tag. *)
depth(tags) ==
    LET d[i \in 0 .. Len(tags)] ==
            IF i = 0 THEN 0
            ELSE IF tags[i] = "open" THEN d[i - 1] + 1
            ELSE IF tags[i] = "close" /\ d[i - 1] > 0 THEN d[i - 1] - 1
            ELSE d[i - 1]
    IN  d

(* Inside a skipped element nothing is text, and nothing ends a block. *)
_ReadableText(tags) ==
    LET d == depth(tags)
        shown == {i \in DOMAIN tags : d[i] = 0}
        breaks == shown \cap Positions(tags, {"block"})
        data == shown \cap Positions(tags, Readable \cup {"mark"})
    IN  {make_segment(c, c) :
            c \in {e \in Groups(data, [i \in data |-> Upto(breaks, i)]) :
                      Kept(tags, e)}}

(* What is inside a skipped element: since some place before it more of    *)
(* them were opened than closed. One that is never closed has all the rest *)
(* inside it.                                                              *)
Hidden(tags) ==
    LET within(kind, j, i) == Cardinality({k \in j .. i : tags[k] = kind}) IN
    {i \in DOMAIN tags :
        \E j \in 1 .. i : within("open", j, i) > within("close", j, i)}

-----------------------------------------------------------------------------

(* Word gives its paragraphs before its tables; the others keep the order *)
(* of the document. What is left is PDF.                                  *)
segments_of(file_type, units) ==
    CASE file_type = "TXT"  -> InOrder(_txt_segments(units))
      [] file_type = "MD"   -> InOrder(_md_segments(units))
      [] file_type = "CSV"  -> InOrder(_csv_segments(units))
      [] file_type = "XLSX" -> InOrder(_xlsx_segments(units))
      [] file_type = "PPTX" -> InOrder(_pptx_segments(units))
      [] file_type = "HTML" -> InOrder(_ReadableText(units))
      [] file_type = "DOCX" ->
            LET tables == {s \in _docx_segments(units) :
                              units[First(s.holds)] = "table"}
            IN  InOrder(_docx_segments(units) \ tables) \o InOrder(tables)
      [] OTHER -> InOrder(PdfParser(units))

(* The text in reach of the parser: not what is on a page that is lost or  *)
(* inside an element that is skipped.                                      *)
ReadableUnits(file_type, units) ==
    Positions(units, Readable)
        \ (IF file_type = "HTML" THEN Hidden(units)
           ELSE IF file_type = "PDF" THEN Lost(units) ELSE {})
=============================================================================
