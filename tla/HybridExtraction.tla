-------------------------- MODULE HybridExtraction --------------------------
(***************************************************************************)
(* One extraction, as the data sees it: the tiers of hybrid.py on the      *)
(* pages of a book, then the batches of the LLM for the gaps, answered in  *)
(* any order.  LlmExtraction has the other half, the circuit breaker and   *)
(* the event loop; a batch refused or failed there is a failure here.      *)
(*                                                                         *)
(* _validate_book_context hands over at least one page, none of them       *)
(* blank, so the branches for an extraction without pages are not here.    *)
(***************************************************************************)
EXTENDS PageRouting, CheapExtractors

CONSTANTS
  Books,                    \* records of pages and of the letters sampled
  MAX_OCR_CHARS, MAX_PARALLEL_BATCHES,
  WordLengths,              \* bound: the words that a cut may fall in
  MaxPoorReplies            \* bound: the replies that are not a full answer

\* Two pages of a book have one number only after selections that overlapped.
ASSUME BooksAssumption == \A B \in Books :
  IsPages(B.pages) /\ \A p \in Range(B.pages) : p.tokens \in Seq(Range(p.tokens))
LeastBudget == 2500         \* the budget of the code
ASSUME BudgetAssumption == MAX_OCR_CHARS \in Nat /\ MAX_OCR_CHARS >= LeastBudget
ASSUME WordsAssumption == WordLengths \subseteq Nat \ {0}

METADATA_BATCHES == [
  core_identity |-> {"label", "author", "description_work", "description_edition",
    "original_language", "language", "isbn", "title", "subtitle"},
  contributors |-> {"translator", "editor", "compiler", "cover_artist", "cover_page_designer",
    "typesetting_by", "typing_by", "book_designer"},
  publication |-> {"publication_date", "publisher", "publisher_telugu", "place_of_publication",
    "printer", "place_of_printing", "distributors", "sponsor"},
  content_classification |-> {"form_of_creative_work", "genre", "subject", "inception",
    "context", "awards"},
  edition_series |-> {"volume", "edition_number", "edition_or_translation_of",
    "part_of_series", "serial_number_in_series", "part_of_the_set"},
  relationships |-> {"based_on", "inspired_by", "first_published_in"},
  ancillary_content |-> {"dedication", "dedication_verbatim", "forewords", "abbreviations",
    "authors_in_compilation", "opinions_messages", "scribes"},
  physical_extra |-> {"pages", "illustrators"}]
FullMetadata == UNION Range(METADATA_BATCHES)
FIELD_TO_BATCH == [f \in FullMetadata |-> CHOOSE b \in BatchNames : f \in METADATA_BATCHES[b]]

VARIABLES
  book, word,   \* the input: a book, and the word under a cut
  phase,
  results,      \* the fields found, and where
  called,       \* the batches whose prompt was sent
  calling,      \* batches that wait for their answer
  replied,      \* what the LLM answered, by batch
  llm_results   \* the fields of the gaps that the answers gave
input == <<book, word>>
vars == <<input, phase, results, called, calling, replied, llm_results>>

EmptyMap == [x \in {} |-> NotFound]
Init ==
  /\ book \in Books /\ word \in WordLengths
  /\ phase = "cheap" /\ results = EmptyMap /\ llm_results = EmptyMap
  /\ called = {} /\ replied = <<>> /\ calling = {}

\* The first two tiers: no await, so one step.
Resolved(registry) == Restrict(registry, {f \in DOMAIN registry : registry[f] # NotFound})
\* The fields of the first argument are kept.
Merge(fields, more) ==
  [f \in DOMAIN fields \union DOMAIN more |-> IF f \in DOMAIN fields THEN fields[f] ELSE more[f]]
Gaps == FullMetadata \ DOMAIN results
Needed == {FIELD_TO_BATCH[f] : f \in Gaps}
\* Mutation: the gaps of the batch that happens to be first.
GapFieldsOfOne(b) == Gaps \intersect METADATA_BATCHES[CHOOSE c \in BatchNames : TRUE]
GapFields(b) == Gaps \intersect METADATA_BATCHES[b]
CheapTiers ==
  /\ phase = "cheap"
  /\ results' = Merge(Resolved(RegexRegistry(book)), Resolved(DictRegistry(book)))
  /\ phase' = "filling"
  /\ UNCHANGED <<input, called, calling, replied, llm_results>>

\* The pages routed to a batch and their text.
Routed(b) ==
  LET selected == SelectPages(book.pages, b)
  IN [selected |-> selected, text |-> Assemble(selected, MAX_OCR_CHARS, word)]
\* The prompt asks for every field of the batch, gaps and others.
Prompt(b) == [asks |-> METADATA_BATCHES[b], of |-> Routed(b)]
Call(b) ==
  /\ phase = "filling" /\ b \in Needed \ called
  /\ Cardinality(calling) < MAX_PARALLEL_BATCHES
  /\ called' = called \union {b} /\ calling' = calling \union {b}
  /\ UNCHANGED <<input, phase, results, replied, llm_results>>

\* JSON objects in a reply that was refused; the first one that validates is
\* taken, and one that has none of the fields does.
FallbackParse(objects) ==
  LET valid == SelectSeq(objects, LAMBDA o : o.valid)
  IN IF valid = <<>> THEN {} ELSE valid[1].fields
Object(valid, fields) == [valid |-> valid, fields |-> fields]
Refused(b) == {<<>>, <<Object(FALSE, {}), Object(TRUE, METADATA_BATCHES[b])>>,
               <<Object(TRUE, {}), Object(TRUE, METADATA_BATCHES[b])>>}
\* Nothing, one field, what is saved of a refused reply, or nothing for a failure.
PoorReplies(b) ==
  {{}, {CHOOSE f \in METADATA_BATCHES[b] : f \in Gaps}} \union {FallbackParse(o) : o \in Refused(b)}
ParsedFiltered(b, fields) ==
  [f \in fields \intersect GapFields(b) |-> Found(b, "llm", NoPage)]
Answer(b) ==
  /\ b \in calling
  /\ calling' = calling \ {b}
  /\ \E fields \in {Prompt(b).asks} \union PoorReplies(b) :
       /\ replied' = Merge(replied, [c \in {b} |-> fields])
       /\ Cardinality({c \in DOMAIN replied' : replied'[c] # METADATA_BATCHES[c]}) <= MaxPoorReplies
       /\ llm_results' = Merge(ParsedFiltered(b, fields), llm_results)
  /\ UNCHANGED <<input, phase, results, called>>

\* A field of the LLM is taken where no field was found before: its confidence,
\* 0.6, is below that of every extractor.
Finish ==
  /\ phase = "filling" /\ DOMAIN replied = Needed
  /\ results' = Merge(results, llm_results)
  /\ phase' = "done"
  /\ UNCHANGED <<input, called, calling, replied, llm_results>>

Next == CheapTiers \/ (\E b \in BatchNames : Call(b) \/ Answer(b)) \/ Finish
Spec == Init /\ [][Next]_vars
-----------------------------------------------------------------------------
Sources == Merge(RegexRegistry(book), DictRegistry(book))

(* Whatever the order and the quality of the answers, a field ends with the
   value of its cheap extractor when that found one; otherwise with a value of
   the LLM exactly when the batch of the field gave one, and a cheap value is
   never overwritten by a batch that was asked for it too.  Of
   run_hybrid_extraction, _llm_fill and the filter of gap_fields. *)
EveryAnswerKept ==
  phase = "done" => \A f \in FullMetadata :
    IF f \in DOMAIN Sources /\ Sources[f] # NotFound
      THEN results[f] = Sources[f]
      ELSE /\ f \in DOMAIN results <=> f \in replied[FIELD_TO_BATCH[f]]
           /\ f \in DOMAIN results => results[f].method = "llm"

(* The page that the evidence of a field names is a page that shows its value:
   the page of an isbn, a year or a count has these digits, that of a publisher
   one of its names.  Of the extractors and of the evidence rows that
   llm_tasks stores from them. *)
Shows(field, value, t) ==
  IF field = "publisher"
    THEN t.is = "publisher" /\ \E i \in DOMAIN KNOWN_PUBLISHERS :
           LET k == KNOWN_PUBLISHERS[i] IN
           k.canonical = value /\ (Within(k.needle, t.of) \/ Within(k.canonical, t.of))
    ELSE t.is \in Numeric /\ t.of = value
SourcePageHasValue ==
  \A f \in DOMAIN results : results[f].page # NoPage =>
    \E p \in Range(book.pages) : /\ p.number = results[f].page
                                 /\ \E t \in Range(p.tokens) : Shows(f, results[f].value, t)

(* The text of a prompt fits the budget, so that extract_batch cuts nothing
   more off, and it has no page twice and the pages in order: the front and the
   back window of a short book overlap.  Of assemble_ocr_text and
   select_pages_for_batch. *)
SentOnceWithinBudget ==
  \A b \in calling : LET sent == Prompt(b).of IN
    /\ sent.text.length <= MAX_OCR_CHARS
    /\ \A i, j \in DOMAIN sent.selected :
         i < j => sent.selected[i].number < sent.selected[j].number

(* A batch with a window, which is never more than LongestWindow pages, gets the
   share of every page whole but for the last one: the headings, the separators and
   the cut, which assemble_ocr_text does not count in the budget of a page, cost
   text of the last page only.  That page is the colophon the back window is there
   for, and something is left of it unless the word under the cut, which goes with
   its blanks, has more than LongestWord characters and may be all that is left. *)
LongestWindow == 11
LongestWord == 21
RoutedPagesHeard ==
  \A b \in calling :
    LET pages == Prompt(b).of.selected
        heard == Prompt(b).of.text.heard
    IN Len(pages) <= LongestWindow =>
         /\ \A i \in DOMAIN pages : i < Len(pages) => heard[i] = Used(pages, i, MAX_OCR_CHARS)
         /\ word <= LongestWord => heard[Len(pages)] > 0
=============================================================================
