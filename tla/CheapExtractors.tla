-------------------------- MODULE CheapExtractors --------------------------
(***************************************************************************)
(* The first two tiers of the hybrid extraction: the regular expressions   *)
(* for isbn, publication_date and pages, the dictionary of publishers and  *)
(* the script count that gives the language.                               *)
(*                                                                         *)
(* The text of a page is the sequence of the things a pattern can find     *)
(* there, each set apart from the next.  A token is                        *)
(*   "isbn13", "isbn10": an ISBN, of its digits;                           *)
(*   "year": a number of four digits on its own;                           *)
(*   "cue": a number behind "p.", "pp." or "pages";                        *)
(*   "pp": a number before "pp" or "pages", no cue before it;              *)
(*   "publisher": a phrase, of the normalised phrase.                      *)
(***************************************************************************)
EXTENDS Subsequences, FiniteSets, SequencesExt

Numeric == {"isbn13", "isbn10", "year", "cue", "pp"}

\* The patterns, by their names in the code.  ISBN10_RE takes any four digits in
\* a row: its three groups and the last digit need one each.
Is(pattern, t) ==
  CASE pattern = "ISBN_RE"   -> t.is = "isbn13"
    [] pattern = "ISBN10_RE" -> t.is = "isbn10" \/ (t.is \in {"year", "cue", "pp"} /\ t.of >= 1000)
    [] pattern = "YEAR_RE"   -> t.is \in {"year", "cue", "pp"} /\ t.of \in 1700..2099
    [] pattern = "PAGES_RE"  -> t.is = "cue" /\ t.of \in 1..9999
    [] pattern = "arabic_pp" -> t.is = "pp" /\ t.of \in 10..9999

Found(value, method, page) == [value |-> value, method |-> method, page |-> page]
NotFound == Found("None", "none", 0)
NoPage == 0

\* The matches on one page, and on a sequence of pages in reading order.
On(page, pattern) ==
  LET ts == Picked(page.tokens, {i \in DOMAIN page.tokens : Is(pattern, page.tokens[i])})
  IN [i \in DOMAIN ts |-> [page |-> page.number, value |-> ts[i].of]]
Matches(pages, pattern) == FlattenSeq([i \in DOMAIN pages |-> On(pages[i], pattern)])

\* The value that most candidates have, the first seen of equals, at its first
\* candidate.
Best(candidates) ==
  LET Count(i) == Cardinality({j \in DOMAIN candidates : candidates[j].value = candidates[i].value})
  IN CHOOSE i \in DOMAIN candidates : \A j \in DOMAIN candidates :
       Count(j) < Count(i) \/ (Count(j) = Count(i) /\ i <= j)
\* Mutation: the page is that of the first candidate, whatever its value.
MostCommonOnFirst(candidates) == [candidates[Best(candidates)] EXCEPT !.page = candidates[1].page]
MostCommon(candidates) == candidates[Best(candidates)]
FromBest(candidates) ==
  IF candidates = <<>> THEN NotFound
  ELSE Found(MostCommon(candidates).value, "regex", MostCommon(candidates).page)

\* _find_page of the regular expressions: the first page that has the digits.
FindPage(pages, value) ==
  LET Has(p) == \E t \in Range(p.tokens) : t.is \in Numeric /\ t.of = value
  IN Picked(pages, {i \in DOMAIN pages : Has(pages[i])})[1].number
FromFirst(pages, matches) ==
  Found(matches[1].value, "regex", FindPage(pages, matches[1].value))
ExtractIsbn(pages) ==
  LET long == Matches(pages, "ISBN_RE")
      short == Matches(pages, "ISBN10_RE")
  IN IF long # <<>> THEN FromFirst(pages, long)
     ELSE IF short # <<>> THEN FromFirst(pages, short)
     ELSE NotFound

FrontMatter(pages) == SubSeq(pages, 1, IF Len(pages) < 5 THEN Len(pages) ELSE 5)
ExtractPublicationYear(pages) == FromBest(Matches(FrontMatter(pages), "YEAR_RE"))

\* Without a cue, the first count of each page is a candidate.
FirstOn(page, pattern) ==
  LET found == On(page, pattern) IN SubSeq(found, 1, IF found = <<>> THEN 0 ELSE 1)
ExtractPages(pages) ==
  LET cues == Matches(pages, "PAGES_RE")
      counts == FlattenSeq([i \in DOMAIN pages |-> FirstOn(pages[i], "arabic_pp")])
  IN FromBest(IF cues # <<>> THEN cues ELSE counts)
-----------------------------------------------------------------------------
(* The dictionary. *)
Known(needle, length, canonical) == [needle |-> needle, length |-> length, canonical |-> canonical]
\* A few of the entries, in their order: an abbreviation, a name that begins
\* another, two spellings of one length, and a canonical name that is no needle.
KNOWN_PUBLISHERS == <<
  Known("telugu academy", 14, "telugu akademi"),
  Known("rupa", 4, "rupa publications"), Known("rupa publications", 17, "rupa publications"),
  Known("nbt", 3, "national book trust"), Known("national book trust", 19, "national book trust"),
  Known("sahitya akademi", 15, "sahitya akademi"), Known("sahitya academy", 15, "sahitya akademi")>>
Within(phrase, of) == phrase = of \/ (phrase = "rupa" /\ of = "rupa publications")
Says(page, phrase) == \E t \in Range(page.tokens) : t.is = "publisher" /\ Within(phrase, t.of)

\* The longest needle wins, the first of equals; its page is the first with the
\* canonical name, else the first with the needle.
FirstPageSaying(pages, phrase) == Picked(pages, {i \in DOMAIN pages : Says(pages[i], phrase)})
ExtractPublisher(pages) ==
  LET hits == Picked(KNOWN_PUBLISHERS, {i \in DOMAIN KNOWN_PUBLISHERS :
                FirstPageSaying(pages, KNOWN_PUBLISHERS[i].needle) # <<>>})
      best == CHOOSE i \in DOMAIN hits : \A j \in DOMAIN hits :
                hits[j].length < hits[i].length \/ (hits[j].length = hits[i].length /\ i <= j)
      at == FirstPageSaying(pages, hits[best].canonical) \o FirstPageSaying(pages, hits[best].needle)
  IN IF hits = <<>> THEN NotFound
     ELSE Found(hits[best].canonical, "dictionary", at[1].number)

\* sample counts the letters of each script among the first 1000 characters.
Languages == <<"tel", "hin", "eng">>
DetectLanguage(sample) ==
  LET best == CHOOSE i \in DOMAIN Languages : \A j \in DOMAIN Languages :
                sample[Languages[j]] < sample[Languages[i]]
                \/ (sample[Languages[j]] = sample[Languages[i]] /\ i <= j)
  IN IF sample[Languages[best]] = 0 THEN NotFound ELSE Found(Languages[best], "dictionary", NoPage)

RegexRegistry(book) ==
  [isbn |-> ExtractIsbn(book.pages), publication_date |-> ExtractPublicationYear(book.pages),
   pages |-> ExtractPages(book.pages)]
DictRegistry(book) ==
  [publisher |-> ExtractPublisher(book.pages), language |-> DetectLanguage(book.sample)]
=============================================================================
