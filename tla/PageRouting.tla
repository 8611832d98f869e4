---------------------------- MODULE PageRouting ----------------------------
(***************************************************************************)
(* Which pages a batch of the extraction reads (batch_routing.py), and how *)
(* much of each page is left when their text is cut to the budget.         *)
(*                                                                         *)
(* A page is a record with its number and the length of its stripped text; *)
(* the text itself makes no difference here, except for the place of the   *)
(* last blank before a cut.                                                *)
(***************************************************************************)
EXTENDS Subsequences, Functions

LargestNumber == 9999  \* bound: Digits knows four of them

\* The pages of an extraction: those with some text, ordered by their numbers.
IsPages(P) ==
  /\ P \in Seq(Range(P)) /\ P # <<>>
  /\ \A i \in DOMAIN P : P[i].number \in 1..LargestNumber /\ P[i].chars \in Nat \ {0}
  /\ \A i, j \in DOMAIN P : i < j => P[i].number < P[j].number

BatchNames == {"core_identity", "contributors", "publication", "content_classification",
               "edition_series", "relationships", "ancillary_content", "physical_extra"}

\* The end None of a slice, for which -1 stands too.
ToEnd == -1
BATCH_PAGE_SLICES == [b \in BatchNames |->
  CASE b \in {"core_identity", "contributors", "content_classification"} -> <<0, 3>>
    [] b \in {"publication", "edition_series"} -> <<0, 4>>
    [] b = "relationships" -> <<0, 8>>
    [] b = "ancillary_content" -> <<0, 5>>
    [] b = "physical_extra" -> <<0, ToEnd>>]
BackMatter == <<-3, ToEnd>>
BACK_MATTER_SLICES ==
  [b \in {"relationships", "publication", "edition_series", "ancillary_content"} |-> BackMatter]

AtLeast(n, m) == IF n < m THEN m ELSE n
AtMost(n, m) == IF n > m THEN m ELSE n

\* <<start, end>> as positions, the end exclusive, within 0..length.
Position(at, length) == IF at < 0 THEN AtLeast(length + at, 0) ELSE AtMost(at, length)
Resolve(slice, length) ==
  <<Position(slice[1], length), IF slice[2] = ToEnd THEN length ELSE Position(slice[2], length)>>
Slice(pages, slice) ==
  LET at == Resolve(slice, Len(pages)) IN SubSeq(pages, at[1] + 1, at[2])

Numbers(pages) == {pages[i].number : i \in DOMAIN pages}
\* Mutation: the pages of the front are not left out.
UnseenAll(pages, seen) == pages
Unseen(pages, seen) == Picked(pages, {i \in DOMAIN pages : pages[i].number \notin seen})
SelectPages(pages, batch) ==
  LET front == Slice(pages, BATCH_PAGE_SLICES[batch])
      back == IF batch \in DOMAIN BACK_MATTER_SLICES
                THEN Unseen(Slice(pages, BACK_MATTER_SLICES[batch]), Numbers(front))
                ELSE <<>>
  IN IF front \o back = <<>> THEN pages ELSE front \o back
-----------------------------------------------------------------------------
(* assemble_ocr_text *)
Separator == 7                              \* "\n\n---\n\n"
Digits(n) == IF n < 10 THEN 1 ELSE IF n < 100 THEN 2 ELSE IF n < 1000 THEN 3 ELSE 4
Header(page) == 8 + Digits(page.number)     \* "[Page 12]\n"

\* Mutation: a page may take the whole budget.
PageBudgetWhole(pages, max) == max
PageBudget(pages, max) == max \div AtLeast(Len(pages), 1)
Used(pages, i, max) == AtMost(pages[i].chars, PageBudget(pages, max))
\* Where the header of page i + 1 begins, were there one.
Ends(pages, max) ==
  LET end[i \in 0..Len(pages)] ==
        IF i = 0 THEN 0 ELSE end[i - 1] + Header(pages[i]) + Used(pages, i, max) + Separator
  IN end
\* Where the text of page i begins, and where the last page ends.
TextStart(pages, i, max) == Ends(pages, max)[i - 1] + Header(pages[i])
JoinedLength(pages, max) == TextStart(pages, Len(pages), max) + Used(pages, Len(pages), max)

\* The page with the cut at max - 4 in its text, or between it and the next text.
UnderCut(pages, max) ==
  CHOOSE i \in DOMAIN pages :
    /\ TextStart(pages, i, max) <= max - 4
    /\ i < Len(pages) => TextStart(pages, i + 1, max) > max - 4
\* The last blank before the cut: no word reaches over the end of a heading.  word
\* is all that goes with it, the blanks in front of the word (rstrip) as well.
LastBlank(pages, max, word) ==
  AtLeast(max - 4 - word, TextStart(pages, UnderCut(pages, max), max) - 1)
\* What is kept of a text too long.
KeptHead(pages, max, word) ==
  LET last_ws == LastBlank(pages, max, word) IN IF last_ws > max \div 2 THEN last_ws ELSE max - 4
Assemble(pages, max, word) ==
  LET long == JoinedLength(pages, max) > max
      cut == IF long THEN KeptHead(pages, max, word) ELSE JoinedLength(pages, max)
  IN [length |-> IF long THEN cut + 4 ELSE cut,
      heard |-> [i \in DOMAIN pages |->
                   AtLeast(AtMost(Used(pages, i, max), cut - TextStart(pages, i, max)), 0)]]
=============================================================================
