------------------------ MODULE MCHybridExtraction ------------------------
(* Books for HybridExtraction: short ones for what the extractors find, long
   ones for the windows and the cut. *)
EXTENDS HybridExtraction

T(is, of) == [is |-> is, of |-> of]
Page(number, chars, tokens) == [number |-> number, chars |-> chars, tokens |-> tokens]
Sample(tel, hin, eng) == [tel |-> tel, hin |-> hin, eng |-> eng]
Book(pages, tel, hin, eng) == [pages |-> pages, sample |-> Sample(tel, hin, eng)]

\* n full pages, numbered from first on.
Long(n, first) == Book([i \in 1..n |-> Page(first + i - 1, 3000, <<>>)], 0, 0, 0)

MCBooks == {
  \* Nothing to be found, one page.
  Book(<<Page(1, 40, <<>>)>>, 0, 0, 0),
  \* The most common year is not the first; a year of four digits is an isbn.
  Book(<<Page(3, 300, <<T("year", 1985), T("publisher", "nbt")>>),
         Page(4, 900, <<T("year", 1998), T("year", 1998), T("publisher", "national book trust")>>),
         Page(6, 2600, <<T("cue", 12), T("cue", 240)>>),
         Page(9, 20, <<T("pp", 240), T("cue", 240)>>)>>, 30, 30, 12),
  \* An isbn of 13 digits behind one of 10; counts without a cue; a year too late.
  Book(<<Page(1, 100, <<T("isbn10", 10), T("publisher", "rupa")>>),
         Page(2, 100, <<T("pp", 80), T("pp", 96)>>),
         Page(3, 100, <<T("isbn13", 13), T("pp", 96), T("publisher", "rupa publications")>>),
         Page(4, 100, <<>>), Page(5, 2000, <<T("year", 1650)>>),
         Page(6, 100, <<T("year", 2001), T("pp", 96)>>)>>, 0, 0, 60),
  \* Two spellings of one length, and a canonical name that no page has.
  Book(<<Page(1, 700, <<T("publisher", "telugu academy"), T("cue", 2011)>>),
         Page(2, 700, <<T("publisher", "sahitya academy"), T("year", 1999)>>)>>, 0, 5, 5),
  \* One full page, and windows that meet, touch and lie apart.
  Long(1, 1), Long(5, 8), Long(8, 1), Long(9, 97), Long(11, 1), Long(20, 995)}
===========================================================================
