------------------------------- MODULE Paging -------------------------------
(***************************************************************************)
(* The clients of HAL, ScanR, OpenAlex and Scopus: requests for pages of   *)
(* the list of publications, which change under the client between two     *)
(* requests, and the conditions under which another page is asked for.     *)
(***************************************************************************)
EXTENDS Sources

CONSTANTS
    HalRows,       \* the rows of the only request to HAL (1000)
    PageSize,      \* the size of a page: 25 for OpenAlex and Scopus, 200 for ScanR
    MaxPages       \* bound on the pages asked for, beyond any page that is not empty

ASSUME PagingAssumption ==
    /\ HalRows \in Nat \ {0} /\ PageSize \in Nat \ {0} /\ MaxPages \in Nat

VARIABLES
    page,      \* the documents of the last response not yet given
    asked,     \* the pages asked for
    given,     \* the documents given
    count,     \* the number of results the client believes in
    lookups    \* the identifiers left to look the person up in ScanR

paging == <<page, asked, given, count, lookups>>

Paged == {"hal", "scanr", "open_alex", "scopus"}

\* Those of the rows after the first offset ones.
Rows(offset, size) ==
    IF offset >= Len(index) THEN <<>>
    ELSE SubSeq(index, offset + 1, IF offset + size < Len(index) THEN offset + size ELSE Len(index))

-----------------------------------------------------------------------------
(* HAL: one request.                                                       *)

HalPage == Rows(0, HalRows)

HalMore == FALSE

(* OpenAlex: pages by number, until they hold the announced count; without *)
(* a "meta" nothing is announced and there is always a next page.  A count *)
(* that is a multiple of the page size costs a request more.               *)
OpenAlexPage == Rows(asked * PageSize, PageSize)

OpenAlexMore == IF count = None THEN TRUE ELSE count >= asked * PageSize

\* Slip: the rows of a page after the first start one too far.
ScopusPageFar == Rows(IF asked = 0 THEN 0 ELSE asked * PageSize + 1, PageSize)

\* Slip: the total is compared with one page, not with the pages there were.
ScopusMoreThanOne == count > PageSize

\* Scopus: pages by offset, until the last response announces no more.
ScopusPage == Rows(asked * PageSize, PageSize)

ScopusMore == count > asked * PageSize

(* ScanR: pages from the number of hits given so far, until there are as   *)
(* many as the highest total announced.                                    *)
ScanrPage == Rows(given, PageSize)

ScanrMore == given < count

Page ==
    CASE source = "hal" -> HalPage
      [] source = "open_alex" -> OpenAlexPage
      [] source = "scopus" -> ScopusPage
      [] source = "scanr" -> ScanrPage

More ==
    CASE source = "hal" -> HalMore
      [] source = "open_alex" -> OpenAlexMore
      [] source = "scopus" -> ScopusMore
      [] source = "scanr" -> ScanrMore

\* Timeouts and bodies that are not what is expected: "other", but for ScanR.
PagingFailures ==
    CASE source \in {"hal", "open_alex"} -> Failures
      [] source = "scopus" -> {"external", "other"}
      [] source = "scanr" -> {"external", "format"}

-----------------------------------------------------------------------------
(* The person is looked up in ScanR by one identifier after the other; the *)
(* first document found is enough.  When there is none, the fetch ends     *)
(* without a result, as it would for a person without publications.        *)
LookUp ==
    /\ fetch = "looking" /\ lookups > 0
    /\ \/ fetch' = "asking" /\ UNCHANGED <<lookups, trouble, unheard>>
       \/ /\ trouble < MaxTrouble
          /\ trouble' = trouble + 1
          /\ lookups' = lookups - 1
          /\ fetch' = IF lookups = 1 THEN "ended" ELSE "looking"
          /\ unheard' = IF lookups = 1 THEN unheard \cup Listed ELSE unheard
    /\ UNCHANGED <<content, index, hand, quiet, absent, page, asked, given, count>>

(* The request for a page and its response.  OpenAlex may leave its meta   *)
(* out.                                                                    *)
Ask ==
    /\ fetch = "asking" /\ asked < MaxPages
    /\ fetch' = "giving"
    /\ page' = Page
    /\ asked' = asked + 1
    /\ \/ /\ count' = IF source = "scanr" /\ count > Len(index) THEN count ELSE Len(index)
          /\ trouble' = trouble
       \/ /\ source = "open_alex" /\ trouble < MaxTrouble
          /\ count' = None
          /\ trouble' = trouble + 1
    /\ unheard' = IF source = "hal" THEN unheard \cup (Listed \ ToSet(HalPage)) ELSE unheard
    /\ UNCHANGED <<content, index, hand, quiet, absent, given, lookups>>

AskFails ==
    /\ fetch \in {"looking", "asking"}
    /\ FetchFails(PagingFailures)
    /\ UNCHANGED <<content, index, hand, history, paging>>

(* The next document of the page.  One of HAL without halId_s is skipped;  *)
(* one of Scopus without an identifier breaks the loop of the harvester.   *)
Give ==
    /\ fetch = "giving" /\ hand = <<>> /\ page # <<>>
    /\ page' = Tail(page)
    /\ given' = given + 1
    /\ CASE source = "hal" /\ "halId_s" \in flawed[Head(page)] ->
              unheard' = unheard \cup {Head(page)} /\ UNCHANGED <<fetch, hand>>
         [] source = "scopus" /\ "dc:identifier" \in flawed[Head(page)] ->
              fetch' = "other" /\ UNCHANGED <<hand, unheard>>
         [] OTHER -> Yield(Head(page), FALSE) /\ UNCHANGED <<fetch, unheard>>
    /\ UNCHANGED <<content, index, trouble, quiet, absent, asked, count, lookups>>

LastGiven ==
    /\ fetch = "giving" /\ hand = <<>> /\ page = <<>>
    /\ fetch' = IF More THEN "asking" ELSE "ended"
    /\ UNCHANGED <<content, index, hand, trouble, history, paging>>

BeginPaging(s) ==
    /\ page = <<>> /\ asked = 0 /\ given = 0 /\ count = 0
    /\ lookups = IF LooksUp(s.source, s.ids) THEN Len(Known(s.source, s.ids)) ELSE 0

FetchPages == LookUp \/ Ask \/ AskFails \/ Give \/ LastGiven

=============================================================================
