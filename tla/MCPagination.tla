---------------------------- MODULE MCPagination ----------------------------
(***************************************************************************)
(* Pagination for model checking: a feed of several pages on site a and a  *)
(* second site it links and redirects to.                                  *)
(***************************************************************************)
EXTENDS Pagination, TLC

CONSTANTS a, b

URL(s, n) == [site |-> s, paged |-> n, frag |-> FALSE]
Fragment(u) == [u EXCEPT !.frag = TRUE]

\* Fetch is given a plain URL, one with a fragment or a page number.
MCFeedURLs == {URL(a, 0), Fragment(URL(a, 0)), URL(a, 2)}
\* Redirects drop the page number, keep a fragment, or lead to the last page.
MCRedirects == {URL(a, 0), Fragment(URL(b, 0)), URL(a, MaxInt)}
MCLinks == {URL(a, 2), URL(b, 0)}

IdSymmetry == Permutations(Ids)
=============================================================================
