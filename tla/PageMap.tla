------------------------------ MODULE PageMap ------------------------------
(***************************************************************************)
(* What Chunk promises its callers: runs of consecutive pages that overlap *)
(* nothing handed out before and not freed, as long as there is such a     *)
(* run.                                                                    *)
(***************************************************************************)
EXTENDS Integers

CONSTANTS TotalPages, Requests, INDEX_NULL

VARIABLES
    held,    \* blocks handed out and not freed: [page, pages]
    result   \* what the last allocation was asked for and returned; none after a free

vars == <<held, result>>

Indices == 0 .. TotalPages - 1
Span(page, pages) == page .. page + pages - 1
InUse == UNION {Span(b.page, b.pages) : b \in held}
Fits(page, pages) == Span(page, pages) \subseteq Indices \ InUse

NoResult == [page |-> INDEX_NULL, pages |-> 0]

Init == held = {} /\ result = NoResult

Allocate(page, pages) ==
    /\ Fits(page, pages)
    /\ held' = held \cup {[page |-> page, pages |-> pages]}
    /\ result' = [page |-> page, pages |-> pages]

\* Only when no run is long enough.
Fail(pages) ==
    /\ \A page \in Indices : ~Fits(page, pages)
    /\ result' = [page |-> INDEX_NULL, pages |-> pages]
    /\ UNCHANGED held

Free(b) ==
    /\ held' = held \ {b}
    /\ result' = NoResult

Next ==
    \/ \E pages \in Requests : Fail(pages) \/ \E page \in Indices : Allocate(page, pages)
    \/ \E b \in held : Free(b)

Spec == Init /\ [][Next]_vars

=============================================================================
