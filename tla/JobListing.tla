----------------------------- MODULE JobListing -----------------------------
(***************************************************************************)
(* GET /api/v1/jobs: Handler.listJobs over Repository.List, and a client   *)
(* that walks through the pages while jobs are being created.              *)
(*                                                                         *)
(* A job is its place in the order of created_at and id: a later job has a *)
(* larger number. created_at is the start of the inserting transaction, so *)
(* a row may become visible anywhere in that order. Rows are never deleted.*)
(* Each page is one SELECT and thus one state of the table.                *)
(***************************************************************************)
EXTENDS Integers, FiniteSets

CONSTANTS
    Jobs,               \* places of the jobs that may be created
    DefaultListLimit,
    MaxListLimit,
    Inputs,             \* values of the query parameter limit, when it is a number
    Omitted,            \* the parameter is not given
    Malformed           \* not a number, given twice, or an unknown parameter

ASSUME ListingAssumption ==
    /\ Jobs \subseteq Nat
    /\ DefaultListLimit \in Nat \ {0}
    /\ MaxListLimit \in Nat
    /\ DefaultListLimit <= MaxListLimit
    /\ Inputs \subseteq Int
    /\ Omitted \notin Int /\ Malformed \notin Int /\ Omitted # Malformed

VARIABLES
    rows,               \* the jobs in the table
    phase,              \* the client: idle, walking, done or refused
    query,              \* the limit parameter it sends with every request
    offset,             \* the offset it asks for next
    begun,              \* history: the rows there were when it began
    seen,               \* the jobs on the pages it got
    twice               \* those that were on more than one page

vars == <<rows, phase, query, offset, begun, seen, twice>>

TypeOK ==
    /\ rows \in SUBSET Jobs
    /\ phase \in {"idle", "walking", "done", "refused"}
    /\ query \in Inputs \union {Omitted, Malformed}
    /\ offset \in Nat
    /\ begun \in SUBSET Jobs
    /\ seen \in SUBSET Jobs
    /\ twice \in SUBSET Jobs

Init ==
    /\ rows = {}
    /\ phase = "idle"
    /\ query = Omitted
    /\ offset = 0
    /\ begun = {}
    /\ seen = {}
    /\ twice = {}

-----------------------------------------------------------------------------
(* The code.                                                               *)

\* parseListOptions rejects the query, and the client gets a 400.
Refused(q) == q \notin {Omitted} \union (0 .. MaxListLimit)

\* Variant: zero is left for the repository to normalise.
LimitAsGiven(q) == IF q = Omitted THEN DefaultListLimit ELSE q

\* parseListOptions: the limit that listJobs passes on and also answers.
Limit(q) == IF q \in {Omitted, 0} THEN DefaultListLimit ELSE q

\* Repository.List normalises once more.
Effective(limit) == IF limit = 0 THEN DefaultListLimit ELSE limit

\* A row's place in ORDER BY created_at DESC, id DESC, counted from 0.
Place(x, table) == Cardinality({y \in table : y > x})

\* Variant: an off-by-one in the offset.
PageShifted(table, limit, from) ==
    {x \in table : Place(x, table) \in (from + 1) .. (from + Effective(limit))}

\* Variant: one row too many.
PageOverlong(table, limit, from) ==
    {x \in table : Place(x, table) \in from .. (from + Effective(limit))}

\* LIMIT limit OFFSET from.
Page(table, limit, from) ==
    {x \in table : Place(x, table) \in from .. (from + Effective(limit) - 1)}

\* Another request creates a job.
Insert(x) ==
    /\ x \notin rows
    /\ rows' = rows \union {x}
    /\ UNCHANGED <<phase, query, offset, begun, seen, twice>>

-----------------------------------------------------------------------------
(* The client: it asks for the next page until one is not full, moving on  *)
(* by the limit the answer states. A request that fails is repeated.       *)

Begin(q) ==
    /\ phase = "idle"
    /\ phase' = "walking"
    /\ query' = q
    /\ begun' = rows
    /\ UNCHANGED <<rows, offset, seen, twice>>

Answer400 ==
    /\ phase = "walking"
    /\ Refused(query)
    /\ phase' = "refused"
    /\ UNCHANGED <<rows, query, offset, begun, seen, twice>>

AnswerPage ==
    /\ phase = "walking"
    /\ ~Refused(query)
    /\ LET page == Page(rows, Limit(query), offset)
       IN  /\ seen' = seen \union page
           /\ twice' = twice \union (seen \intersect page)
           /\ phase' = IF Cardinality(page) < Limit(query) THEN "done" ELSE "walking"
    /\ offset' = offset + Limit(query)
    /\ UNCHANGED <<rows, query, begun>>

\* The query errs or times out: 500, and no partial page.
Answer500 ==
    /\ phase = "walking"
    /\ ~Refused(query)
    /\ UNCHANGED vars

Next ==
    \/ \E x \in Jobs : Insert(x)
    \/ \E q \in Inputs \union {Omitted, Malformed} : Begin(q)
    \/ Answer400 \/ AnswerPage \/ Answer500

Spec == Init /\ [][Next]_vars

\* A client that keeps asking is answered in the end.
FairSpec == Spec /\ WF_vars(Answer400 \/ AnswerPage)

-----------------------------------------------------------------------------
\* A walk misses no job that was there when it began, whatever is created
\* meanwhile: pages move, but only towards the client (README.md:312 warns that
\* page boundaries may change).
WalkMissesNothing == phase = "done" => begun \subseteq seen

\* What it sees twice is no more than what was created during the walk.
RepeatsAreInserts == Cardinality(twice) <= Cardinality(rows \ begun)

\* Every walk ends: the stated limit is never 0, so the client moves on.
WalkEnds == phase = "walking" ~> phase \in {"done", "refused"}

\* Whatever was there at the start and now stands before the next offset was
\* on a page already.
WalkInv ==
    /\ TypeOK
    /\ IsFiniteSet(rows)
    /\ begun \subseteq rows
    /\ phase = "idle" => offset = 0
    /\ phase \in {"walking", "done"} =>
        \A x \in begun : Place(x, rows) < offset => x \in seen
    /\ WalkMissesNothing
=============================================================================
