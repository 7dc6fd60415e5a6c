------------------------------- MODULE Listing -------------------------------
(***************************************************************************)
(* The paged lists of accounts, companies and employers (list_users,       *)
(* list_companies, list_employers), read by a client who asks for page     *)
(* after page for as long as has_next, or page < total_pages, says so.     *)
(*                                                                         *)
(* A page's request counts the rows and then selects the page by offset,   *)
(* two statements of a READ COMMITTED transaction.  Before, after and      *)
(* between them other requests insert rows, delete them, and edit what the *)
(* filters look at.  A row comes into the list anywhere, not only at its   *)
(* front: created_at is taken when the row is made, not when its           *)
(* transaction commits, and an edited row keeps the one it has.            *)
(***************************************************************************)
EXTENDS Naturals, Sequences, FiniteSets

CONSTANTS
    Rows,       \* bound: primary keys 1..Rows, in the order of their values
    PageSize,   \* the client's page_size
    MaxTime,    \* bound: values of created_at
    MaxChanges  \* bound: how often a row comes into the list or drops out of it

Id == 1..Rows

ASSUME BoundsAssumption == Rows \in Nat /\ MaxTime \in Nat /\ MaxChanges \in Nat
\* Query(20, ge=1, le=100)
ASSUME PageSizeAssumption == PageSize \in Nat \ {0}

VARIABLES
    listed,   \* committed rows that satisfy the filters
    created,  \* created_at of the rows
    step,     \* what the client's request does next
    total,    \* what its count has returned
    pages,    \* the pages the client has received
    steady,   \* history: rows in the list ever since the first count
    entered,  \* history: how many rows have come into the list since then
    left,     \* history: how many have dropped out of it since then
    late      \* history: how many have come in since the last count

table == <<listed, created>>
client == <<step, total, pages>>
history == <<steady, entered, left, late>>
vars == <<table, client, history>>

(***************************************************************************)
(* The list and its pages                                                  *)
(***************************************************************************)

\* ORDER BY created_at DESC, id
Before(i, j) == created[i] > created[j] \/ (created[i] = created[j] /\ i < j)

\* Faulty: pages counted from zero.
SkipFromZero(page) == page * PageSize

Skip(page) == (page - 1) * PageSize

\* OFFSET and LIMIT: the rows with so many others before them.
\* Faulty: the last row of the page before comes along.
PageFromOneBefore(page) ==
    {i \in listed : LET rank == Cardinality({j \in listed : Before(j, i)})
                    IN  rank + 1 >= Skip(page) /\ rank < Skip(page) + PageSize}

Page(page) ==
    {i \in listed : LET rank == Cardinality({j \in listed : Before(j, i)})
                    IN  rank >= Skip(page) /\ rank < Skip(page) + PageSize}

\* ceil(total / page_size)
TotalPages(n) == (n + PageSize - 1) \div PageSize

\* Faulty: the last page promises another one.
HasNextInclusive(page, n) == page <= TotalPages(n)

HasNext(page, n) == page < TotalPages(n)

(***************************************************************************)
(* The client                                                              *)
(***************************************************************************)

Init ==
    /\ listed \in SUBSET Id
    /\ created \in [Id -> 1..MaxTime]
    /\ step = "count" /\ total = 0 /\ pages = <<>>
    /\ steady = listed /\ entered = 0 /\ left = 0 /\ late = 0

\* SELECT count(id)
Count ==
    /\ step = "count"
    /\ total' = Cardinality(listed)
    /\ step' = "select"
    /\ late' = 0
    /\ UNCHANGED <<table, pages, steady, entered, left>>

\* The page, and with it whether there is another one.
Select ==
    /\ step = "select"
    /\ LET page == Len(pages) + 1
       IN  /\ pages' = Append(pages, Page(page))
           /\ step' = IF HasNext(page, total) THEN "count" ELSE "done"
    /\ UNCHANGED <<table, total, history>>

(***************************************************************************)
(* The other requests.  What they do before the first count is in Init.    *)
(***************************************************************************)

Changing == /\ step = "select" \/ (step = "count" /\ pages # <<>>)
            /\ entered + left < MaxChanges

\* A commit brings a row into the list: that of its INSERT, or of an edit of a
\* column the filters look at.
Enter(i) ==
    /\ Changing
    /\ i \notin listed
    /\ listed' = listed \cup {i}
    /\ entered' = entered + 1
    /\ late' = late + 1
    /\ UNCHANGED <<created, client, steady, left>>

\* A commit takes a row out of the list: that of its DELETE, or of an edit.
Leave(i) ==
    /\ Changing
    /\ i \in listed
    /\ listed' = listed \ {i}
    /\ left' = left + 1
    /\ steady' = steady \ {i}
    /\ UNCHANGED <<created, client, entered, late>>

Next == Count \/ Select \/ \E i \in Id : Enter(i) \/ Leave(i)

Spec == Init /\ [][Next]_vars

(***************************************************************************)
(* Properties                                                              *)
(***************************************************************************)

\* Tables, client and history have their shape; a page is no longer than asked
\* for.
TypeOK ==
    /\ listed \subseteq Id /\ created \in [Id -> 1..MaxTime]
    /\ step \in {"count", "select", "done"}
    /\ total \in 0..Rows
    /\ pages \in Seq(SUBSET Id)
    /\ \A k \in 1..Len(pages) : Cardinality(pages[k]) <= PageSize
    /\ steady \subseteq listed
    /\ entered \in Nat /\ left \in Nat /\ entered + left <= MaxChanges
    /\ late \in 0..entered

Shown == UNION {pages[k] : k \in 1..Len(pages)}

Repeats ==
    Cardinality({e \in (1..Len(pages)) \X Id : e[2] \in pages[e[1]]})
        - Cardinality(Shown)

\* A client who follows has_next to its end has seen every row that was in the
\* list all the while, except for one at most for each row that dropped out
\* meanwhile, which moves the others up, and for each that came in between the
\* count and the page of the last request, which the count does not promise.
NothingSkipped ==
    step = "done" => Cardinality(steady \ Shown) <= left + late

\* The client sees no row on two pages, except for one at most for each row that
\* came in meanwhile, which moves the others down.
NoRepeats == Repeats <= entered

\* A page that the one before announced by has_next is not empty, unless rows have
\* dropped out since: count and page agree although they are two statements.
PromisedPages ==
    left = 0 => \A k \in 2..Len(pages) : pages[k] # {}

=============================================================================
