---------------------------- MODULE ListingProofs ----------------------------
(***************************************************************************)
(* Proofs about Listing, for any number of rows and changes and any page   *)
(* size.  The operators below take the list and created_at as arguments,   *)
(* so that a lemma can compare the list before and after a change.         *)
(***************************************************************************)
EXTENDS Listing, FiniteSetTheorems, TLAPS

(***************************************************************************)
(* Lists in their order                                                    *)
(***************************************************************************)

Above(c, i, j) == c[i] > c[j] \/ (c[i] = c[j] /\ i < j)

Ahead(S, c, i) == {j \in S : Above(c, j, i)}

Rank(S, c, i) == Cardinality(Ahead(S, c, i))

\* The list without its first k rows.
Rest(S, c, k) == {i \in S : Rank(S, c, i) >= k}

Times == [Id -> 1..MaxTime]

\* The primary keys are finitely many numbers.
LEMMA IdFinite ==
    /\ IsFiniteSet(Id) /\ Cardinality(Id) = Rows /\ Id \subseteq Nat
    /\ \A S \in SUBSET Id : /\ IsFiniteSet(S) /\ Cardinality(S) \in 0..Rows
                            /\ Cardinality(S) \in Nat
<1>1. IsFiniteSet(Id) /\ Cardinality(Id) = Rows /\ Id \subseteq Nat
    BY FS_Interval, BoundsAssumption DEF Id
<1>2. ASSUME NEW S \in SUBSET Id
      PROVE  /\ IsFiniteSet(S) /\ Cardinality(S) \in 0..Rows
             /\ Cardinality(S) \in Nat
    <2>1. IsFiniteSet(S) /\ Cardinality(S) <= Rows
        BY <1>1, FS_Subset
    <2>2. Cardinality(S) \in Nat
        BY <2>1, FS_CardinalityType
    <2> QED BY <2>1, <2>2, BoundsAssumption
<1> QED BY <1>1, <1>2

\* Whoever comes first has fewer rows before it.
LEMMA RankOrders ==
    ASSUME NEW c \in Times, NEW S \in SUBSET Id, NEW i \in S, NEW j \in S,
           Above(c, i, j)
    PROVE  Rank(S, c, i) < Rank(S, c, j)
<1> DEFINE A == Ahead(S, c, i)
           B == Ahead(S, c, j)
<1>1. /\ c[i] \in Nat /\ c[j] \in Nat /\ i \in Nat /\ j \in Nat
      /\ \A k \in S : k \in Nat /\ c[k] \in Nat
    BY IdFinite, BoundsAssumption DEF Times
<1>2. A \subseteq B /\ i \in B /\ i \notin A
    <2>1. ASSUME NEW k \in S, Above(c, k, i)  PROVE Above(c, k, j)
        BY <1>1, <2>1 DEF Above
    <2>2. ~Above(c, i, i)
        BY <1>1 DEF Above
    <2> QED BY <2>1, <2>2 DEF Ahead
<1>3. B \in SUBSET Id /\ A \in SUBSET B
    BY <1>2 DEF Ahead
<1>4. IsFiniteSet(B) /\ Cardinality(B) \in Nat /\ Cardinality(A) \in Nat
    BY <1>3, IdFinite
<1>5. Cardinality(A) <= Cardinality(B) /\ Cardinality(A) # Cardinality(B)
    <2> HIDE DEF A, B
    <2> QED BY <1>2, <1>3, <1>4, FS_Subset
<1> QED BY <1>4, <1>5 DEF Rank

\* Of two rows one comes first.
LEMMA RankDiffers ==
    ASSUME NEW c \in Times, NEW S \in SUBSET Id, NEW i \in S, NEW j \in S,
           i # j
    PROVE  Rank(S, c, i) # Rank(S, c, j)
<1>1. c[i] \in Nat /\ c[j] \in Nat /\ i \in Nat /\ j \in Nat
    BY IdFinite, BoundsAssumption DEF Times
<1>2. Above(c, i, j) \/ Above(c, j, i)
    BY <1>1 DEF Above
<1>3. Rank(S, c, i) \in Nat /\ Rank(S, c, j) \in Nat
    BY IdFinite DEF Rank, Ahead
<1> QED BY <1>2, <1>3, RankOrders

\* Ranks are places in the list.
LEMMA RankBound ==
    ASSUME NEW c \in Times, NEW S \in SUBSET Id, NEW i \in S
    PROVE  Rank(S, c, i) \in 0..Cardinality(S) - 1
<1>1. /\ IsFiniteSet(S) /\ Cardinality(S) \in Nat
      /\ c[i] \in Nat /\ i \in Nat
    BY IdFinite, BoundsAssumption DEF Times
<1>2. Ahead(S, c, i) \in SUBSET (S \ {i})
    BY <1>1 DEF Ahead, Above
<1>3. /\ IsFiniteSet(S \ {i}) /\ Cardinality(S \ {i}) = Cardinality(S) - 1
      /\ Cardinality(Ahead(S, c, i)) \in Nat
    BY <1>1, FS_RemoveElement, IdFinite DEF Ahead
<1>4. Cardinality(Ahead(S, c, i)) <= Cardinality(S) - 1
    BY <1>2, <1>3, FS_Subset
<1> QED BY <1>1, <1>3, <1>4 DEF Rank

\* A list has exactly one row at each place: without its first k rows it is k
\* shorter, or empty.
LEMMA RestCount ==
    ASSUME NEW c \in Times, NEW S \in SUBSET Id, NEW k \in Nat
    PROVE  Cardinality(Rest(S, c, k)) =
               IF k <= Cardinality(S) THEN Cardinality(S) - k ELSE 0
<1> DEFINE L == Cardinality(S)
           f == [i \in S |-> Rank(S, c, i)]
           R == Rest(S, c, k)
           g == [i \in R |-> Rank(S, c, i)]
<1>1. IsFiniteSet(S) /\ L \in Nat /\ R \in SUBSET S /\ IsFiniteSet(R)
    BY IdFinite DEF Rest
<1>2. \A i \in S : Rank(S, c, i) \in 0..L - 1
    BY RankBound
<1>3. f \in Injection(S, 0..L - 1)
    BY <1>2, RankDiffers DEF Injection, IsInjective
<1>4. IsFiniteSet(0..L - 1) /\ Cardinality(0..L - 1) = L
    <2> HIDE DEF L
    <2>1. 0 \in Int /\ L - 1 \in Int
        BY <1>1
    <2> QED BY <1>1, <2>1, FS_Interval
<1>5. f \in Surjection(S, 0..L - 1)
    BY <1>3, <1>4, FS_Injection
<1>6. \A n \in 0..L - 1 : \E i \in S : Rank(S, c, i) = n
    BY <1>5 DEF Surjection
<1>7. g \in Bijection(R, k..L - 1)
    <2>1. g \in [R -> k..L - 1]
        BY <1>1, <1>2 DEF Rest
    <2>2. g \in Injection(R, k..L - 1)
        BY <2>1, <1>1, RankDiffers DEF Injection, IsInjective
    <2>3. g \in Surjection(R, k..L - 1)
        <3>1. ASSUME NEW n \in k..L - 1  PROVE \E i \in R : g[i] = n
            BY <1>1, <1>6 DEF Rest
        <3> QED BY <2>1, <3>1 DEF Surjection
    <2> QED BY <2>2, <2>3 DEF Bijection
<1>8. Cardinality(k..L - 1) = Cardinality(R)
    <2> HIDE DEF g, R
    <2> QED BY <1>1, <1>7, FS_Bijection DEF ExistsBijection
<1>9. Cardinality(k..L - 1) = IF k > L - 1 THEN 0 ELSE L - k
    <2> HIDE DEF L
    <2>1. k \in Int /\ L - 1 \in Int
        BY <1>1
    <2> QED BY <1>1, <2>1, FS_Interval
<1> QED BY <1>1, <1>8, <1>9

\* One row more moves no row up, and at most one row beyond place k.
LEMMA RestGrows ==
    ASSUME NEW c \in Times, NEW S \in SUBSET Id, NEW T \in SUBSET Id,
           NEW x \in Id, x \notin S, T = S \cup {x}, NEW k \in Nat
    PROVE  /\ Rest(S, c, k) \subseteq Rest(T, c, k)
           /\ \E y \in T : Rest(T, c, k) \subseteq Rest(S, c, k) \cup {y}
<1> DEFINE R == Rest(S, c, k)
           Q == Rest(T, c, k)
<1>1. ASSUME NEW i \in S  PROVE Rank(S, c, i) <= Rank(T, c, i)
    <2>1. /\ Ahead(S, c, i) \in SUBSET Ahead(T, c, i)
          /\ Ahead(T, c, i) \in SUBSET Id
        BY DEF Ahead
    <2> QED BY <2>1, IdFinite, FS_Subset DEF Rank
<1>2. R \in SUBSET Q
    <2>1. ASSUME NEW i \in S, Rank(S, c, i) >= k  PROVE Rank(T, c, i) >= k
        <3>1. /\ Ahead(S, c, i) \in SUBSET Id /\ Ahead(T, c, i) \in SUBSET Id
            BY DEF Ahead
        <3>2. Rank(S, c, i) \in Nat /\ Rank(T, c, i) \in Nat
            BY <3>1, IdFinite DEF Rank
        <3> QED BY <1>1, <2>1, <3>2
    <2> QED BY <2>1 DEF Rest
<1>3. /\ IsFiniteSet(S) /\ Cardinality(T) = Cardinality(S) + 1
      /\ Cardinality(S) \in Nat
    BY IdFinite, FS_AddElement
<1>4. Cardinality(Q) <= Cardinality(R) + 1
    BY <1>3, RestCount
<1>5. /\ R \in SUBSET Id /\ Q \in SUBSET Id /\ Q \ R \in SUBSET Id
      /\ Q \subseteq T /\ Q \cap R = R
    BY <1>2 DEF Rest
<1>6. Cardinality(Q \ R) = Cardinality(Q) - Cardinality(R)
    <2> HIDE DEF Q, R
    <2> QED BY <1>5, IdFinite, FS_Difference
<1>7. Cardinality(Q \ R) \in {0, 1} /\ IsFiniteSet(Q \ R)
    <2> HIDE DEF Q, R
    <2>1. /\ Cardinality(Q) \in Nat /\ Cardinality(R) \in Nat
          /\ Cardinality(Q \ R) \in Nat /\ IsFiniteSet(Q \ R)
        BY <1>5, IdFinite
    <2> QED BY <1>4, <1>6, <2>1
<1>8. Q \ R = {} \/ \E y : Q \ R = {y}
    BY <1>7, FS_EmptySet, FS_Singleton
<1>9. \E y \in T : Q \subseteq R \cup {y}
    BY <1>5, <1>8
<1> QED BY <1>2, <1>9

\* Later places have less of the list after them.
LEMMA RestShrinks ==
    ASSUME NEW c \in Times, NEW S \in SUBSET Id, NEW k \in Nat, NEW m \in Nat
    PROVE  /\ Rest(S, c, k) \in SUBSET S
           /\ Rest(S, c, k + m) \subseteq Rest(S, c, k)
<1>1. ASSUME NEW i \in S, Rank(S, c, i) >= k + m  PROVE Rank(S, c, i) >= k
    <2>1. Ahead(S, c, i) \in SUBSET Id
        BY DEF Ahead
    <2> QED BY <1>1, <2>1, IdFinite DEF Rank
<1> QED BY <1>1 DEF Rest

\* Counting a subset, and a set with one element more.
LEMMA Counts ==
    ASSUME NEW A \in SUBSET Id, NEW B \in SUBSET Id
    PROVE  /\ Cardinality(A) \in Nat /\ Cardinality(B) \in Nat
           /\ A \subseteq B => Cardinality(A) <= Cardinality(B)
           /\ \A y : A \subseteq B \cup {y}
                        => Cardinality(A) <= Cardinality(B) + 1
           /\ Cardinality(A \ B) = Cardinality(A) - Cardinality(A \cap B)
           /\ Cardinality(A \cup B) =
                Cardinality(A) + Cardinality(B) - Cardinality(A \cap B)
           /\ Cardinality(A \cap B) \in Nat
<1>1. /\ IsFiniteSet(A) /\ IsFiniteSet(B)
      /\ Cardinality(A) \in Nat /\ Cardinality(B) \in Nat
    BY IdFinite
<1>2. A \cap B \in SUBSET Id /\ Cardinality(A \cap B) \in Nat
    <2>1. A \cap B \in SUBSET Id
        OBVIOUS
    <2> QED BY <2>1, IdFinite
<1>3. ASSUME NEW y, A \subseteq B \cup {y}
      PROVE  Cardinality(A) <= Cardinality(B) + 1
    <2>1. /\ IsFiniteSet(B \cup {y})
          /\ Cardinality(B \cup {y}) \in {Cardinality(B), Cardinality(B) + 1}
        BY <1>1, FS_AddElement
    <2>2. Cardinality(A) <= Cardinality(B \cup {y})
        BY <1>3, <2>1, FS_Subset
    <2> QED BY <1>1, <2>1, <2>2
<1>4. A \subseteq B => Cardinality(A) <= Cardinality(B)
    BY <1>1, FS_Subset
<1>5. /\ Cardinality(A \ B) = Cardinality(A) - Cardinality(A \cap B)
      /\ Cardinality(A \cup B) =
            Cardinality(A) + Cardinality(B) - Cardinality(A \cap B)
    BY <1>1, FS_Difference, FS_Union
<1> QED BY <1>1, <1>2, <1>3, <1>4, <1>5

(***************************************************************************)
(* The client's place in the list                                          *)
(***************************************************************************)

Reached == Len(pages) * PageSize

\* The part of the list that is still to be asked for.
Unread == Rest(listed, created, Reached)

\* Offsets: pages follow one another without gaps.
LEMMA Distribute ==
    ASSUME NEW k \in Nat
    PROVE  k * PageSize \in Nat /\ (k + 1) * PageSize = k * PageSize + PageSize
BY PageSizeAssumption

\* has_next says that the count goes beyond the page.
LEMMA MorePages ==
    ASSUME NEW page \in Nat, NEW n \in Nat
    PROVE  HasNext(page, n) <=> page * PageSize < n
<1> DEFINE q == (n + PageSize - 1) \div PageSize
<1>1. /\ q \in Nat /\ q * PageSize <= n + PageSize - 1
      /\ n + PageSize - 1 < q * PageSize + PageSize
    BY PageSizeAssumption
<1> QED BY <1>1, PageSizeAssumption DEF HasNext, TotalPages

\* A page is what the list has between two offsets.
LEMMA PageIsBetween ==
    ASSUME TypeOK, NEW k \in Nat
    PROVE  Page(k + 1) = Rest(listed, created, k * PageSize)
                            \ Rest(listed, created, (k + 1) * PageSize)
<1>1. /\ Skip(k + 1) = k * PageSize /\ Skip(k + 1) \in Nat
      /\ Skip(k + 1) + PageSize = (k + 1) * PageSize
      /\ Skip(k + 1) + PageSize \in Nat
    BY Distribute, PageSizeAssumption DEF Skip
<1>2. \A i \in listed :
         LET rank == Cardinality({j \in listed : Before(j, i)})
         IN  rank = Rank(listed, created, i) /\ rank \in Nat
    <2>1. ASSUME NEW i \in listed
          PROVE  /\ {j \in listed : Before(j, i)} = Ahead(listed, created, i)
                 /\ Ahead(listed, created, i) \in SUBSET Id
        BY DEF Before, Ahead, Above, TypeOK
    <2> QED BY <2>1, IdFinite DEF Rank
<1> QED BY <1>1, <1>2 DEF Page, Rest

\* What a page's SELECT does: it moves the client's place by one page, and what
\* it shows is what lies between the two places.
LEMMA SelectMoves ==
    ASSUME TypeOK, Select
    PROVE  /\ \E P \in SUBSET listed :
                /\ pages' = Append(pages, P) /\ Shown' = Shown \cup P
                /\ Unread' \subseteq Unread /\ P = Unread \ Unread'
           /\ Reached \in Nat /\ Reached' = Reached + PageSize
           /\ Len(pages') = Len(pages) + 1
           /\ step = "select"
           /\ step' = IF Reached' < total THEN "count" ELSE "done"
           /\ UNCHANGED <<table, total, history>>
<1> DEFINE P == Page(Len(pages) + 1)
<1>1. /\ Len(pages) \in Nat /\ pages \in Seq(SUBSET Id)
      /\ listed \in SUBSET Id /\ created \in Times /\ total \in Nat
    BY BoundsAssumption DEF TypeOK, Times
<1>2. P \in SUBSET listed
    BY DEF Page
<1>3. /\ pages' = Append(pages, P)
      /\ step = "select" /\ UNCHANGED <<table, total, history>>
      /\ step' = IF HasNext(Len(pages) + 1, total) THEN "count" ELSE "done"
    BY DEF Select
<1>4. P \in SUBSET Id
    BY <1>1, <1>2
<1>5. /\ Len(pages') = Len(pages) + 1
      /\ pages'[Len(pages) + 1] = P
      /\ \A k \in 1..Len(pages) : pages'[k] = pages[k]
    <2> HIDE DEF P
    <2> QED BY <1>1, <1>3, <1>4
<1>6. /\ Reached \in Nat /\ Reached' = (Len(pages) + 1) * PageSize
      /\ Reached' = Reached + PageSize
    BY <1>1, <1>5, Distribute DEF Reached
<1>7. HasNext(Len(pages) + 1, total) <=> Reached' < total
    BY <1>1, <1>6, MorePages
<1>8. Shown' = Shown \cup P
    <2> HIDE DEF P
    <2>1. Shown' = UNION {pages'[k] : k \in 1..Len(pages) + 1}
        BY <1>5 DEF Shown
    <2>2. 1..Len(pages) + 1 = 1..Len(pages) \cup {Len(pages) + 1}
        BY <1>1
    <2> QED BY <2>1, <2>2, <1>5 DEF Shown
<1>9. Unread' = Rest(listed, created, (Len(pages) + 1) * PageSize)
    BY <1>3, <1>6 DEF Unread, table
<1>10. Unread' \subseteq Unread
    <2>1. PageSize \in Nat
        BY PageSizeAssumption
    <2> QED BY <1>1, <1>6, <1>9, <2>1, RestShrinks DEF Unread
<1>11. P = Unread \ Unread'
    BY <1>1, <1>9, PageIsBetween DEF Unread, Reached
<1> HIDE DEF P
<1> QED BY <1>2, <1>3, <1>5, <1>6, <1>7, <1>8, <1>10, <1>11

\* No page is longer than asked for, whatever has happened to the list.
LEMMA PageLength ==
    ASSUME TypeOK
    PROVE  Cardinality(Page(Len(pages) + 1)) <= PageSize
<1> DEFINE k == Len(pages)
           A == Rest(listed, created, k * PageSize)
           B == Rest(listed, created, (k + 1) * PageSize)
<1>1. /\ k \in Nat /\ listed \in SUBSET Id /\ created \in Times
      /\ PageSize \in Nat /\ k * PageSize \in Nat
      /\ (k + 1) * PageSize = k * PageSize + PageSize
    BY Distribute, PageSizeAssumption DEF TypeOK, Times
<1>2. B \subseteq A /\ A \in SUBSET Id /\ B \in SUBSET Id /\ A \cap B = B
    <2> DEFINE m == k * PageSize
    <2>1. /\ Rest(listed, created, m + PageSize) \subseteq Rest(listed, created, m)
          /\ Rest(listed, created, m) \in SUBSET listed
        <3> HIDE DEF m, k
        <3> QED BY <1>1, RestShrinks DEF m
    <2>2. A = Rest(listed, created, m) /\ B = Rest(listed, created, m + PageSize)
        BY <1>1
    <2> HIDE DEF A, B
    <2> QED BY <1>1, <2>1, <2>2
<1>3. Cardinality(A \ B) = Cardinality(A) - Cardinality(B)
    <2> HIDE DEF A, B
    <2> QED BY <1>2, Counts
<1>4. Cardinality(A) - Cardinality(B) <= PageSize
    <2> DEFINE m == k * PageSize
               L == Cardinality(listed)
    <2>1. m \in Nat /\ m + PageSize \in Nat /\ L \in Nat
        BY <1>1, IdFinite
    <2>2. /\ Cardinality(A) = IF m <= L THEN L - m ELSE 0
          /\ Cardinality(B) = IF m + PageSize <= L THEN L - (m + PageSize) ELSE 0
        BY <1>1, <2>1, RestCount
    <2> HIDE DEF m, L, A, B
    <2> QED BY <1>1, <2>1, <2>2
<1> QED BY <1>1, <1>3, <1>4, PageIsBetween

\* The tables, the client's and the history's variables keep their shape, and no
\* page is longer than the client has asked for.
THEOREM TypeCorrect == Spec => []TypeOK
<1>1. Init => TypeOK
    <2> SUFFICES ASSUME Init  PROVE TypeOK
        OBVIOUS
    <2>1. pages \in Seq(SUBSET Id) /\ Len(pages) = 0
        BY DEF Init
    <2> QED BY <2>1, BoundsAssumption DEF Init, TypeOK
<1>2. TypeOK /\ [Next]_vars => TypeOK'
    <2> SUFFICES ASSUME TypeOK, [Next]_vars  PROVE TypeOK'
        OBVIOUS
    <2>1. CASE Count
        BY <2>1, IdFinite DEF Count, TypeOK, table
    <2>2. CASE Select
        <3> DEFINE P == Page(Len(pages) + 1)
        <3>1. /\ pages' = Append(pages, P) /\ pages \in Seq(SUBSET Id)
              /\ step' \in {"count", "done"}
              /\ UNCHANGED <<table, total, history>>
            BY <2>2 DEF Select, TypeOK
        <3>2. P \in SUBSET Id /\ Cardinality(P) <= PageSize
            BY PageLength DEF Page, TypeOK
        <3> HIDE DEF P
        <3>3. /\ pages' \in Seq(SUBSET Id) /\ Len(pages') = Len(pages) + 1
              /\ pages'[Len(pages) + 1] = P
              /\ \A k \in 1..Len(pages) : pages'[k] = pages[k]
              /\ Len(pages) \in Nat
            BY <3>1, <3>2
        <3>4. \A k \in 1..Len(pages') : Cardinality(pages'[k]) <= PageSize
            BY <3>2, <3>3 DEF TypeOK
        <3> QED BY <3>1, <3>3, <3>4 DEF TypeOK, table, history
    <2>3. CASE \E i \in Id : Enter(i)
        BY <2>3, BoundsAssumption DEF Enter, Changing, TypeOK, client
    <2>4. CASE \E i \in Id : Leave(i)
        BY <2>4, BoundsAssumption DEF Leave, Changing, TypeOK, client
    <2>5. CASE UNCHANGED vars
        BY <2>5 DEF TypeOK, vars, table, client, history
    <2> QED BY <2>1, <2>2, <2>3, <2>4, <2>5 DEF Next
<1> QED BY <1>1, <1>2, PTL DEF Spec

(***************************************************************************)
(* The other requests                                                      *)
(***************************************************************************)

\* What a row that comes in does to the client's place: at most one row, itself
\* or one it moves down, is added to what is still to be asked for.
LEMMA EnterMoves ==
    ASSUME TypeOK, NEW x \in Id, Enter(x)
    PROVE  /\ Cardinality(listed') = Cardinality(listed) + 1
           /\ x \notin listed /\ listed' = listed \cup {x}
           /\ Reached' = Reached /\ Shown' = Shown
           /\ Unread \subseteq Unread'
           /\ \E y : Unread' \subseteq Unread \cup {y}
           /\ step # "done" /\ entered' = entered + 1 /\ late' = late + 1
           /\ UNCHANGED <<created, client, steady, left>>
<1>1. /\ x \notin listed /\ listed' = listed \cup {x}
      /\ step # "done" /\ entered' = entered + 1 /\ late' = late + 1
      /\ UNCHANGED <<created, client, steady, left>>
    BY DEF Enter, Changing
<1>2. /\ Reached' = Reached /\ Shown' = Shown /\ Reached \in Nat
      /\ listed \in SUBSET Id /\ listed' \in SUBSET Id /\ created \in Times
      /\ created' = created
    <2>1. pages' = pages /\ created' = created /\ Len(pages) \in Nat
        BY <1>1 DEF client, TypeOK
    <2>2. Reached' = Reached /\ Shown' = Shown /\ Reached \in Nat
        BY <2>1, Distribute DEF Reached, Shown
    <2> QED BY <1>1, <2>1, <2>2 DEF TypeOK, Times
<1>3. Unread \subseteq Unread' /\ \E y : Unread' \subseteq Unread \cup {y}
    BY <1>1, <1>2, RestGrows DEF Unread
<1>4. Cardinality(listed') = Cardinality(listed) + 1
    BY <1>1, <1>2, IdFinite, FS_AddElement
<1> QED BY <1>1, <1>2, <1>3, <1>4

\* What a row that drops out does: at most one row, itself or one it moves up,
\* is taken from what is still to be asked for.
LEMMA LeaveMoves ==
    ASSUME TypeOK, NEW x \in Id, Leave(x)
    PROVE  /\ Cardinality(listed') = Cardinality(listed) - 1
           /\ listed' = listed \ {x} /\ steady' = steady \ {x}
           /\ Reached' = Reached /\ Shown' = Shown
           /\ Unread' \subseteq Unread
           /\ \E y : Unread \subseteq Unread' \cup {y}
           /\ step # "done" /\ left' = left + 1
           /\ UNCHANGED <<created, client, entered, late>>
<1>1. /\ x \in listed /\ listed' = listed \ {x} /\ steady' = steady \ {x}
      /\ step # "done" /\ left' = left + 1
      /\ UNCHANGED <<created, client, entered, late>>
    BY DEF Leave, Changing
<1>2. /\ Reached' = Reached /\ Shown' = Shown /\ Reached \in Nat
      /\ listed \in SUBSET Id /\ listed' \in SUBSET Id /\ created \in Times
      /\ created' = created
      /\ x \notin listed' /\ listed = listed' \cup {x}
    <2>1. pages' = pages /\ created' = created /\ Len(pages) \in Nat
        BY <1>1 DEF client, TypeOK
    <2>2. Reached' = Reached /\ Shown' = Shown /\ Reached \in Nat
        BY <2>1, Distribute DEF Reached, Shown
    <2> QED BY <1>1, <2>1, <2>2 DEF TypeOK, Times
<1>3. Unread' \subseteq Unread /\ \E y : Unread \subseteq Unread' \cup {y}
    BY <1>1, <1>2, RestGrows DEF Unread
<1>4. Cardinality(listed') = Cardinality(listed) - 1
    BY <1>1, <1>2, IdFinite, FS_RemoveElement
<1> QED BY <1>1, <1>2, <1>3, <1>4

(***************************************************************************)
(* Promised pages                                                          *)
(***************************************************************************)

\* As long as no row has dropped out, the list has what the count promised, and
\* the page announced by has_next has a row.
Promising ==
    left = 0 =>
        /\ step = "select" => total <= Cardinality(listed)
        /\ pages # <<>> /\ step # "done" => Reached < Cardinality(listed)

\* A page announced by has_next is not empty unless rows have dropped out since.
THEOREM PromisesKept == Spec => []PromisedPages
<1> DEFINE Inv == Promising /\ PromisedPages
<1>1. Init => Inv
    BY DEF Init, Promising, PromisedPages
<1>2. TypeOK /\ Inv /\ [Next]_vars => Inv'
    <2> SUFFICES ASSUME TypeOK, Inv, [Next]_vars  PROVE Inv'
        OBVIOUS
    <2>0. /\ Cardinality(listed) \in Nat /\ left \in Nat /\ total \in Nat
          /\ listed \in SUBSET Id /\ pages \in Seq(SUBSET Id)
        BY IdFinite, BoundsAssumption DEF TypeOK
    <2>1. CASE Count
        BY <2>0, <2>1 DEF Count, table, Promising, PromisedPages, Reached
    <2>2. CASE Select
        <3>1. PICK P \in SUBSET listed :
                 /\ pages' = Append(pages, P) /\ Shown' = Shown \cup P
                 /\ Unread' \subseteq Unread /\ P = Unread \ Unread'
            BY <2>2, SelectMoves
        <3>2. /\ Reached \in Nat /\ Reached' = Reached + PageSize
              /\ Len(pages') = Len(pages) + 1
              /\ step = "select" /\ listed' = listed /\ left' = left
              /\ step' = IF Reached' < total THEN "count" ELSE "done"
            BY <2>2, SelectMoves DEF table, history
        <3>3. Promising'
            BY <2>0, <3>2, PageSizeAssumption DEF Promising
        <3>4. ASSUME left = 0, pages # <<>>  PROVE P # {}
            <4>1. Reached < Cardinality(listed)
                BY <3>2, <3>4 DEF Promising
            <4>2. created \in Times /\ created' = created
                BY <2>2 DEF Select, table, TypeOK, Times
            <4>3. Cardinality(Unread) = Cardinality(listed) - Reached
                BY <2>0, <3>2, <4>1, <4>2, RestCount DEF Unread
            <4>4. /\ Reached + PageSize \in Nat /\ PageSize \in Nat \ {0}
                  /\ Reached' \in Nat
                BY <3>2, PageSizeAssumption
            <4>5. Cardinality(Unread') =
                     IF Reached' <= Cardinality(listed)
                     THEN Cardinality(listed) - Reached' ELSE 0
                BY <2>0, <3>2, <4>2, <4>4, RestCount DEF Unread
            <4>6. Cardinality(Unread) # Cardinality(Unread')
                BY <2>0, <3>2, <4>1, <4>3, <4>4, <4>5
            <4>7. Unread # Unread'
                BY <4>6
            <4> QED BY <3>1, <4>7
        <3>5. PromisedPages'
            <4> SUFFICES ASSUME left = 0, NEW k \in 2..Len(pages) + 1
                         PROVE  pages'[k] # {}
                BY <3>2 DEF PromisedPages
            <4>1. /\ k \in 2..Len(pages) => pages'[k] = pages[k]
                  /\ k = Len(pages) + 1 => pages'[k] = P
                  /\ Len(pages) \in Nat
                <5>1. P \in SUBSET Id
                    BY <2>0
                <5> QED BY <2>0, <3>1, <5>1
            <4>2. CASE k \in 2..Len(pages)
                BY <4>1, <4>2 DEF PromisedPages
            <4>3. CASE k = Len(pages) + 1
                BY <3>4, <4>1, <4>3
            <4> QED BY <4>1, <4>2, <4>3
        <3> QED BY <3>3, <3>5
    <2>3. ASSUME NEW x \in Id, Enter(x)  PROVE Inv'
        <3>1. /\ Cardinality(listed') = Cardinality(listed) + 1
              /\ Reached' = Reached /\ left' = left /\ Reached \in Nat
              /\ step' = step /\ total' = total /\ pages' = pages
            <4>1. Reached \in Nat
                BY <2>0, Distribute DEF Reached
            <4> QED BY <4>1, <2>3, EnterMoves DEF client
        <3> QED BY <2>0, <3>1 DEF Promising, PromisedPages
    <2>4. ASSUME NEW x \in Id, Leave(x)  PROVE Inv'
        BY <2>0, <2>4, LeaveMoves DEF Promising, PromisedPages
    <2>5. CASE UNCHANGED vars
        BY <2>5 DEF vars, table, client, history, Promising, PromisedPages,
                    Reached
    <2> QED BY <2>1, <2>2, <2>3, <2>4, <2>5 DEF Next
<1> QED BY <1>1, <1>2, TypeCorrect, PTL DEF Spec

(***************************************************************************)
(* Repeated rows                                                           *)
(***************************************************************************)

\* The repeats there are, and those to come if nothing else comes in: what was
\* shown and is still to be asked for.
Repeating == Repeats + Cardinality(Shown \cap Unread) <= entered

\* The rows a client has seen are rows.
LEMMA ShownType == TypeOK => Shown \in SUBSET Id
BY DEF TypeOK, Shown

\* The pairs of a page and a row on it can be counted.
LEMMA RepeatsType == TypeOK => Repeats \in Int
<1> SUFFICES ASSUME TypeOK  PROVE Repeats \in Int
    OBVIOUS
<1> DEFINE Places == (1..Len(pages)) \X Id
           On == {e \in Places : e[2] \in pages[e[1]]}
<1>1. IsFiniteSet(Places)
    <2>1. IsFiniteSet(1..Len(pages))
        <3>1. Len(pages) \in Nat
            BY DEF TypeOK
        <3> QED BY <3>1, FS_Interval
    <2> QED BY <2>1, IdFinite, FS_Product
<1>2. On \in SUBSET Places
    OBVIOUS
<1>3. Cardinality(On) \in Nat
    <2> HIDE DEF Places, On
    <2> QED BY <1>1, <1>2, FS_Subset, FS_CardinalityType
<1>4. Cardinality(Shown) \in Nat
    BY ShownType, IdFinite
<1>5. Repeats = Cardinality(On) - Cardinality(Shown)
    BY DEF Repeats
<1> HIDE DEF On
<1> QED BY <1>3, <1>4, <1>5

\* A page repeats exactly those of its rows the client has seen before.
LEMMA RepeatsGrow ==
    ASSUME TypeOK, NEW P \in SUBSET Id,
           pages' = Append(pages, P), Shown' = Shown \cup P
    PROVE  Repeats' = Repeats + Cardinality(Shown \cap P)
<1> DEFINE k == Len(pages)
           Seen == {e \in (1..k) \X Id : e[2] \in pages[e[1]]}
           More == {k + 1} \X P
<1>1. /\ k \in Nat /\ Len(pages') = k + 1 /\ pages'[k + 1] = P
      /\ \A j \in 1..k : pages'[j] = pages[j]
      /\ pages \in Seq(SUBSET Id)
    BY DEF TypeOK
<1>2. {e \in (1..k + 1) \X Id : e[2] \in pages'[e[1]]} = Seen \cup More
    <2>1. 1..k + 1 = 1..k \cup {k + 1} /\ k + 1 \notin 1..k
        BY <1>1
    <2> HIDE DEF k
    <2> QED BY <1>1, <2>1
<1>3. Seen \cap More = {}
    <2>1. k + 1 \notin 1..k
        BY <1>1
    <2> HIDE DEF k
    <2> QED BY <2>1
<1>4. IsFiniteSet(Seen) /\ Cardinality(Seen) \in Nat
    <2>1. IsFiniteSet((1..k) \X Id)
        <3>1. IsFiniteSet(1..k)
            BY <1>1, FS_Interval
        <3> HIDE DEF k
        <3> QED BY <3>1, IdFinite, FS_Product
    <2>2. Seen \in SUBSET ((1..k) \X Id)
        OBVIOUS
    <2> HIDE DEF Seen
    <2> QED BY <2>1, <2>2, FS_Subset, FS_CardinalityType
<1>5. IsFiniteSet(More) /\ Cardinality(More) = Cardinality(P)
    <2>1. /\ IsFiniteSet({k + 1}) /\ Cardinality({k + 1}) = 1
          /\ IsFiniteSet(P) /\ Cardinality(P) \in Nat
        BY IdFinite, FS_Singleton
    <2>2. /\ IsFiniteSet({k + 1} \X P)
          /\ Cardinality({k + 1} \X P) = Cardinality({k + 1}) * Cardinality(P)
        <3> HIDE DEF k
        <3> QED BY <2>1, FS_Product
    <2> QED BY <2>1, <2>2
<1>6. Cardinality(Seen \cup More) = Cardinality(Seen) + Cardinality(P)
    <2> HIDE DEF Seen, More
    <2>1. Cardinality(P) \in Nat
        BY IdFinite
    <2>2. Cardinality(Seen \cup More) = Cardinality(Seen) + Cardinality(More)
                                            - Cardinality(Seen \cap More)
        BY <1>4, <1>5, FS_Union
    <2>3. Cardinality(Seen \cap More) = 0
        BY <1>3, FS_EmptySet
    <2>4. Cardinality(More) = Cardinality(P)
        BY <1>5
    <2> QED BY <1>4, <2>1, <2>2, <2>3, <2>4
<1>7. Shown \in SUBSET Id
    BY ShownType
<1>8. Repeats' = Cardinality(Seen \cup More) - Cardinality(Shown')
    <2> HIDE DEF Seen, More
    <2>1. Repeats' = Cardinality({e \in (1..k + 1) \X Id :
                                     e[2] \in pages'[e[1]]})
                        - Cardinality(Shown')
        BY <1>1 DEF Repeats
    <2> QED BY <1>2, <2>1
<1>9. Repeats = Cardinality(Seen) - Cardinality(Shown)
    BY DEF Repeats
<1>10. /\ Cardinality(Shown') = Cardinality(Shown) + Cardinality(P)
                                    - Cardinality(Shown \cap P)
       /\ Cardinality(Shown) \in Nat /\ Cardinality(P) \in Nat
       /\ Cardinality(Shown \cap P) \in Nat
    BY <1>7, Counts
<1> HIDE DEF Seen, More
<1> QED BY <1>4, <1>6, <1>8, <1>9, <1>10

\* A client sees no row on two pages, except for one at most for each row that
\* came in meanwhile.
THEOREM RepeatsBounded == Spec => []NoRepeats
<1>1. Init => Repeating
    <2> SUFFICES ASSUME Init  PROVE Repeating
        OBVIOUS
    <2>1. pages = <<>> /\ entered = 0
        BY DEF Init
    <2>2. Shown = {}
        BY <2>1 DEF Shown
    <2>3. {e \in (1..Len(pages)) \X Id : e[2] \in pages[e[1]]} = {}
        BY <2>1
    <2>4. Shown \cap Unread = {}
        BY <2>2
    <2> QED BY <2>1, <2>2, <2>3, <2>4, FS_EmptySet DEF Repeating, Repeats
<1>2. TypeOK /\ Repeating /\ [Next]_vars => Repeating'
    <2> SUFFICES ASSUME TypeOK, Repeating, [Next]_vars  PROVE Repeating'
        OBVIOUS
    <2>0. /\ Shown \in SUBSET Id /\ Unread \in SUBSET Id
          /\ Shown \cap Unread \in SUBSET Id
          /\ entered \in Nat /\ pages \in Seq(SUBSET Id)
        <3>1. Shown \in SUBSET Id
            BY ShownType
        <3> QED BY <3>1 DEF TypeOK, Unread, Rest
    <2>6. Repeats \in Int
        BY RepeatsType
    <2>1. CASE Count
        BY <2>1 DEF Count, table, Repeating, Repeats, Shown, Unread, Reached
    <2>2. CASE Select
        <3>1. PICK P \in SUBSET listed :
                 /\ pages' = Append(pages, P) /\ Shown' = Shown \cup P
                 /\ Unread' \subseteq Unread /\ P = Unread \ Unread'
            BY <2>2, SelectMoves
        <3>2. P \in SUBSET Id /\ entered' = entered
            BY <2>2, SelectMoves DEF TypeOK, history
        <3>3. Repeats' = Repeats + Cardinality(Shown \cap P)
            BY <3>1, <3>2, RepeatsGrow
        <3>4. /\ Shown' \cap Unread' = (Shown \cap Unread) \ (Shown \cap P)
              /\ Shown \cap P \in SUBSET Id
              /\ (Shown \cap Unread) \cap (Shown \cap P) = Shown \cap P
            BY <2>0, <3>1, <3>2
        <3>5. Cardinality(Shown' \cap Unread') =
                 Cardinality(Shown \cap Unread) - Cardinality(Shown \cap P)
            BY <2>0, <3>4, Counts
        <3>6. /\ Cardinality(Shown \cap Unread) \in Nat
              /\ Cardinality(Shown \cap P) \in Nat
            BY <2>0, <3>4, IdFinite
        <3> QED BY <2>0, <2>6, <3>2, <3>3, <3>5, <3>6 DEF Repeating
    <2>3. ASSUME NEW x \in Id, Enter(x)  PROVE Repeating'
        <3>1. /\ Shown' = Shown /\ entered' = entered + 1 /\ pages' = pages
              /\ \E y : Unread' \subseteq Unread \cup {y}
            BY <2>3, EnterMoves DEF client
        <3>2. PICK y : Unread' \subseteq Unread \cup {y}
            BY <3>1
        <3>3. Repeats' = Repeats
            BY <3>1 DEF Repeats
        <3>4. /\ Shown' \cap Unread' \in SUBSET Id
              /\ Shown' \cap Unread' \subseteq (Shown \cap Unread) \cup {y}
            BY <2>0, <3>1, <3>2
        <3>5. /\ Cardinality(Shown' \cap Unread')
                    <= Cardinality(Shown \cap Unread) + 1
              /\ Cardinality(Shown' \cap Unread') \in Nat
              /\ Cardinality(Shown \cap Unread) \in Nat
            BY <2>0, <3>4, Counts
        <3> QED BY <2>0, <2>6, <3>1, <3>3, <3>5 DEF Repeating
    <2>4. ASSUME NEW x \in Id, Leave(x)  PROVE Repeating'
        <3>1. /\ Shown' = Shown /\ entered' = entered /\ pages' = pages
              /\ Unread' \subseteq Unread
            BY <2>4, LeaveMoves DEF client
        <3>2. Repeats' = Repeats
            BY <3>1 DEF Repeats
        <3>3. /\ Shown' \cap Unread' \in SUBSET Id
              /\ Shown' \cap Unread' \subseteq Shown \cap Unread
            BY <2>0, <3>1
        <3>4. /\ Cardinality(Shown' \cap Unread') <= Cardinality(Shown \cap Unread)
              /\ Cardinality(Shown' \cap Unread') \in Nat
              /\ Cardinality(Shown \cap Unread) \in Nat
            BY <2>0, <3>3, Counts
        <3> QED BY <2>0, <2>6, <3>1, <3>2, <3>4 DEF Repeating
    <2>5. CASE UNCHANGED vars
        BY <2>5 DEF vars, table, client, history, Repeating, Repeats, Shown,
                    Unread, Reached
    <2> QED BY <2>1, <2>2, <2>3, <2>4, <2>5 DEF Next
<1>3. TypeOK /\ Repeating => NoRepeats
    <2> SUFFICES ASSUME TypeOK, Repeating  PROVE NoRepeats
        OBVIOUS
    <2>1. /\ Cardinality(Shown \cap Unread) \in Nat /\ entered \in Nat
          /\ Cardinality(Shown) \in Nat
        <3>1. Shown \in SUBSET Id /\ Shown \cap Unread \in SUBSET Id
            BY ShownType
        <3> QED BY <3>1, IdFinite DEF TypeOK
    <2>2. Repeats \in Int
        BY RepeatsType
    <2> QED BY <2>1, <2>2 DEF Repeating, NoRepeats
<1> QED BY <1>1, <1>2, <1>3, TypeCorrect, PTL DEF Spec

(***************************************************************************)
(* Skipped rows                                                            *)
(***************************************************************************)

\* What the client has gone past without seeing it.
Skipped == (steady \ Shown) \ Unread

Skipping == Cardinality(Skipped) <= left

\* The count covers the list but for what came in since, and the walk ends when
\* the pages cover the count.
Covered ==
    /\ step = "select" => Cardinality(listed) <= total + late
    /\ step = "done" => Cardinality(listed) <= Reached + late

\* A client who follows has_next to its end has seen every row that was in the
\* list all the while, except for one at most for each row that dropped out and
\* for each that came in after the last count.
THEOREM SkipsBounded == Spec => []NothingSkipped
<1> DEFINE Inv == Skipping /\ Covered
<1>1. Init => Inv
    <2> SUFFICES ASSUME Init  PROVE Inv
        OBVIOUS
    <2>1. /\ listed \in SUBSET Id /\ steady = listed /\ created \in Times
          /\ pages = <<>> /\ left = 0 /\ step = "count"
        BY DEF Init, Times
    <2>2. Unread = listed
        <3>1. Reached = 0
            BY <2>1, PageSizeAssumption DEF Reached
        <3>2. ASSUME NEW i \in listed  PROVE Rank(listed, created, i) >= 0
            <4>1. Ahead(listed, created, i) \in SUBSET Id
                BY <2>1 DEF Ahead
            <4> QED BY <4>1, IdFinite DEF Rank
        <3> QED BY <3>1, <3>2 DEF Unread, Rest
    <2>3. Skipped = {}
        BY <2>1, <2>2 DEF Skipped
    <2> QED BY <2>1, <2>3, FS_EmptySet DEF Skipping, Covered
<1>2. TypeOK /\ Inv /\ [Next]_vars => Inv'
    <2> SUFFICES ASSUME TypeOK, Inv, [Next]_vars  PROVE Inv'
        OBVIOUS
    <2>0. /\ Skipped \in SUBSET Id /\ steady \subseteq listed
          /\ Cardinality(listed) \in Nat /\ Cardinality(Skipped) \in Nat
          /\ left \in Nat /\ late \in Nat /\ total \in Nat
          /\ Reached \in Nat
        <3>1. Skipped \in SUBSET Id /\ listed \in SUBSET Id
            BY DEF TypeOK, Skipped
        <3>2. Reached \in Nat
            BY Distribute DEF TypeOK, Reached
        <3> QED BY <3>1, <3>2, IdFinite, BoundsAssumption DEF TypeOK
    <2>1. CASE Count
        BY <2>0, <2>1 DEF Count, table, Skipping, Covered, Skipped, Shown,
                          Unread, Reached
    <2>2. CASE Select
        <3>1. PICK P \in SUBSET listed :
                 /\ pages' = Append(pages, P) /\ Shown' = Shown \cup P
                 /\ Unread' \subseteq Unread /\ P = Unread \ Unread'
            BY <2>2, SelectMoves
        <3>2. /\ Reached' = Reached + PageSize /\ step = "select"
              /\ step' = IF Reached' < total THEN "count" ELSE "done"
              /\ listed' = listed /\ total' = total
              /\ steady' = steady /\ left' = left /\ late' = late
            BY <2>2, SelectMoves DEF table, history
        <3>3. Skipped' \subseteq Skipped
            BY <3>1, <3>2 DEF Skipped
        <3>4. /\ Cardinality(Skipped') <= Cardinality(Skipped)
              /\ Cardinality(Skipped') \in Nat
            <4>1. Skipped' \in SUBSET Id
                BY <2>0, <3>3
            <4> QED BY <2>0, <3>3, <4>1, Counts
        <3>5. Skipping'
            BY <2>0, <3>2, <3>4 DEF Skipping
        <3>6. Covered'
            BY <2>0, <3>2, PageSizeAssumption DEF Covered
        <3> QED BY <3>5, <3>6
    <2>3. ASSUME NEW x \in Id, Enter(x)  PROVE Inv'
        <3>1. /\ Shown' = Shown /\ Unread \subseteq Unread' /\ left' = left
              /\ step' = step /\ total' = total /\ step # "done"
              /\ steady' = steady /\ late' = late + 1
              /\ Cardinality(listed') = Cardinality(listed) + 1
            BY <2>3, EnterMoves DEF client
        <3>2. Skipped' \subseteq Skipped
            BY <3>1 DEF Skipped
        <3>3. /\ Cardinality(Skipped') <= Cardinality(Skipped)
              /\ Cardinality(Skipped') \in Nat
            <4>1. Skipped' \in SUBSET Id
                BY <2>0, <3>2
            <4> QED BY <2>0, <3>2, <4>1, Counts
        <3> QED BY <2>0, <3>1, <3>3 DEF Skipping, Covered
    <2>4. ASSUME NEW x \in Id, Leave(x)  PROVE Inv'
        <3>1. /\ Shown' = Shown /\ left' = left + 1 /\ late' = late
              /\ step' = step /\ total' = total /\ step # "done"
              /\ steady' = steady \ {x}
              /\ Cardinality(listed') = Cardinality(listed) - 1
              /\ \E y : Unread \subseteq Unread' \cup {y}
            BY <2>4, LeaveMoves DEF client
        <3>2. PICK y : Unread \subseteq Unread' \cup {y}
            BY <3>1
        <3>3. Skipped' \subseteq Skipped \cup {y}
            BY <3>1, <3>2 DEF Skipped
        <3>4. /\ Cardinality(Skipped') <= Cardinality(Skipped) + 1
              /\ Cardinality(Skipped') \in Nat
            <4>1. Skipped' \in SUBSET Id
                BY <2>0, <3>1 DEF Skipped, TypeOK
            <4> QED BY <2>0, <3>3, <4>1, Counts
        <3>5. Skipping'
            BY <2>0, <3>1, <3>4 DEF Skipping
        <3> QED BY <2>0, <3>1, <3>5 DEF Covered
    <2>5. CASE UNCHANGED vars
        BY <2>5 DEF vars, table, client, history, Skipping, Covered, Skipped,
                    Shown, Unread, Reached
    <2> QED BY <2>1, <2>2, <2>3, <2>4, <2>5 DEF Next
<1>3. TypeOK /\ Inv => NothingSkipped
    <2> SUFFICES ASSUME TypeOK, Inv, step = "done"
                 PROVE  Cardinality(steady \ Shown) <= left + late
        BY DEF NothingSkipped
    <2>1. /\ listed \in SUBSET Id /\ created \in Times /\ Reached \in Nat
          /\ left \in Nat /\ late \in Nat /\ Cardinality(listed) \in Nat
        <3>1. Reached \in Nat
            BY Distribute DEF TypeOK, Reached
        <3>2. listed \in SUBSET Id /\ left \in Nat /\ late \in Nat
            BY DEF TypeOK
        <3> QED BY <3>1, <3>2, IdFinite DEF TypeOK, Times
    <2>2. Cardinality(Unread) <= late
        <3>1. Cardinality(listed) <= Reached + late
            BY DEF Covered
        <3>2. Cardinality(Unread) = IF Reached <= Cardinality(listed)
                                    THEN Cardinality(listed) - Reached ELSE 0
            BY <2>1, RestCount DEF Unread
        <3> QED BY <2>1, <3>1, <3>2
    <2>3. /\ steady \ Shown \in SUBSET Id /\ Unread \in SUBSET Id
          /\ (steady \ Shown) \cap Unread \in SUBSET Id
          /\ (steady \ Shown) \cap Unread \subseteq Unread
        BY <2>1 DEF TypeOK, Unread, Rest
    <2>4. /\ Cardinality(Skipped) = Cardinality(steady \ Shown)
                                    - Cardinality((steady \ Shown) \cap Unread)
          /\ Cardinality((steady \ Shown) \cap Unread) <= Cardinality(Unread)
          /\ Cardinality((steady \ Shown) \cap Unread) \in Nat
          /\ Cardinality(steady \ Shown) \in Nat /\ Cardinality(Unread) \in Nat
        BY <2>3, Counts DEF Skipped
    <2> QED BY <2>1, <2>2, <2>4 DEF Skipping
<1> QED BY <1>1, <1>2, <1>3, TypeCorrect, PTL DEF Spec

=============================================================================
