----------------------------- MODULE Pagination -----------------------------
(***************************************************************************)
(* Paging of GET /users: pkg/pagination/pagination.go and the page count   *)
(* that pkg/response sends.  Go's int is Width bits wide.                  *)
(***************************************************************************)
EXTENDS Integers, FiniteSets

DefaultPage == 1
DefaultSize == 3
MaxSize == 5

Wrap(n, width) == ((n + 2 ^ (width - 1)) % 2 ^ width) - 2 ^ (width - 1)

PageNum(page) == IF page < 1 THEN DefaultPage ELSE page
PageSize(size) == IF size < 1 THEN DefaultSize ELSE IF size > MaxSize THEN MaxSize ELSE size
Offset(page, size, width) == Wrap((PageNum(page) - 1) * PageSize(size), width)

\* NewResult: the ceiling of total by size.
TotalPages(total, size) ==
    IF \E n \in 0 .. total : n * PageSize(size) >= total
    THEN CHOOSE n \in 0 .. total :
            n * PageSize(size) >= total /\ \A m \in 0 .. n - 1 : m * PageSize(size) < total
    ELSE 0

\* response.Paginated: the same count by integer division.
Paginated(total, size) == (total + PageSize(size) - 1) \div PageSize(size)

\* Scope: the rows, by their place in the order, that LIMIT and OFFSET select.
Rows(page, size, total, width) ==
    LET first == Offset(page, size, width)
    IN  {r \in 0 .. total - 1 : first <= r /\ r < first + PageSize(size)}

\* Whatever size a client asks for, the pages 1 .. TotalPages partition the
\* rows, none of them is empty, the next one is, and the two places that count
\* pages agree.  Bounded inputs, a width that no offset among them exceeds.
ASSUME PagesPartitionTheRows ==
    \A size \in -1 .. MaxSize + 2, total \in 0 .. 12 :
        LET pages == 1 .. TotalPages(total, size)
        IN  /\ UNION {Rows(p, size, total, 16) : p \in pages} = 0 .. total - 1
            /\ \A p, q \in pages : p # q => Rows(p, size, total, 16) \cap Rows(q, size, total, 16) = {}
            /\ \A p \in pages : Rows(p, size, total, 16) # {}
            /\ Rows(TotalPages(total, size) + 1, size, total, 16) = {}
            /\ Paginated(total, size) = TotalPages(total, size)
=============================================================================
