---------------------------- MODULE MCPageFrames ----------------------------
(* Every memory map of up to four entries of no, one or two pages of two    *)
(* bytes, usable or not, each behind the one before or one page above it.   *)
EXTENDS PageFrames

MCPageSize == 2
MCMaxEntries == 4

Shapes == [usable : BOOLEAN, gap : 0..1, pages : 0..2]

\* The base of entry n, counted from page 1.
BaseOf(shape, n) ==
    MCPageSize * (1 + MapThenSumSet(LAMBDA i : shape[i].gap, 1..n)
                    + MapThenSumSet(LAMBDA i : shape[i].pages, 1..n - 1))

MapOf(shape) ==
    [n \in DOMAIN shape |->
        [usable |-> shape[n].usable, base |-> BaseOf(shape, n),
         length |-> MCPageSize * shape[n].pages]]

MCMaps == {MapOf(shape) : shape \in UNION {[1..n -> Shapes] : n \in 0..MCMaxEntries}}
=============================================================================
