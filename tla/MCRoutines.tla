----------------------------- MODULE MCRoutines -----------------------------
(* Page tables: two entries a table and one table a level, with entries that *)
(* are absent, lead to a table, have a flag above bit 51 or name a large     *)
(* page, and every top table that edits of its two slots reach.              *)
EXTENDS Routines, TLC

T4 == {12}
T3 == {13}
T2 == {14}
T1 == {15}
Data == {16}          \* a page of data
LargeData == {30}     \* a page of 1 GiB, or of 2 MiB
High == {17, 33}      \* a page above 4 GiB

NX == 63
To(table) == table \union {0, 1}

MCCr3 == T4 \union {3}
MCEntries == {To(T3), To(T3) \union {NX}, T3}
MCJunk == {{}, {0, 60}}

Pair(first, second) == 0 :> first @@ 1 :> second

MCMemories ==
    {T4 :> Pair(To(T3), {}) @@ T3 :> Pair(To(T2), e3) @@ T2 :> Pair(e2, To(T1))
        @@ T1 :> Pair(To(Data), e1) :
        e3 \in {{}, To(T2), To(T2) \union {NX}, To(LargeData) \union {7}},
        e2 \in {{}, To(T1), To(LargeData) \union {7}},
        e1 \in {{}, To(High) \union {NX}}}

MCAddresses == {a \union {0} : a \in SUBSET {12, 21, 30, 39}}

\* Numbers: where the digits become more, and where the binary buffer ends.
MCUnsigned == {0, 1, 9, 10, 171, 256, 2 ^ 20 - 1, 2 ^ 20, 2 ^ 30}
MCSigned == {-7, 0, 2, 33, 2 ^ 30}
MCTexts == {<<65, 10>>}

MCFills == {-1, 2}
=============================================================================
