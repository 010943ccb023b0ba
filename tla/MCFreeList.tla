----------------------------- MODULE MCFreeList -----------------------------
(* Small machines for FreeList: addresses below 512, a word of 10 bits. *)
EXTENDS FreeList

Usable(b, l) == [base |-> b, length |-> l, usable |-> TRUE]
Reserved(b, l) == [base |-> b, length |-> l, usable |-> FALSE]

OneRegion == <<Reserved(0, 64), Usable(64, 128)>>

\* Three regions, two of them adjacent and one behind a hole.
ThreeRegions == <<Usable(64, 96), Usable(160, 64), Reserved(224, 64), Usable(288, 80)>>

\* Maps InitialiseHeaders cannot take in.
NoRegion == <<Reserved(0, 256)>>
TooManyRegions == [i \in 1..4 |-> Usable(64 * i, 32)]

MCMaps == {OneRegion, ThreeRegions, NoRegion, TooManyRegions}

\* For the runs with stacks: two regions and a hole, and one region.
MCStackMaps ==
    {<<Reserved(0, 32), Usable(32, 96)>>, <<Usable(64, 48), Reserved(112, 32), Usable(144, 48)>>}
=============================================================================
