-------------------------- MODULE QueueTableProofs --------------------------
(***************************************************************************)
(* Theorems about QueueTable, for every size of the table and every set of *)
(* keys.                                                                   *)
(***************************************************************************)
EXTENDS QueueTable, SumProofs, TLAPS

-----------------------------------------------------------------------------
(* The table is closed under its own links. *)

LEMMA SlotsLemma ==
    /\ NPROC \in Nat /\ NPROC > 0 /\ MaxKey \in Nat /\ MaxKey > 0
    /\ none \in Slots /\ 0 \in Slots
    /\ Pids \subseteq Slots
    /\ \A q \in Queues : head(q) \in Slots /\ tail(q) \in Slots
    /\ Keys \subseteq 0..MaxKey
  BY TableAssumption DEF none, Slots, Pids, Queues, head, tail

\* Replacing one link of one node keeps the array an array of nodes.
LEMMA LinkLemma ==
    ASSUME NEW b \in [Slots -> Node], NEW s \in Slots, NEW t \in Slots
    PROVE  /\ [b EXCEPT ![s].next = t] \in [Slots -> Node]
           /\ [b EXCEPT ![s].prev = t] \in [Slots -> Node]
           /\ b[s].next \in Slots /\ b[s].prev \in Slots
  BY DEF Node

LEMMA IdleLemma ==
    idle \in [proc : Pids \union {none}, queue : Queues \union {none},
             key : 0..MaxKey, curr : Slots]
  BY SlotsLemma DEF idle

LEMMA InitTypeOK == Init => TypeOK
<1> SUFFICES ASSUME Init PROVE TypeOK
  OBVIOUS
<1>1. [key |-> 0, next |-> 0, prev |-> 0] \in Node
  BY SlotsLemma DEF Node
<1>2. buf \in [Slots -> Node]
  BY <1>1 DEF Init
<1>3. nextqid = NPROC /\ overrun = FALSE /\ NPROC # NPROC + 6
  BY SlotsLemma DEF Init
<1> QED
  BY <1>2, <1>3, IdleLemma DEF Init, TypeOK

LEMMA newQueueTypeOK ==
    ASSUME TypeOK, newQueue
    PROVE  TypeOK'
<1>1. CASE nextqid \in Queues
  <2>1. head(nextqid) \in Slots /\ tail(nextqid) \in Slots /\ none \in Slots
    BY <1>1, SlotsLemma
  <2>2. [key |-> MaxKey, next |-> none, prev |-> head(nextqid)] \in Node
    BY <2>1, SlotsLemma DEF Node
  <2>3. buf' \in [Slots -> Node]
    <3> DEFINE b1 == [buf EXCEPT ![head(nextqid)].next = tail(nextqid)]
               b2 == [b1 EXCEPT ![head(nextqid)].prev = none]
               b3 == [b2 EXCEPT ![tail(nextqid)] =
                        [key |-> MaxKey, next |-> none, prev |-> head(nextqid)]]
    <3>1. buf' = b3
      BY <1>1 DEF newQueue
    <3>2. b1 \in [Slots -> Node]
      BY <2>1, LinkLemma DEF TypeOK
    <3> HIDE DEF b1
    <3>3. b2 \in [Slots -> Node]
      BY <2>1, <3>2, LinkLemma
    <3> HIDE DEF b2
    <3> QED
      BY <2>1, <2>2, <3>1, <3>3
  <2> QED
    BY <1>1, <2>3, SlotsLemma DEF newQueue, TypeOK, Queues, Called
<1>2. CASE nextqid \notin Queues
  <2>1. nextqid = NPROC + 4
    BY <1>2, SlotsLemma DEF newQueue, TypeOK, Queues, Called
  <2>2. nextqid' = NPROC + 6
    BY <2>1, SlotsLemma DEF newQueue
  <2>3. overrun' = (nextqid' = NPROC + 6)
    BY <1>2, <2>2 DEF newQueue
  <2>4. buf' = buf /\ walk' = walk /\ where' = where /\ spoiled' = spoiled
       /\ wrongEnd' = wrongEnd
    BY <1>2 DEF newQueue
  <2> QED
    BY <2>2, <2>3, <2>4 DEF TypeOK
<1> QED
  BY <1>1, <1>2

LEMMA pushQueueTypeOK ==
    ASSUME TypeOK, NEW q \in Created, NEW p \in Pids, pushQueue(q, p)
    PROVE  TypeOK'
<1> DEFINE b1 == [buf EXCEPT ![lastPid(q)].next = p]
           b2 == [b1 EXCEPT ![p].prev = lastPid(q)]
           b3 == [b2 EXCEPT ![p].next = tail(q)]
           b4 == [b3 EXCEPT ![tail(q)].prev = p]
<1>1. q \in Queues /\ tail(q) \in Slots /\ p \in Slots
  BY SlotsLemma DEF Created
<1>2. buf \in [Slots -> Node] /\ lastPid(q) \in Slots
  BY <1>1, LinkLemma DEF TypeOK, lastPid
<1>3. buf' = b4
  BY DEF pushQueue
<1>4. b1 \in [Slots -> Node]
  BY <1>1, <1>2, LinkLemma
<1> HIDE DEF b1
<1>5. b2 \in [Slots -> Node]
  BY <1>1, <1>2, <1>4, LinkLemma
<1> HIDE DEF b2
<1>6. b3 \in [Slots -> Node]
  BY <1>1, <1>5, LinkLemma
<1> HIDE DEF b3
<1>7. b4 \in [Slots -> Node]
  BY <1>1, <1>6, LinkLemma
<1> QED
  BY <1>1, <1>3, <1>7 DEF pushQueue, TypeOK

\* Forgetting where a returned process was keeps the type of where.
LEMMA ReturnedLemma ==
    ASSUME TypeOK, NEW slot, Returned(slot)
    PROVE  where' \in [Pids -> Queues \union {none}]
  BY DEF Returned, TypeOK

LEMMA popQueueTypeOK ==
    ASSUME TypeOK, NEW q \in Created, popQueue(q)
    PROVE  TypeOK'
<1>1. CASE isEmpty(q)
  BY <1>1 DEF popQueue, TypeOK
<1>2. CASE ~isEmpty(q)
  <2> DEFINE evicted == firstPid(q)
             b1 == [buf EXCEPT ![head(q)].next = buf[evicted].next]
             b2 == [b1 EXCEPT ![b1[evicted].next].prev = head(q)]
             b3 == [b2 EXCEPT ![evicted].next = none]
             b4 == [b3 EXCEPT ![evicted].prev = none]
  <2>1. head(q) \in Slots /\ none \in Slots
    BY SlotsLemma DEF Created
  <2>2. buf \in [Slots -> Node] /\ evicted \in Slots
    BY <2>1, LinkLemma DEF TypeOK, firstPid
  <2>3. buf' = b4 /\ Returned(evicted)
    BY <1>2 DEF popQueue
  <2> HIDE DEF evicted
  <2>4. b1 \in [Slots -> Node]
    BY <2>1, <2>2, LinkLemma
  <2> HIDE DEF b1
  <2>5. b2 \in [Slots -> Node]
    BY <2>1, <2>2, <2>4, LinkLemma
  <2> HIDE DEF b2
  <2>6. b3 \in [Slots -> Node]
    BY <2>1, <2>2, <2>5, LinkLemma
  <2> HIDE DEF b3
  <2>7. b4 \in [Slots -> Node]
    BY <2>1, <2>2, <2>6, LinkLemma
  <2>8. where' \in [Pids -> Queues \union {none}]
    BY <2>3, ReturnedLemma
  <2> QED
    BY <2>3, <2>7, <2>8 DEF popQueue, TypeOK
<1> QED
  BY <1>1, <1>2

LEMMA popFirstTypeOK ==
    ASSUME TypeOK, NEW q \in Created, popFirst(q) \/ popLast(q)
    PROVE  TypeOK'
<1>0. takeFirst(q) /\ wrongEnd' \in BOOLEAN
  BY DEF popFirst, popLast, TypeOK
<1>1. CASE isEmpty(q)
  BY <1>0, <1>1 DEF takeFirst, TypeOK
<1>2. CASE ~isEmpty(q)
  <2>1. head(q) \in Slots
    BY SlotsLemma DEF Created
  <2>2. buf \in [Slots -> Node] /\ firstPid(q) \in Slots
    BY <2>1, LinkLemma DEF TypeOK, firstPid
  <2>3. buf' = [buf EXCEPT ![head(q)].next = buf[firstPid(q)].next]
    BY <1>0, <1>2 DEF takeFirst
  <2>4. buf' \in [Slots -> Node]
    BY <2>1, <2>2, <2>3, LinkLemma
  <2>5. where' \in [Pids -> Queues \union {none}]
    BY <1>0, <1>2, ReturnedLemma DEF takeFirst
  <2>6. spoiled' \in BOOLEAN
    BY <1>0, <1>2 DEF takeFirst, TypeOK
  <2> QED
    BY <1>0, <2>4, <2>5, <2>6 DEF takeFirst, TypeOK
<1> QED
  BY <1>1, <1>2

LEMMA insertBeginTypeOK ==
    ASSUME TypeOK, NEW q \in Created, NEW p \in Pids, NEW k \in Keys,
           insertBegin(q, p, k)
    PROVE  TypeOK'
<1>1. q \in Queues /\ head(q) \in Slots /\ k \in 0..MaxKey
  BY SlotsLemma DEF Created
<1>2. walk' \in [proc : Pids \union {none}, queue : Queues \union {none},
                 key : 0..MaxKey, curr : Slots]
  BY <1>1 DEF insertBegin
<1> QED
  BY <1>2 DEF insertBegin, TypeOK

LEMMA insertStepTypeOK ==
    ASSUME TypeOK, insertStep
    PROVE  TypeOK'
<1>1. buf[walk.curr].next \in Slots
  BY LinkLemma DEF TypeOK
<1>2. walk' \in [proc : Pids \union {none}, queue : Queues \union {none},
                 key : 0..MaxKey, curr : Slots]
  BY <1>1 DEF insertStep, TypeOK
<1> QED
  BY <1>2 DEF insertStep, TypeOK

LEMMA insertEndTypeOK ==
    ASSUME TypeOK, insertEnd
    PROVE  TypeOK'
<1> DEFINE p == walk.proc
           curr == walk.curr
           prev == buf[curr].prev
           b1 == [buf EXCEPT ![prev].next = p]
           b2 == [b1 EXCEPT ![p].prev = prev]
           b3 == [b2 EXCEPT ![p].next = curr]
           b4 == [b3 EXCEPT ![curr].prev = p]
<1>1. /\ buf \in [Slots -> Node] /\ curr \in Slots
      /\ p \in Pids \union {none} /\ p \in Slots
      /\ walk.queue \in Queues \union {none}
  BY SlotsLemma DEF TypeOK
<1>2. prev \in Slots
  BY <1>1, LinkLemma
<1>3. buf' = b4
  BY DEF insertEnd
<1> HIDE DEF p, curr, prev
<1>4. b1 \in [Slots -> Node]
  BY <1>1, <1>2, LinkLemma
<1> HIDE DEF b1
<1>5. b2 \in [Slots -> Node]
  BY <1>1, <1>2, <1>4, LinkLemma
<1> HIDE DEF b2
<1>6. b3 \in [Slots -> Node]
  BY <1>1, <1>5, LinkLemma
<1> HIDE DEF b3
<1>7. b4 \in [Slots -> Node]
  BY <1>1, <1>6, LinkLemma
<1>8. walk' \in [proc : Pids \union {none}, queue : Queues \union {none},
                 key : 0..MaxKey, curr : Slots]
  BY IdleLemma DEF insertEnd
<1>9. where' \in [Pids -> Queues \union {none}]
  BY <1>1 DEF insertEnd, TypeOK
<1> QED
  BY <1>3, <1>7, <1>8, <1>9 DEF insertEnd, TypeOK

-----------------------------------------------------------------------------
LEMMA StepTypeOK ==
    ASSUME TypeOK, [Next]_vars
    PROVE  TypeOK'
<1>1. CASE newQueue
  BY <1>1, newQueueTypeOK
<1>2. ASSUME NEW q \in Created,
             popQueue(q) \/ popFirst(q) \/ popLast(q) \/ \E p \in Pids :
                 pushQueue(q, p) \/ \E k \in Keys : insertBegin(q, p, k)
      PROVE  TypeOK'
  <2>1. CASE popQueue(q)
    BY <2>1, popQueueTypeOK
  <2>2. CASE popFirst(q) \/ popLast(q)
    BY <2>2, popFirstTypeOK
  <2>3. ASSUME NEW p \in Pids, pushQueue(q, p)
        PROVE  TypeOK'
    BY <2>3, pushQueueTypeOK
  <2>4. ASSUME NEW p \in Pids, NEW k \in Keys, insertBegin(q, p, k)
        PROVE  TypeOK'
    BY <2>4, insertBeginTypeOK
  <2> QED
    BY <1>2, <2>1, <2>2, <2>3, <2>4
<1>3. CASE insertStep
  BY <1>3, insertStepTypeOK
<1>4. CASE insertEnd
  BY <1>4, insertEndTypeOK
<1>5. CASE UNCHANGED vars
  BY <1>5 DEF vars, TypeOK, Node
<1> QED
  BY <1>1, <1>2, <1>3, <1>4, <1>5 DEF Next

\* No sequence of legal calls follows or writes a link outside the slots -1 to
\* NPROC+3 (queuetable.cpp:27-80): the slot before the array is the worst that
\* the untested -1 leads to, for a table of any size and any keys.
THEOREM LinksStayInObject == Spec => []TypeOK
<1>1. TypeOK /\ [Next]_vars => TypeOK'
  BY StepTypeOK
<1> QED
  BY InitTypeOK, <1>1, PTL DEF Spec

-----------------------------------------------------------------------------
(* The queues as sequences. *)

\* The i-th slot of a queue that holds the processes s: its head, them, its tail.
At(q, s, i) == IF i = 0 THEN head(q) ELSE IF i = Len(s) + 1 THEN tail(q) ELSE s[i]

Chain(b, q, s) ==
    /\ \A i \in 0..Len(s) : b[At(q, s, i)].next = At(q, s, i + 1)
    /\ b[tail(q)].prev = At(q, s, Len(s)) /\ b[tail(q)].next = none

On(qs, p) == \E q \in DOMAIN qs : \E i \in 1..Len(qs[q]) : qs[q][i] = p

\* The table b holds the queues qs, none with a process the callers have on no queue.
\* The link before a head leads to a process that insert put there: callers think it is
\* on a queue, but it is on none.
Linked(b, w, qs) ==
    /\ \A q \in DOMAIN qs : Chain(b, q, qs[q])
    /\ \A q, r \in DOMAIN qs : \A i \in 1..Len(qs[q]), j \in 1..Len(qs[r]) :
         qs[q][i] = qs[r][j] => q = r /\ i = j
    /\ \A q \in DOMAIN qs : \A i \in 1..Len(qs[q]) : w[qs[q][i]] # none
    /\ \A q \in DOMAIN qs : LET lost == b[head(q)].prev IN
         lost # none => lost \in Pids /\ w[lost] # none /\ ~On(qs, lost)

\* Only tails have a key.
KeysKept ==
    /\ \A s \in Pids \union {none} : buf[s].key = 0
    /\ \A q \in Created : buf[tail(q)].key = MaxKey

\* A walk with a key above 0 stays at the head, or goes to the tail of an empty queue.
WalkKept ==
    walk # idle =>
        /\ ~overrun /\ walk.queue \in Created /\ walk.proc \in Pids /\ where[walk.proc] = none
        /\ walk.key > 0 /\ ~spoiled =>
             \/ walk.curr = head(walk.queue)
             \/ walk.curr = tail(walk.queue) /\ isEmpty(walk.queue)

QueueInv ==
    /\ TypeOK /\ KeysKept /\ WalkKept
    /\ ~spoiled => \E qs \in [Created -> Seq(Pids)] : Linked(buf, where, qs)

-----------------------------------------------------------------------------
(* The content of a queue, by following its links. *)

Follows(b, s, n, r) == r = [k \in 0..n |-> IF k = 0 THEN s ELSE b[r[k-1]].next]
ReachedOn(b, s) == CHOOSE r : Follows(b, s, NPROC + 1, r)
LengthsOn(b, q) == {n \in 0 .. NPROC : ReachedOn(b, head(q))[n+1] = tail(q)}
ContentsOn(b, q) == [i \in 1 .. Min(LengthsOn(b, q)) |-> ReachedOn(b, head(q))[i]]

LEMMA ContentsNow ==
    ASSUME NEW q
    PROVE  /\ Lengths(q) = LengthsOn(buf, q) /\ Contents(q) = ContentsOn(buf, q)
           /\ Contents(q)' = ContentsOn(buf', q)
BY Zenon DEF Lengths, LengthsOn, Contents, ContentsOn, Reached, ReachedOn, Follows, head, tail

LEMMA CanFollow ==
    ASSUME NEW b, NEW s, NEW n \in Nat
    PROVE  \E r : Follows(b, s, n, r)
<1> DEFINE T == {k \in Nat : \E r : Follows(b, s, k, r)}
<1>1. 0 \in T
  <2> DEFINE r == [k \in 0..0 |-> s]
  <2>1. r = [k \in 0..0 |-> IF k = 0 THEN s ELSE b[r[k-1]].next]
    OBVIOUS
  <2> QED
    BY <2>1 DEF Follows
<1>2. ASSUME NEW m \in Nat, m \in T PROVE m + 1 \in T
  <2>1. PICK r : Follows(b, s, m, r)
    BY <1>2
  <2> DEFINE g == [k \in 0..m + 1 |-> IF k = m + 1 THEN b[r[m]].next ELSE r[k]]
  <2>2. \A k \in 0..m : r[k] = IF k = 0 THEN s ELSE b[r[k-1]].next
    BY <2>1, Zenon DEF Follows
  <2>3. g[m + 1] = b[r[m]].next /\ \A k \in 0..m : g[k] = r[k]
    OBVIOUS
  <2>4. \A k \in 0..m + 1 : g[k] = IF k = 0 THEN s ELSE b[g[k-1]].next
    <3> HIDE DEF g
    <3> SUFFICES ASSUME NEW k \in 0..m + 1 PROVE g[k] = IF k = 0 THEN s ELSE b[g[k-1]].next
      OBVIOUS
    <3>1. CASE k = m + 1
      <4>1. k # 0 /\ k - 1 = m /\ m \in 0..m
        BY <3>1
      <4> QED
        BY <2>3, <3>1, <4>1
    <3>2. CASE k # m + 1
      <4>1. k \in 0..m /\ (k # 0 => k - 1 \in 0..m)
        BY <3>2
      <4> QED
        BY <2>2, <2>3, <4>1
    <3> QED
      BY <3>1, <3>2
  <2>5. g = [k \in 0..m + 1 |-> g[k]]
    OBVIOUS
  <2> HIDE DEF g
  <2>6. g = [k \in 0..m + 1 |-> IF k = 0 THEN s ELSE b[g[k-1]].next]
    BY <2>4, <2>5, Zenon
  <2>7. Follows(b, s, m + 1, g)
    BY <2>6, Zenon DEF Follows
  <2> QED
    BY <2>7
<1> HIDE DEF T
<1>3. n \in T
  BY <1>1, <1>2, SetInduction
<1> QED
  BY <1>3 DEF T

LEMMA ReachedLinks ==
    ASSUME NEW b, NEW s
    PROVE  /\ ReachedOn(b, s)[0] = s
           /\ \A k \in 1..NPROC + 1 : ReachedOn(b, s)[k] = b[ReachedOn(b, s)[k-1]].next
<1> DEFINE r == ReachedOn(b, s)
<1>1. NPROC + 1 \in Nat /\ NPROC \in Nat
  BY SlotsLemma
<1>2. Follows(b, s, NPROC + 1, r)
  BY <1>1, CanFollow, Zenon DEF ReachedOn
<1> HIDE DEF r
<1>3. \A k \in 0..NPROC + 1 : r[k] = IF k = 0 THEN s ELSE b[r[k-1]].next
  BY <1>2, Zenon DEF Follows
<1>4. 0 \in 0..NPROC + 1 /\ \A k \in 1..NPROC + 1 : k \in 0..NPROC + 1 /\ k # 0
  BY <1>1
<1>5. r[0] = s /\ \A k \in 1..NPROC + 1 : r[k] = b[r[k-1]].next
  BY <1>3, <1>4
<1> QED
  BY <1>5 DEF r

\* What is found by following the links is what the queue holds.
LEMMA LinkedContents ==
    ASSUME NEW b, NEW q \in Queues, NEW s \in Seq(Pids), Chain(b, q, s),
           \A i, j \in 1..Len(s) : s[i] = s[j] => i = j
    PROVE  LengthsOn(b, q) # {} /\ ContentsOn(b, q) = s
<1> DEFINE n == Len(s)
           r == ReachedOn(b, head(q))
<1>1. n \in Nat /\ s \in [1..n -> Pids] /\ NPROC \in Nat
  BY SlotsLemma
<1>2. n <= NPROC
  <2>1. s \in Injection(1..n, Pids)
    BY <1>1 DEF Injection, IsInjective
  <2>2. IsFiniteSet(Pids) /\ Cardinality(Pids) = NPROC
    BY SlotsLemma, FS_Interval DEF Pids
  <2>3. Cardinality(1..n) = n
    BY <1>1, FS_Interval, SMTT(60)
  <2>4. Cardinality(1..n) <= Cardinality(Pids)
    BY <2>1, <2>2, FS_Injection
  <2> QED
    BY <2>2, <2>3, <2>4
<1>3. r[0] = head(q) /\ \A k \in 1..NPROC + 1 : r[k] = b[r[k-1]].next
  BY ReachedLinks
<1> HIDE DEF r, n
<1>4. /\ At(q, s, 0) = head(q) /\ At(q, s, n + 1) = tail(q)
      /\ \A i \in 1..n : At(q, s, i) = s[i]
      /\ \A i \in 0..n : b[At(q, s, i)].next = At(q, s, i + 1)
  <2>1. n + 1 # 0 /\ \A i \in 1..n : i # 0 /\ i # n + 1
    BY <1>1
  <2> QED
    BY <2>1 DEF At, Chain, n
<1>5. \A i \in 0..n + 1 : r[i] = At(q, s, i)
  <2> DEFINE T == {i \in Nat : i <= n + 1 => r[i] = At(q, s, i)}
  <2>1. 0 \in T
    BY <1>3, <1>4
  <2>2. ASSUME NEW i \in Nat, i \in T PROVE i + 1 \in T
    <3> SUFFICES ASSUME i + 1 <= n + 1 PROVE r[i + 1] = At(q, s, i + 1)
      OBVIOUS
    <3>1. i \in 0..n /\ i + 1 \in 1..NPROC + 1 /\ (i + 1) - 1 = i
      BY <1>1, <1>2
    <3>2. r[i] = At(q, s, i)
      BY <1>1, <2>2, <3>1
    <3> QED
      BY <1>3, <1>4, <3>1, <3>2
  <2> HIDE DEF T
  <2>3. Nat \subseteq T
    BY <2>1, <2>2, SetInduction
  <2> QED
    BY <1>1, <2>3 DEF T
<1> DEFINE L == LengthsOn(b, q)
<1>6. L = {k \in 0..NPROC : r[k + 1] = tail(q)}
  BY DEF LengthsOn, r
<1> HIDE DEF L
<1>7. n \in L
  <2>1. n \in 0..NPROC /\ n + 1 \in 0..n + 1
    BY <1>1, <1>2
  <2> QED
    BY <1>4, <1>5, <1>6, <2>1
<1>8. \A k \in L : n <= k
  <2> SUFFICES ASSUME NEW k \in L, ~(n <= k) PROVE FALSE
    OBVIOUS
  <2>1. k + 1 \in 1..n /\ k + 1 \in 0..n + 1
    BY <1>1, <1>6
  <2>2. tail(q) = s[k + 1]
    BY <1>4, <1>5, <1>6, <2>1
  <2>3. s[k + 1] \in Pids
    BY <1>1, <2>1
  <2> QED
    BY <1>1, <2>2, <2>3 DEF Pids, Queues, tail
<1>9. Min(L) = n
  <2>1. L \in SUBSET Nat /\ L # {}
    <3>1. L \subseteq 0..NPROC
      BY <1>6, Zenon
    <3> QED
      BY <1>1, <1>7, <3>1
  <2>2. Min(L) \in L /\ \A i \in L : Min(L) <= i
    BY <2>1, LeastElement
  <2>3. Min(L) <= n /\ n <= Min(L) /\ Min(L) \in Nat
    BY <1>7, <1>8, <2>1, <2>2
  <2> QED
    BY <1>1, <2>3
<1>10. ContentsOn(b, q) = [i \in 1..n |-> r[i]]
  BY <1>9, Zenon DEF ContentsOn, L, r
<1>11. \A i \in 1..n : r[i] = s[i]
  <2>1. \A i \in 1..n : i \in 0..n + 1
    BY <1>1
  <2> QED
    BY <1>4, <1>5, <2>1
<1>12. s = [i \in 1..n |-> s[i]]
  BY <1>1
<1> QED
  BY <1>7, <1>10, <1>11, <1>12 DEF L

-----------------------------------------------------------------------------
(* The slots of the queues are apart. *)

\* The slots of one queue and of another.
Fits(qs) == DOMAIN qs \subseteq Queues /\ \A q \in DOMAIN qs : qs[q] \in Seq(Pids)

LEMMA AtPlaces ==
    ASSUME NEW q \in Queues, NEW s \in Seq(Pids)
    PROVE  /\ Len(s) \in Nat
           /\ At(q, s, 0) = head(q) /\ At(q, s, Len(s) + 1) = tail(q)
           /\ \A i \in 1..Len(s) : At(q, s, i) = s[i] /\ s[i] \in Pids
           /\ \A i \in 0..Len(s) + 1 : At(q, s, i) \in Slots /\ At(q, s, i) # none
           /\ \A i \in 1..Len(s) + 1 : At(q, s, i) # head(q)
           /\ \A i \in 0..Len(s) : At(q, s, i) # tail(q)
<1> DEFINE n == Len(s)
<1>1. n \in Nat /\ \A i \in 1..n : s[i] \in Pids
  OBVIOUS
<1> HIDE DEF n
<1>2. n + 1 # 0 /\ \A i \in 1..n : i # 0 /\ i # n + 1
  BY <1>1
<1>3. /\ At(q, s, 0) = head(q) /\ At(q, s, n + 1) = tail(q)
      /\ \A i \in 1..n : At(q, s, i) = s[i] /\ s[i] \in Pids
  BY <1>1, <1>2 DEF At, n
<1>4. \A i \in 0..n + 1 : i = 0 \/ i = n + 1 \/ i \in 1..n
  BY <1>1
<1>5. /\ head(q) \in Slots /\ tail(q) \in Slots /\ head(q) # none /\ tail(q) # none
      /\ head(q) # tail(q)
      /\ \A p \in Pids : p \in Slots /\ p # none /\ p # head(q) /\ p # tail(q)
  BY SlotsLemma DEF head, tail, Queues, Slots, Pids, none
<1>6. \A i \in 0..n + 1 : At(q, s, i) \in Slots /\ At(q, s, i) # none
  BY <1>3, <1>4, <1>5
<1>7. \A i \in 1..n + 1 : i \in 0..n + 1 /\ i # 0
  BY <1>1
<1>8. \A i \in 0..n : i \in 0..n + 1 /\ i # n + 1
  BY <1>1
<1>9. \A i \in 1..n + 1 : At(q, s, i) # head(q)
  BY <1>3, <1>4, <1>5, <1>7
<1>10. \A i \in 0..n : At(q, s, i) # tail(q)
  BY <1>3, <1>4, <1>5, <1>8
<1> QED
  BY <1>1, <1>3, <1>6, <1>9, <1>10 DEF n

\* Different places of the queues are different slots.
LEMMA Apart ==
    ASSUME NEW b, NEW w, NEW qs, Linked(b, w, qs), Fits(qs),
           NEW q \in DOMAIN qs, NEW r \in DOMAIN qs,
           NEW i \in 0..Len(qs[q]) + 1, NEW j \in 0..Len(qs[r]) + 1,
           At(q, qs[q], i) = At(r, qs[r], j)
    PROVE  q = r /\ i = j
<1>1. q \in Queues /\ r \in Queues /\ qs[q] \in Seq(Pids) /\ qs[r] \in Seq(Pids)
  BY DEF Fits
<1> DEFINE n == Len(qs[q])
           m == Len(qs[r])
<1>2. /\ n \in Nat /\ m \in Nat /\ i \in 0..n + 1 /\ j \in 0..m + 1
      /\ At(q, qs[q], 0) = head(q) /\ At(q, qs[q], n + 1) = tail(q)
      /\ At(r, qs[r], 0) = head(r) /\ At(r, qs[r], m + 1) = tail(r)
      /\ \A k \in 1..n : At(q, qs[q], k) = qs[q][k] /\ qs[q][k] \in Pids
      /\ \A k \in 1..m : At(r, qs[r], k) = qs[r][k] /\ qs[r][k] \in Pids
  BY <1>1, AtPlaces
<1>3. \A k \in 1..n, l \in 1..m : qs[q][k] = qs[r][l] => q = r /\ k = l
  BY DEF Linked
<1> HIDE DEF n, m
<1>4. (i = 0 \/ i = n + 1 \/ i \in 1..n) /\ (j = 0 \/ j = m + 1 \/ j \in 1..m)
  BY <1>2
<1>5. /\ head(q) # tail(r) /\ tail(q) # head(r)
      /\ (head(q) = head(r) => q = r) /\ (tail(q) = tail(r) => q = r)
      /\ \A p \in Pids : p # head(q) /\ p # tail(q) /\ p # head(r) /\ p # tail(r)
  BY <1>1, SlotsLemma, SMTT(60) DEF head, tail, Queues, Pids
<1>6. CASE i \in 1..n
  BY <1>2, <1>3, <1>4, <1>5, <1>6
<1>7. CASE i = 0
  BY <1>2, <1>4, <1>5, <1>7
<1>8. CASE i = n + 1
  <2>1. j = m + 1 /\ q = r
    BY <1>2, <1>4, <1>5, <1>8
  <2> QED
    BY <1>8, <2>1 DEF n, m
<1> QED
  BY <1>4, <1>6, <1>7, <1>8

\* A process of the callers' own is at no place of a queue.
LEMMA OffQueues ==
    ASSUME NEW b, NEW w, NEW qs, Linked(b, w, qs), Fits(qs),
           NEW p \in Pids, w[p] = none \/ ~On(qs, p),
           NEW q \in DOMAIN qs, NEW i \in 0..Len(qs[q]) + 1
    PROVE  At(q, qs[q], i) # p
<1>1. q \in Queues /\ qs[q] \in Seq(Pids)
  BY DEF Fits
<1> DEFINE n == Len(qs[q])
<1>2. /\ n \in Nat /\ i \in 0..n + 1
      /\ At(q, qs[q], 0) = head(q) /\ At(q, qs[q], n + 1) = tail(q)
      /\ \A k \in 1..n : At(q, qs[q], k) = qs[q][k]
  BY <1>1, AtPlaces
<1>3. \A k \in 1..n : qs[q][k] # p
  BY DEF Linked, On
<1> HIDE DEF n
<1>4. i = 0 \/ i = n + 1 \/ i \in 1..n
  BY <1>2
<1>5. p # head(q) /\ p # tail(q)
  BY <1>1, SlotsLemma DEF head, tail, Queues, Pids
<1> QED
  BY <1>2, <1>3, <1>4, <1>5

\* What the links of a chain say, place by place.
LEMMA ChainLinks ==
    ASSUME NEW b, NEW w, NEW qs, Linked(b, w, qs), NEW q \in DOMAIN qs
    PROVE  /\ \A i \in 0..Len(qs[q]) : b[At(q, qs[q], i)].next = At(q, qs[q], i + 1)
           /\ b[tail(q)].prev = At(q, qs[q], Len(qs[q])) /\ b[tail(q)].next = none
BY DEF Linked, Chain

\* One link written.
WithNext(b, s, t) == [b EXCEPT ![s].next = t]
WithPrev(b, s, t) == [b EXCEPT ![s].prev = t]

NextWritten(c, b, s, t) ==
    /\ c \in [Slots -> Node]
    /\ \A x \in Slots : /\ c[x].next = IF x = s THEN t ELSE b[x].next
                        /\ c[x].prev = b[x].prev /\ c[x].key = b[x].key
PrevWritten(c, b, s, t) ==
    /\ c \in [Slots -> Node]
    /\ \A x \in Slots : /\ c[x].prev = IF x = s THEN t ELSE b[x].prev
                        /\ c[x].next = b[x].next /\ c[x].key = b[x].key

LEMMA LinkWritten ==
    ASSUME NEW b \in [Slots -> Node], NEW s \in Slots, NEW t \in Slots
    PROVE  /\ NextWritten(WithNext(b, s, t), b, s, t)
           /\ PrevWritten(WithPrev(b, s, t), b, s, t)
BY DEF Node, WithNext, WithPrev, NextWritten, PrevWritten

\* The four writes of pushQueue and of insert.
FourWrites(b, o, p, t) ==
    [[[b EXCEPT ![o].next = p] EXCEPT ![p].prev = o, ![p].next = t] EXCEPT ![t].prev = p]

FourLinks(c, b, o, p, t) ==
    /\ c \in [Slots -> Node]
    /\ \A x \in Slots :
         /\ c[x].next = IF x = p THEN t ELSE IF x = o THEN p ELSE b[x].next
         /\ c[x].prev = IF x = t THEN p ELSE IF x = p THEN o ELSE b[x].prev
         /\ c[x].key = b[x].key

LEMMA FourWritten ==
    ASSUME NEW b \in [Slots -> Node], NEW o \in Slots, NEW p \in Slots, NEW t \in Slots
    PROVE  FourLinks(FourWrites(b, o, p, t), b, o, p, t)
<1> DEFINE b1 == WithNext(b, o, p)
           b2 == WithPrev(b1, p, o)
           b3 == WithNext(b2, p, t)
           b4 == WithPrev(b3, t, p)
<1>1. FourWrites(b, o, p, t) = b4
  BY Zenon DEF FourWrites, WithNext, WithPrev
<1>2. NextWritten(b1, b, o, p)
  BY LinkWritten
<1>2a. b1 \in [Slots -> Node]
  BY <1>2 DEF NextWritten
<1> HIDE DEF b1
<1>3. PrevWritten(b2, b1, p, o)
  BY <1>2a, LinkWritten
<1>3a. b2 \in [Slots -> Node]
  BY <1>3 DEF PrevWritten
<1> HIDE DEF b2
<1>4. NextWritten(b3, b2, p, t)
  BY <1>3a, LinkWritten
<1>4a. b3 \in [Slots -> Node]
  BY <1>4 DEF NextWritten
<1> HIDE DEF b3
<1>5. PrevWritten(b4, b3, t, p)
  BY <1>4a, LinkWritten
<1> HIDE DEF b4
<1>6. FourLinks(b4, b, o, p, t)
  BY <1>2, <1>3, <1>4, <1>5 DEF NextWritten, PrevWritten, FourLinks
<1> QED
  BY <1>1, <1>6

-----------------------------------------------------------------------------
(* What the routines do to the queues. *)

LEMMA QueuesApart ==
    /\ \A q, r \in Queues : head(q) # tail(r)
    /\ \A q, r \in Queues : q # r => head(q) # head(r) /\ tail(q) # tail(r)
    /\ \A q \in Queues : head(q) \in Slots /\ tail(q) \in Slots /\ head(q) # none /\ tail(q) # none
    /\ \A q \in Queues, p \in Pids : p # head(q) /\ p # tail(q)
    /\ \A p \in Pids : p \in Slots /\ p # none
    /\ \A q \in Queues : q # none
BY SlotsLemma DEF head, tail, Queues, Pids, Slots, none

\* A chain depends on the links at its places only.
LEMMA ChainKept ==
    ASSUME NEW b, NEW c, NEW q \in Queues, NEW s \in Seq(Pids), Chain(b, q, s),
           \A i \in 0..Len(s) : c[At(q, s, i)].next = b[At(q, s, i)].next,
           c[tail(q)].prev = b[tail(q)].prev, c[tail(q)].next = b[tail(q)].next
    PROVE  Chain(c, q, s)
BY DEF Chain

Grown(s, p) == Append(s, p)

LEMMA GrownPlaces ==
    ASSUME NEW q \in Queues, NEW s \in Seq(Pids), NEW p \in Pids
    PROVE  /\ Grown(s, p) \in Seq(Pids) /\ Len(Grown(s, p)) = Len(s) + 1 /\ Len(s) \in Nat
           /\ \A i \in 1..Len(s) : Grown(s, p)[i] = s[i]
           /\ Grown(s, p)[Len(s) + 1] = p
           /\ \A i \in 0..Len(s) : At(q, Grown(s, p), i) = At(q, s, i)
           /\ At(q, Grown(s, p), Len(s) + 1) = p
           /\ At(q, Grown(s, p), (Len(s) + 1) + 1) = tail(q)
<1> DEFINE n == Len(s)
           t == Grown(s, p)
<1>1. /\ t \in Seq(Pids) /\ Len(t) = n + 1 /\ n \in Nat /\ t[n + 1] = p
      /\ \A i \in 1..n : t[i] = s[i]
  BY DEF Grown
<1>2. At(q, t, 0) = head(q) /\ At(q, s, 0) = head(q)
  BY AtPlaces, <1>1
<1>3. /\ At(q, t, Len(t) + 1) = tail(q)
      /\ \A i \in 1..Len(t) : At(q, t, i) = t[i]
      /\ \A i \in 1..n : At(q, s, i) = s[i]
  BY AtPlaces, <1>1
<1> HIDE DEF t, n
<1>4. At(q, t, (n + 1) + 1) = tail(q)
  BY <1>1, <1>3
<1>5. n + 1 \in 1..Len(t) /\ \A i \in 1..n : i \in 1..Len(t)
  BY <1>1
<1>6. \A i \in 0..n : i = 0 \/ i \in 1..n
  BY <1>1
<1>7. \A i \in 0..n : At(q, t, i) = At(q, s, i)
  BY <1>1, <1>2, <1>3, <1>5, <1>6
<1>8. At(q, t, n + 1) = p
  BY <1>1, <1>3, <1>5
<1> QED
  BY <1>1, <1>4, <1>7, <1>8 DEF t, n

LEMMA PushLinked ==
    ASSUME NEW b \in [Slots -> Node], NEW w \in [Pids -> Queues \union {none}],
           NEW qs, Linked(b, w, qs), Fits(qs),
           NEW q \in DOMAIN qs, NEW p \in Pids, w[p] = none,
           NEW c, c = FourWrites(b, b[tail(q)].prev, p, tail(q)),
           NEW more, more = [r \in DOMAIN qs |-> IF r = q THEN Grown(qs[q], p) ELSE qs[r]]
    PROVE  Linked(c, [w EXCEPT ![p] = q], more) /\ Fits(more)
<1> DEFINE s == qs[q]
           n == Len(s)
           o == b[tail(q)].prev
           v == [w EXCEPT ![p] = q]
           t == Grown(s, p)
<1>1. q \in Queues /\ s \in Seq(Pids) /\ \A r \in DOMAIN qs : r \in Queues /\ qs[r] \in Seq(Pids)
  BY DEF Fits
<1>2. /\ n \in Nat /\ t \in Seq(Pids) /\ Len(t) = n + 1
      /\ \A i \in 1..n : t[i] = s[i]
      /\ t[n + 1] = p
      /\ \A i \in 0..n : At(q, t, i) = At(q, s, i)
      /\ At(q, t, n + 1) = p /\ At(q, t, (n + 1) + 1) = tail(q)
  BY <1>1, GrownPlaces, ZenonT(60)
<1>3. more[q] = t /\ DOMAIN more = DOMAIN qs /\ \A r \in DOMAIN qs : r # q => more[r] = qs[r]
  OBVIOUS
<1>4. Fits(more)
  BY <1>1, <1>2, <1>3 DEF Fits
<1> HIDE DEF t
<1>5. o = At(q, s, n) /\ n \in 0..n + 1 /\ n # n + 1
  BY <1>2, ChainLinks
<1>6. o \in Slots /\ o # tail(q) /\ p # tail(q) /\ o # p /\ p \in Slots /\ tail(q) \in Slots
  <2>1. At(q, s, n) \in Slots /\ At(q, s, n) # tail(q)
    BY <1>1, <1>2, <1>5, AtPlaces
  <2>2. At(q, s, n) # p
    BY <1>5, OffQueues
  <2> QED
    BY <1>1, <1>5, <2>1, <2>2, QueuesApart
<1>7. \A x \in Slots :
        /\ c[x].next = IF x = p THEN tail(q) ELSE IF x = o THEN p ELSE b[x].next
        /\ c[x].prev = IF x = tail(q) THEN p ELSE IF x = p THEN o ELSE b[x].prev
  <2>1. FourLinks(c, b, o, p, tail(q))
    BY <1>6, FourWritten
  <2> QED
    BY <2>1 DEF FourLinks
<1>8. Chain(c, q, t)
  <2>1. \A i \in 0..n : At(q, s, i) \in Slots /\ At(q, s, i) # p /\ (i # n => At(q, s, i) # o)
    <3> SUFFICES ASSUME NEW i \in 0..n
                 PROVE  At(q, s, i) \in Slots /\ At(q, s, i) # p /\ (i # n => At(q, s, i) # o)
      OBVIOUS
    <3>1. i \in 0..n + 1
      BY <1>2
    <3> QED
      BY <1>1, <1>5, <3>1, AtPlaces, OffQueues, Apart
  <2>2. \A i \in 0..n : b[At(q, s, i)].next = At(q, s, i + 1)
    BY ChainLinks
  <2>3. ASSUME NEW i \in 0..n + 1 PROVE c[At(q, t, i)].next = At(q, t, i + 1)
    <3>1. CASE i = n + 1
      BY <1>2, <1>6, <1>7, <3>1
    <3>2. CASE i = n
      BY <1>2, <1>5, <1>6, <1>7, <3>2
    <3>3. CASE i # n /\ i # n + 1
      <4>1. i \in 0..n /\ i + 1 \in 0..n
        BY <1>2, <3>3
      <4> QED
        BY <1>2, <1>7, <2>1, <2>2, <3>3, <4>1
    <3> QED
      BY <3>1, <3>2, <3>3
  <2>4. c[tail(q)].prev = At(q, t, n + 1) /\ c[tail(q)].next = none
    BY <1>2, <1>6, <1>7, ChainLinks
  <2> QED
    BY <1>2, <2>3, <2>4 DEF Chain
<1>9. ASSUME NEW r \in DOMAIN qs, r # q PROVE Chain(c, r, qs[r])
  <2> DEFINE m == Len(qs[r])
  <2>1. m \in Nat /\ r \in Queues /\ qs[r] \in Seq(Pids)
    BY <1>1
  <2>2. \A i \in 0..m + 1 : At(r, qs[r], i) \in Slots /\ At(r, qs[r], i) # p /\ At(r, qs[r], i) # o
    BY <1>5, <1>9, <2>1, AtPlaces, OffQueues, Apart
  <2>3. At(r, qs[r], m + 1) = tail(r) /\ m + 1 \in 0..m + 1 /\ \A i \in 0..m : i \in 0..m + 1
    BY <2>1, AtPlaces
  <2>4. tail(r) # tail(q)
    BY <1>1, <1>9, <2>1, QueuesApart
  <2>5. \A i \in 0..m : c[At(r, qs[r], i)].next = b[At(r, qs[r], i)].next
    BY <1>7, <2>2, <2>3
  <2>6. c[tail(r)].prev = b[tail(r)].prev /\ c[tail(r)].next = b[tail(r)].next
    BY <1>7, <2>2, <2>3, <2>4
  <2>7. Chain(b, r, qs[r])
    BY DEF Linked
  <2> QED
    BY <2>1, <2>5, <2>6, <2>7, ChainKept, SMTT(60)
<1>10. \A r \in DOMAIN qs : \A i \in 1..Len(qs[r]) : qs[r][i] \in Pids /\ w[qs[r][i]] # none /\ qs[r][i] # p
  BY <1>1 DEF Linked
<1>11. v[p] = q /\ q # none /\ \A x \in Pids : x # p => v[x] = w[x]
  BY <1>1, QueuesApart
<1>12. ASSUME NEW r \in DOMAIN qs, NEW i \in 1..Len(more[r])
       PROVE  \/ i \in 1..Len(qs[r]) /\ more[r][i] = qs[r][i]
              \/ r = q /\ i = n + 1 /\ more[r][i] = p
  BY <1>2, <1>3
<1>13. \A q1, r1 \in DOMAIN qs : \A i \in 1..Len(more[q1]), j \in 1..Len(more[r1]) :
         more[q1][i] = more[r1][j] => q1 = r1 /\ i = j
  <2> SUFFICES ASSUME NEW q1 \in DOMAIN qs, NEW r1 \in DOMAIN qs, NEW i \in 1..Len(more[q1]),
                      NEW j \in 1..Len(more[r1]), more[q1][i] = more[r1][j]
               PROVE  q1 = r1 /\ i = j
    OBVIOUS
  <2>1. \A k \in 1..Len(qs[q1]), l \in 1..Len(qs[r1]) : qs[q1][k] = qs[r1][l] => q1 = r1 /\ k = l
    BY DEF Linked
  <2> QED
    BY <1>10, <1>12, <2>1
<1>14. \A r \in DOMAIN qs : \A i \in 1..Len(more[r]) : v[more[r][i]] # none
  BY <1>10, <1>11, <1>12
<1>15. ASSUME NEW r \in DOMAIN qs, c[head(r)].prev # none
       PROVE  c[head(r)].prev \in Pids /\ v[c[head(r)].prev] # none /\ ~On(more, c[head(r)].prev)
  <2> DEFINE lost == b[head(r)].prev
  <2>1. c[head(r)].prev = lost
    BY <1>1, <1>7, QueuesApart
  <2>2. lost \in Pids /\ w[lost] # none /\ ~On(qs, lost)
    BY <1>15, <2>1 DEF Linked
  <2>3. lost # p /\ v[lost] # none
    BY <1>11, <2>2
  <2>4. \A r1 \in DOMAIN qs : \A i \in 1..Len(more[r1]) : more[r1][i] # lost
    BY <1>12, <2>2, <2>3 DEF On
  <2> QED
    BY <1>3, <2>1, <2>2, <2>3, <2>4 DEF On
<1>16. \A r \in DOMAIN qs : Chain(c, r, more[r])
  BY <1>3, <1>8, <1>9
<1> HIDE DEF v
<1>17. Linked(c, v, more)
  BY <1>3, <1>13, <1>14, <1>15, <1>16 DEF Linked
<1> QED
  BY <1>4, <1>17 DEF v

\* insert at the head of a queue puts the process before the head, on no queue.
LEMMA LoseLinked ==
    ASSUME NEW b \in [Slots -> Node], NEW w \in [Pids -> Queues \union {none}],
           NEW qs, Linked(b, w, qs), Fits(qs),
           NEW q \in DOMAIN qs, NEW p \in Pids, w[p] = none,
           NEW c, c = FourWrites(b, b[head(q)].prev, p, head(q))
    PROVE  Linked(c, [w EXCEPT ![p] = q], qs)
<1> DEFINE o == b[head(q)].prev
           v == [w EXCEPT ![p] = q]
<1>1. q \in Queues /\ \A r \in DOMAIN qs : r \in Queues /\ qs[r] \in Seq(Pids)
  BY DEF Fits
<1>2. o = none \/ (o \in Pids /\ ~On(qs, o))
  BY DEF Linked
<1>3. o \in Slots /\ p \in Slots /\ head(q) \in Slots /\ p # head(q)
  BY <1>1, <1>2, QueuesApart, SlotsLemma
<1>4. \A x \in Slots :
        /\ c[x].next = IF x = p THEN head(q) ELSE IF x = o THEN p ELSE b[x].next
        /\ c[x].prev = IF x = head(q) THEN p ELSE IF x = p THEN o ELSE b[x].prev
  <2>1. FourLinks(c, b, o, p, head(q))
    BY <1>3, FourWritten
  <2> QED
    BY <2>1 DEF FourLinks
<1>5. ASSUME NEW r \in DOMAIN qs PROVE Chain(c, r, qs[r])
  <2> DEFINE m == Len(qs[r])
  <2>1. m \in Nat /\ r \in Queues /\ qs[r] \in Seq(Pids)
    BY <1>1
  <2>2. \A i \in 0..m + 1 : At(r, qs[r], i) \in Slots /\ At(r, qs[r], i) # p /\ At(r, qs[r], i) # o
    BY <1>2, <2>1, AtPlaces, OffQueues
  <2>3. At(r, qs[r], m + 1) = tail(r) /\ m + 1 \in 0..m + 1 /\ \A i \in 0..m : i \in 0..m + 1
    BY <2>1, AtPlaces
  <2>4. tail(r) # head(q)
    BY <1>1, <2>1, QueuesApart
  <2>5. \A i \in 0..m : c[At(r, qs[r], i)].next = b[At(r, qs[r], i)].next
    BY <1>4, <2>2, <2>3
  <2>6. c[tail(r)].prev = b[tail(r)].prev /\ c[tail(r)].next = b[tail(r)].next
    BY <1>4, <2>2, <2>3, <2>4
  <2>7. Chain(b, r, qs[r])
    BY DEF Linked
  <2> QED
    BY <2>1, <2>5, <2>6, <2>7, ChainKept, SMTT(60)
<1>6. \A r \in DOMAIN qs : \A i \in 1..Len(qs[r]) : qs[r][i] \in Pids /\ w[qs[r][i]] # none /\ qs[r][i] # p
  BY <1>1 DEF Linked
<1>7. v[p] = q /\ q # none /\ \A x \in Pids : x # p => v[x] = w[x]
  BY <1>1, QueuesApart
<1>8. \A r \in DOMAIN qs : \A i \in 1..Len(qs[r]) : v[qs[r][i]] # none
  BY <1>6, <1>7
<1>9. ASSUME NEW r \in DOMAIN qs, c[head(r)].prev # none
      PROVE  c[head(r)].prev \in Pids /\ v[c[head(r)].prev] # none /\ ~On(qs, c[head(r)].prev)
  <2>1. CASE r = q
    <3>1. c[head(r)].prev = p
      BY <1>3, <1>4, <2>1
    <3>2. ~On(qs, p)
      BY <1>6 DEF On
    <3> QED
      BY <1>7, <3>1, <3>2
  <2>2. CASE r # q
    <3>1. c[head(r)].prev = b[head(r)].prev
      BY <1>1, <1>4, <2>2, QueuesApart
    <3>2. b[head(r)].prev \in Pids /\ w[b[head(r)].prev] # none /\ ~On(qs, b[head(r)].prev)
      BY <1>9, <3>1 DEF Linked
    <3>3. b[head(r)].prev # p
      BY <3>2
    <3> QED
      BY <1>7, <3>1, <3>2, <3>3
  <2> QED
    BY <2>1, <2>2
<1> HIDE DEF v
<1>10. Linked(c, v, qs)
  BY <1>5, <1>8, <1>9 DEF Linked
<1> QED
  BY <1>10 DEF v

LEMMA ShrunkPlaces ==
    ASSUME NEW q \in Queues, NEW s \in Seq(Pids), s # <<>>
    PROVE  /\ Tail(s) \in Seq(Pids) /\ Len(Tail(s)) = Len(s) - 1 /\ Len(s) \in Nat \ {0}
           /\ \A i \in 1..Len(s) - 1 : Tail(s)[i] = s[i + 1]
           /\ At(q, Tail(s), 0) = head(q)
           /\ \A i \in 1..Len(s) : At(q, Tail(s), i) = At(q, s, i + 1)
<1> DEFINE n == Len(s)
           t == Tail(s)
<1>1. /\ t \in Seq(Pids) /\ Len(t) = n - 1 /\ n \in Nat \ {0}
      /\ \A i \in 1..n - 1 : t[i] = s[i + 1]
  OBVIOUS
<1>2. /\ At(q, t, 0) = head(q) /\ At(q, t, Len(t) + 1) = tail(q)
      /\ \A i \in 1..Len(t) : At(q, t, i) = t[i]
      /\ At(q, s, n + 1) = tail(q) /\ \A i \in 1..n : At(q, s, i) = s[i]
  BY AtPlaces, <1>1
<1> HIDE DEF t, n
<1>3. ASSUME NEW i \in 1..n PROVE At(q, t, i) = At(q, s, i + 1)
  <2>1. CASE i = n
    BY <1>1, <1>2, <2>1
  <2>2. CASE i # n
    <3>1. i \in 1..n - 1 /\ i \in 1..Len(t) /\ i + 1 \in 1..n
      BY <1>1, <2>2
    <3> QED
      BY <1>1, <1>2, <3>1
  <2> QED
    BY <2>1, <2>2
<1> QED
  BY <1>1, <1>2, <1>3 DEF t, n

\* The first process of a queue taken out, whatever happens to its own links and to the
\* link of the second one back.
Popped(c, b, v, w, s, q) ==
    /\ \A x \in Slots : x # s[1] => c[x].next = IF x = head(q) THEN At(q, s, 2) ELSE b[x].next
    /\ \A x \in Slots : x # s[1] /\ x # At(q, s, 2) => c[x].prev = b[x].prev
    /\ c[tail(q)].prev = At(q, Tail(s), Len(s) - 1)
    /\ \A x \in Pids : x # s[1] => v[x] = w[x]

Shrunk(qs, q) == [r \in DOMAIN qs |-> IF r = q THEN Tail(qs[q]) ELSE qs[r]]

LEMMA PopLinked ==
    ASSUME NEW b, NEW w, NEW qs, Linked(b, w, qs), Fits(qs),
           NEW q \in DOMAIN qs, qs[q] # <<>>,
           NEW c, NEW v, Popped(c, b, v, w, qs[q], q),
           NEW less, less = Shrunk(qs, q)
    PROVE  Linked(c, v, less) /\ Fits(less)
<1> DEFINE s == qs[q]
           n == Len(s)
           t == Tail(s)
           f == s[1]
<1>1. q \in Queues /\ s \in Seq(Pids) /\ \A r \in DOMAIN qs : r \in Queues /\ qs[r] \in Seq(Pids)
  BY DEF Fits
<1>2. /\ n \in Nat \ {0} /\ t \in Seq(Pids) /\ Len(t) = n - 1
      /\ \A i \in 1..n - 1 : t[i] = s[i + 1]
      /\ At(q, t, 0) = head(q)
      /\ \A i \in 1..n : At(q, t, i) = At(q, s, i + 1)
  BY <1>1, ShrunkPlaces
<1>3. less[q] = t /\ DOMAIN less = DOMAIN qs /\ \A r \in DOMAIN qs : r # q => less[r] = qs[r]
  BY DEF Shrunk
<1>4. Fits(less)
  BY <1>1, <1>2, <1>3 DEF Fits
<1>5. /\ f = At(q, s, 1) /\ 1 \in 0..n + 1 /\ 2 \in 0..n + 1 /\ f \in Pids
      /\ At(q, s, 0) = head(q) /\ At(q, s, n + 1) = tail(q)
      /\ head(q) \in Slots /\ tail(q) \in Slots /\ f # head(q) /\ f # tail(q) /\ head(q) # tail(q)
  <2>1. 1 \in 1..n
    BY <1>2
  <2>2. /\ f = At(q, s, 1) /\ f \in Pids /\ At(q, s, 0) = head(q) /\ At(q, s, n + 1) = tail(q)
    BY <1>1, <2>1, AtPlaces
  <2> QED
    BY <1>1, <1>2, <2>2, QueuesApart
<1> HIDE DEF t, f
<1>6. /\ \A x \in Slots : x # f => c[x].next = IF x = head(q) THEN At(q, s, 2) ELSE b[x].next
      /\ \A x \in Slots : x # f /\ x # At(q, s, 2) => c[x].prev = b[x].prev
      /\ c[tail(q)].prev = At(q, t, n - 1)
      /\ \A x \in Pids : x # f => v[x] = w[x]
  BY DEF t, f, Popped
<1>7. Chain(c, q, t)
  <2>1. ASSUME NEW i \in 0..n - 1 PROVE c[At(q, t, i)].next = At(q, t, i + 1)
    <3>1. CASE i = 0
      BY <1>2, <1>5, <1>6, <3>1
    <3>2. CASE i # 0
      <4>1. i \in 1..n /\ i + 1 \in 1..n /\ i + 1 \in 0..n /\ i + 1 \in 0..n + 1 /\ i + 1 # 1
            /\ i + 1 \in 1..n + 1
        BY <1>2, <3>2
      <4>2. At(q, s, i + 1) # f
        BY <1>5, <4>1, Apart
      <4>3. At(q, s, i + 1) \in Slots /\ At(q, s, i + 1) # head(q)
        BY <1>1, <4>1, AtPlaces
      <4>4. b[At(q, s, i + 1)].next = At(q, s, (i + 1) + 1)
        BY <4>1, ChainLinks
      <4> QED
        BY <1>2, <1>6, <4>1, <4>2, <4>3, <4>4
    <3> QED
      BY <3>1, <3>2
  <2>2. c[tail(q)].next = none
    BY <1>5, <1>6, ChainLinks
  <2> QED
    BY <1>2, <1>6, <2>1, <2>2 DEF Chain
<1>8. ASSUME NEW r \in DOMAIN qs, r # q PROVE Chain(c, r, qs[r])
  <2> DEFINE m == Len(qs[r])
  <2>1. m \in Nat /\ r \in Queues /\ qs[r] \in Seq(Pids)
    BY <1>1
  <2>2. \A i \in 0..m + 1 : /\ At(r, qs[r], i) \in Slots /\ At(r, qs[r], i) # f
                            /\ At(r, qs[r], i) # At(q, s, 2) /\ At(r, qs[r], i) # head(q)
    <3> SUFFICES ASSUME NEW i \in 0..m + 1
                 PROVE  /\ At(r, qs[r], i) \in Slots /\ At(r, qs[r], i) # f
                        /\ At(r, qs[r], i) # At(q, s, 2) /\ At(r, qs[r], i) # head(q)
      OBVIOUS
    <3>1. At(r, qs[r], i) \in Slots
      BY <2>1, AtPlaces
    <3>2. At(r, qs[r], i) # At(q, s, 1)
      BY <1>5, <1>8, Apart
    <3>3. At(r, qs[r], i) # At(q, s, 2)
      BY <1>5, <1>8, Apart
    <3>4. 0 \in 0..n + 1
      BY <1>2
    <3>5. At(r, qs[r], i) # At(q, s, 0)
      BY <1>8, <3>4, Apart
    <3> QED
      BY <1>5, <3>1, <3>2, <3>3, <3>5
  <2>3. At(r, qs[r], m + 1) = tail(r) /\ m + 1 \in 0..m + 1 /\ \A i \in 0..m : i \in 0..m + 1
    BY <2>1, AtPlaces
  <2>5. \A i \in 0..m : c[At(r, qs[r], i)].next = b[At(r, qs[r], i)].next
    BY <1>6, <2>2, <2>3
  <2>6. c[tail(r)].prev = b[tail(r)].prev /\ c[tail(r)].next = b[tail(r)].next
    BY <1>6, <2>2, <2>3
  <2>7. Chain(b, r, qs[r])
    BY DEF Linked
  <2> QED
    BY <2>1, <2>5, <2>6, <2>7, ChainKept
<1>9. ASSUME NEW r \in DOMAIN qs, NEW i \in 1..Len(less[r])
      PROVE  \/ r # q /\ i \in 1..Len(qs[r]) /\ less[r][i] = qs[r][i]
             \/ r = q /\ i + 1 \in 1..Len(qs[r]) /\ i + 1 # 1 /\ less[r][i] = qs[r][i + 1]
  <2>1. CASE r # q
    BY <1>3, <2>1
  <2>2. CASE r = q
    <3>1. i \in 1..n - 1 /\ i + 1 \in 1..n /\ i + 1 # 1
      BY <1>2, <1>3, <2>2
    <3> QED
      BY <1>2, <1>3, <2>2, <3>1
  <2> QED
    BY <2>1, <2>2
<1>10. \A q1, r1 \in DOMAIN qs : \A k \in 1..Len(qs[q1]), l \in 1..Len(qs[r1]) :
          qs[q1][k] = qs[r1][l] => q1 = r1 /\ k = l
  BY DEF Linked
<1>11. \A q1, r1 \in DOMAIN qs : \A i \in 1..Len(less[q1]), j \in 1..Len(less[r1]) :
         less[q1][i] = less[r1][j] => q1 = r1 /\ i = j
  <2> SUFFICES ASSUME NEW q1 \in DOMAIN qs, NEW r1 \in DOMAIN qs, NEW i \in 1..Len(less[q1]),
                      NEW j \in 1..Len(less[r1]), less[q1][i] = less[r1][j]
               PROVE  q1 = r1 /\ i = j
    OBVIOUS
  <2>1. i \in Int /\ j \in Int /\ (i + 1 = j + 1 => i = j)
    <3>1. i \in Int /\ j \in Int
      BY <1>1, <1>2, <1>3
    <3> QED
      BY <3>1
  <2> QED
    BY ONLY q1 \in DOMAIN qs, r1 \in DOMAIN qs, i \in 1..Len(less[q1]), j \in 1..Len(less[r1]),
            less[q1][i] = less[r1][j], <1>9, <1>10, <2>1
<1>12. \A r \in DOMAIN qs : \A i \in 1..Len(less[r]) :
         less[r][i] \in Pids /\ less[r][i] # f /\ w[less[r][i]] # none
  <2> SUFFICES ASSUME NEW r \in DOMAIN qs, NEW i \in 1..Len(less[r])
               PROVE  less[r][i] \in Pids /\ less[r][i] # f /\ w[less[r][i]] # none
    OBVIOUS
  <2>1. 1 \in 1..n /\ f = qs[q][1]
    BY <1>2 DEF f
  <2>2. \A k \in 1..Len(qs[r]) : qs[r][k] \in Pids /\ w[qs[r][k]] # none
    BY <1>1 DEF Linked
  <2> QED
    BY <1>9, <1>10, <2>1, <2>2
<1>13. \A r \in DOMAIN qs : \A i \in 1..Len(less[r]) : v[less[r][i]] # none
  <2> SUFFICES ASSUME NEW r \in DOMAIN qs, NEW i \in 1..Len(less[r]) PROVE v[less[r][i]] # none
    OBVIOUS
  <2> DEFINE x == less[r][i]
  <2>1. x \in Pids /\ x # f /\ w[x] # none
    BY <1>12
  <2> HIDE DEF x
  <2>2. v[x] # none
    BY <1>6, <2>1
  <2> QED
    BY <2>2 DEF x
<1>14. ASSUME NEW r \in DOMAIN qs, c[head(r)].prev # none
       PROVE  c[head(r)].prev \in Pids /\ v[c[head(r)].prev] # none /\ ~On(less, c[head(r)].prev)
  <2> DEFINE lost == b[head(r)].prev
  <2>1. c[head(r)].prev = lost
    <3>1. At(q, s, 2) # head(r)
      <4>1. 2 \in 1..n + 1
        BY <1>2
      <4>2. At(q, s, 2) # head(q)
        BY <1>1, <4>1, AtPlaces
      <4>3. At(r, qs[r], 0) = head(r) /\ 0 \in 0..Len(qs[r]) + 1
        BY <1>1, AtPlaces
      <4>4. r # q => At(q, s, 2) # head(r)
        BY <1>5, <4>3, Apart
      <4> QED
        BY <4>2, <4>4
    <3>2. head(r) \in Slots /\ head(r) # f
      BY <1>1, <1>5, QueuesApart
    <3> QED
      BY <1>6, <3>1, <3>2
  <2>2. lost \in Pids /\ w[lost] # none /\ ~On(qs, lost)
    BY <1>14, <2>1 DEF Linked
  <2>3. 1 \in 1..Len(qs[q]) /\ f = qs[q][1]
    BY <1>2 DEF f
  <2>4. lost # f
    BY <2>2, <2>3 DEF On
  <2>5. \A r1 \in DOMAIN qs : \A i \in 1..Len(less[r1]) : less[r1][i] # lost
    BY <1>9, <2>2 DEF On
  <2> QED
    BY <1>3, <1>6, <2>1, <2>2, <2>4, <2>5 DEF On
<1>15. \A r \in DOMAIN qs : Chain(c, r, less[r])
  BY <1>3, <1>7, <1>8
<1>16. Linked(c, v, less)
  BY ONLY <1>3, <1>11, <1>13, <1>14, <1>15 DEF Linked
<1> QED
  BY <1>4, <1>16

\* The writes of newQueue.
NewWrites(b, q) ==
    [b EXCEPT ![head(q)].next = tail(q),
              ![head(q)].prev = none,
              ![tail(q)] = [key |-> MaxKey, next |-> none, prev |-> head(q)]]

NewLinks(c, b, q) ==
    \A x \in Slots :
      /\ c[x].next = IF x = head(q) THEN tail(q) ELSE IF x = tail(q) THEN none ELSE b[x].next
      /\ c[x].prev = IF x = head(q) THEN none ELSE IF x = tail(q) THEN head(q) ELSE b[x].prev
      /\ c[x].key = IF x = tail(q) THEN MaxKey ELSE b[x].key

LEMMA NewWritten ==
    ASSUME NEW b \in [Slots -> Node], NEW q \in Queues
    PROVE  NewLinks(NewWrites(b, q), b, q)
<1> DEFINE b1 == WithNext(b, head(q), tail(q))
           b2 == WithPrev(b1, head(q), none)
           b3 == [b2 EXCEPT ![tail(q)] = [key |-> MaxKey, next |-> none, prev |-> head(q)]]
<1>1. head(q) \in Slots /\ tail(q) \in Slots /\ none \in Slots /\ head(q) # tail(q)
  BY SlotsLemma, QueuesApart
<1>2. NewWrites(b, q) = b3
  BY Zenon DEF NewWrites, WithNext, WithPrev
<1>3. NextWritten(b1, b, head(q), tail(q))
  BY <1>1, LinkWritten
<1>4. b1 \in [Slots -> Node]
  BY <1>3 DEF NextWritten
<1> HIDE DEF b1
<1>5. PrevWritten(b2, b1, head(q), none)
  BY <1>1, <1>4, LinkWritten
<1>6. b2 \in [Slots -> Node]
  BY <1>5 DEF PrevWritten
<1> HIDE DEF b2
<1>7. \A x \in Slots : b3[x] = IF x = tail(q)
                               THEN [key |-> MaxKey, next |-> none, prev |-> head(q)]
                               ELSE b2[x]
  BY <1>6
<1> HIDE DEF b3
<1>8. NewLinks(b3, b, q)
  BY <1>1, <1>3, <1>5, <1>7 DEF NextWritten, PrevWritten, NewLinks
<1> QED
  BY <1>2, <1>8

LEMMA CreateLinked ==
    ASSUME NEW b, NEW w, NEW qs, Linked(b, w, qs), Fits(qs),
           NEW q \in Queues, q \notin DOMAIN qs,
           NEW c, NewLinks(c, b, q),
           NEW more, more = [r \in DOMAIN qs \union {q} |-> IF r = q THEN <<>> ELSE qs[r]]
    PROVE  Linked(c, w, more) /\ Fits(more)
<1>1. \A r \in DOMAIN qs : r \in Queues /\ qs[r] \in Seq(Pids) /\ r # q
  BY DEF Fits
<1>2. more[q] = <<>> /\ DOMAIN more = DOMAIN qs \union {q} /\ \A r \in DOMAIN qs : more[r] = qs[r]
  BY <1>1
<1>3. Fits(more)
  BY <1>1, <1>2 DEF Fits
<1>4. Chain(c, q, <<>>)
  <2>1. At(q, <<>>, 0) = head(q) /\ At(q, <<>>, 1) = tail(q)
    BY DEF At
  <2>2. head(q) \in Slots /\ tail(q) \in Slots /\ head(q) # tail(q)
    BY QueuesApart
  <2> QED
    BY <2>1, <2>2 DEF Chain, NewLinks
<1>5. ASSUME NEW r \in DOMAIN qs PROVE Chain(c, r, qs[r])
  <2> DEFINE m == Len(qs[r])
  <2>1. m \in Nat /\ r \in Queues /\ qs[r] \in Seq(Pids) /\ r # q
    BY <1>1
  <2>2. /\ \A i \in 0..m + 1 : At(r, qs[r], i) \in Slots
        /\ At(r, qs[r], 0) = head(r) /\ At(r, qs[r], m + 1) = tail(r)
        /\ \A i \in 1..m : At(r, qs[r], i) \in Pids
    BY <2>1, AtPlaces
  <2> HIDE DEF m
  <2>3. \A i \in 0..m : i = 0 \/ i \in 1..m
    BY <2>1
  <2>4. \A i \in 0..m : At(r, qs[r], i) \in Slots /\ At(r, qs[r], i) # head(q) /\ At(r, qs[r], i) # tail(q)
    BY <2>1, <2>2, <2>3, QueuesApart
  <2>5. tail(r) \in Slots /\ tail(r) # head(q) /\ tail(r) # tail(q)
    BY <2>1, QueuesApart
  <2>6. \A i \in 0..m : c[At(r, qs[r], i)].next = b[At(r, qs[r], i)].next
    BY <2>4 DEF NewLinks
  <2>7. c[tail(r)].prev = b[tail(r)].prev /\ c[tail(r)].next = b[tail(r)].next
    BY <2>5 DEF NewLinks
  <2>8. Chain(b, r, qs[r])
    BY DEF Linked
  <2> QED
    BY <2>1, <2>6, <2>7, <2>8, ChainKept DEF m
<1>6. \A r \in DOMAIN more : \A i \in 1..Len(more[r]) :
        r \in DOMAIN qs /\ r # q /\ more[r] = qs[r] /\ i \in 1..Len(qs[r])
  BY <1>1, <1>2
<1>7. \A r \in DOMAIN more : Chain(c, r, more[r])
  BY <1>2, <1>4, <1>5
<1>8. \A q1, r1 \in DOMAIN more : \A i \in 1..Len(more[q1]), j \in 1..Len(more[r1]) :
         more[q1][i] = more[r1][j] => q1 = r1 /\ i = j
  BY ONLY <1>6, Linked(b, w, qs) DEF Linked
<1>9. \A r \in DOMAIN more : \A i \in 1..Len(more[r]) : w[more[r][i]] # none
  BY ONLY <1>6, Linked(b, w, qs) DEF Linked
<1>10. ASSUME NEW r \in DOMAIN more, c[head(r)].prev # none
       PROVE  c[head(r)].prev \in Pids /\ w[c[head(r)].prev] # none /\ ~On(more, c[head(r)].prev)
  <2>1. r # q
    BY <1>10, QueuesApart DEF NewLinks
  <2>2. r \in DOMAIN qs /\ r \in Queues
    BY <1>1, <1>2, <2>1
  <2>3. c[head(r)].prev = b[head(r)].prev
    BY <2>1, <2>2, QueuesApart DEF NewLinks
  <2>4. c[head(r)].prev \in Pids /\ w[c[head(r)].prev] # none /\ ~On(qs, c[head(r)].prev)
    BY <1>10, <2>2, <2>3 DEF Linked
  <2>5. ~On(more, c[head(r)].prev)
    BY ONLY <1>6, <2>4 DEF On
  <2> QED
    BY <2>4, <2>5
<1> QED
  BY ONLY <1>3, <1>7, <1>8, <1>9, <1>10 DEF Linked

LEMMA FirstPlace ==
    ASSUME NEW qs, Linked(buf, where, qs), Fits(qs), NEW q \in DOMAIN qs
    PROVE  /\ firstPid(q) = At(q, qs[q], 1) /\ lastPid(q) = At(q, qs[q], Len(qs[q]))
           /\ isEmpty(q) <=> qs[q] = <<>>
           /\ qs[q] # <<>> => /\ firstPid(q) = qs[q][1] /\ qs[q][1] \in Pids
                              /\ buf[qs[q][1]].next = At(q, qs[q], 2)
<1> DEFINE s == qs[q]
           n == Len(s)
<1>1. q \in Queues /\ s \in Seq(Pids)
  BY DEF Fits
<1>2. /\ n \in Nat /\ (n = 0 <=> s = <<>>)
      /\ At(q, s, 0) = head(q) /\ At(q, s, n + 1) = tail(q)
      /\ \A i \in 1..n : At(q, s, i) = s[i] /\ s[i] \in Pids
      /\ \A i \in 0..n : At(q, s, i) # tail(q)
  BY <1>1, AtPlaces
<1>3. /\ \A i \in 0..n : buf[At(q, s, i)].next = At(q, s, i + 1)
      /\ buf[tail(q)].prev = At(q, s, n)
  BY ChainLinks
<1> HIDE DEF s, n
<1>4. 0 \in 0..n /\ (n # 0 => 1 \in 0..n /\ 1 \in 1..n) /\ 0 + 1 = 1 /\ 1 + 1 = 2
  BY <1>2
<1>5. firstPid(q) = At(q, s, 1) /\ lastPid(q) = At(q, s, n)
  BY <1>2, <1>3, <1>4 DEF firstPid, lastPid
<1>6. n # 0 => At(q, s, 1) # tail(q) /\ At(q, s, 1) = s[1] /\ s[1] \in Pids /\ buf[s[1]].next = At(q, s, 2)
  BY <1>2, <1>3, <1>4
<1>7. n = 0 => At(q, s, 1) = tail(q)
  BY <1>2, <1>4
<1> QED
  BY <1>2, <1>5, <1>6, <1>7 DEF isEmpty, s, n

\* The body of popFirst and popLast, unless it takes the only process: then the tail still points to it.
LEMMA takeFirstLinked ==
    ASSUME TypeOK, NEW qs, Linked(buf, where, qs), Fits(qs), NEW q \in DOMAIN qs,
           takeFirst(q), qs[q] # <<>>, ~spoiled'
    PROVE  Linked(buf', where', Shrunk(qs, q)) /\ Fits(Shrunk(qs, q))
<1> DEFINE s == qs[q]
           n == Len(s)
           t == Tail(s)
<1>1. q \in Queues /\ s \in Seq(Pids)
  BY DEF Fits
<1>2. /\ ~isEmpty(q) /\ firstPid(q) = s[1] /\ s[1] \in Pids /\ buf[s[1]].next = At(q, s, 2)
      /\ lastPid(q) = At(q, s, n)
  BY FirstPlace
<1>3. /\ buf' = WithNext(buf, head(q), At(q, s, 2))
      /\ where' = [p \in Pids |-> IF p = s[1] THEN none ELSE where[p]]
      /\ At(q, s, 2) # tail(q)
  BY <1>2 DEF takeFirst, Returned, WithNext
<1>4. n \in Nat \ {0} /\ \A i \in 1..n : At(q, t, i) = At(q, s, i + 1)
  BY <1>1, ShrunkPlaces
<1>5. /\ \A i \in 0..n + 1 : At(q, s, i) \in Slots
      /\ At(q, s, n + 1) = tail(q)
  BY <1>1, AtPlaces
<1> HIDE DEF n, t, s
<1>6. n # 1 /\ 2 \in 0..n + 1
  <2>1. n # 1
    BY <1>3, <1>5
  <2> QED
    BY <1>4, <2>1
<1>7. n - 1 \in 1..n /\ (n - 1) + 1 = n
  BY <1>4, <1>6
<1>8. head(q) \in Slots /\ tail(q) \in Slots /\ head(q) # tail(q)
  BY <1>1, QueuesApart
<1>9. NextWritten(buf', buf, head(q), At(q, s, 2))
  BY <1>3, <1>5, <1>6, <1>8, LinkWritten DEF TypeOK
<1>10. \A x \in Slots : x # s[1] =>
         buf'[x].next = IF x = head(q) THEN At(q, s, 2) ELSE buf[x].next
  BY <1>9 DEF NextWritten
<1>11. \A x \in Slots : x # s[1] /\ x # At(q, s, 2) => buf'[x].prev = buf[x].prev
  BY <1>9 DEF NextWritten
<1>12. buf'[tail(q)].prev = At(q, t, n - 1)
  BY <1>2, <1>4, <1>7, <1>8, <1>9 DEF NextWritten, lastPid
<1>13. \A x \in Pids : x # s[1] => where'[x] = where[x]
  BY <1>3
<1>14. Popped(buf', buf, where', where, s, q)
  BY <1>10, <1>11, <1>12, <1>13 DEF n, t, Popped
<1> QED
  BY <1>14, PopLinked DEF s

LEMMA popQueueLinked ==
    ASSUME TypeOK, NEW qs, Linked(buf, where, qs), Fits(qs), NEW q \in DOMAIN qs,
           popQueue(q), qs[q] # <<>>
    PROVE  Linked(buf', where', Shrunk(qs, q)) /\ Fits(Shrunk(qs, q))
<1> DEFINE s == qs[q]
           n == Len(s)
           t == Tail(s)
           b1 == WithNext(buf, head(q), buf[s[1]].next)
           b2 == WithPrev(b1, b1[s[1]].next, head(q))
           b3 == WithNext(b2, s[1], none)
           b4 == WithPrev(b3, s[1], none)
<1>1. q \in Queues /\ s \in Seq(Pids)
  BY DEF Fits
<1>2. /\ ~isEmpty(q) /\ firstPid(q) = s[1] /\ s[1] \in Pids /\ buf[s[1]].next = At(q, s, 2)
      /\ lastPid(q) = At(q, s, n)
  BY FirstPlace
<1>3. /\ buf' = b4
      /\ where' = [p \in Pids |-> IF p = s[1] THEN none ELSE where[p]]
  BY <1>2 DEF popQueue, Returned, WithNext, WithPrev
<1>4. n \in Nat \ {0} /\ \A i \in 1..n : At(q, t, i) = At(q, s, i + 1)
  BY <1>1, ShrunkPlaces
<1>4a. At(q, t, 0) = head(q)
  BY <1>1, ShrunkPlaces
<1>5. /\ \A i \in 0..n + 1 : At(q, s, i) \in Slots
      /\ At(q, s, n + 1) = tail(q)
      /\ \A i \in 0..n : At(q, s, i) # tail(q)
  BY <1>1, AtPlaces
<1>6. /\ head(q) \in Slots /\ tail(q) \in Slots /\ head(q) # tail(q)
      /\ s[1] \in Slots /\ s[1] # head(q) /\ s[1] # tail(q) /\ none \in Slots
  BY <1>1, <1>2, QueuesApart, SlotsLemma
<1>7. buf \in [Slots -> Node]
  BY DEF TypeOK
<1> HIDE DEF n, t, s
<1>8. 2 \in 0..n + 1 /\ At(q, s, 2) \in Slots
  BY <1>4, <1>5
<1>9. NextWritten(b1, buf, head(q), At(q, s, 2))
  BY <1>2, <1>6, <1>7, <1>8, LinkWritten
<1>9a. b1 \in [Slots -> Node] /\ b1[s[1]].next = At(q, s, 2)
  BY <1>2, <1>6, <1>9 DEF NextWritten
<1> HIDE DEF b1
<1>10. PrevWritten(b2, b1, At(q, s, 2), head(q))
  BY <1>6, <1>8, <1>9a, LinkWritten
<1>10a. b2 \in [Slots -> Node]
  BY <1>10 DEF PrevWritten
<1> HIDE DEF b2
<1>11. NextWritten(b3, b2, s[1], none)
  BY <1>6, <1>10a, LinkWritten
<1>11a. b3 \in [Slots -> Node]
  BY <1>11 DEF NextWritten
<1> HIDE DEF b3
<1>12. PrevWritten(b4, b3, s[1], none)
  BY <1>6, <1>11a, LinkWritten
<1> HIDE DEF b4
<1>13. \A x \in Slots : x # s[1] =>
         buf'[x].next = IF x = head(q) THEN At(q, s, 2) ELSE buf[x].next
  BY <1>3, <1>9, <1>10, <1>11, <1>12 DEF NextWritten, PrevWritten
<1>14. \A x \in Slots : x # s[1] =>
         buf'[x].prev = IF x = At(q, s, 2) THEN head(q) ELSE buf[x].prev
  BY <1>3, <1>9, <1>10, <1>11, <1>12 DEF NextWritten, PrevWritten
<1>15. buf'[tail(q)].prev = At(q, t, n - 1)
  <2>1. CASE n = 1
    <3>1. At(q, s, 2) = tail(q) /\ n - 1 = 0
      BY <1>5, <2>1
    <3> QED
      BY <1>4a, <1>6, <1>14, <3>1
  <2>2. CASE n # 1
    <3>1. n - 1 \in 1..n /\ (n - 1) + 1 = n /\ 2 \in 0..n
      BY <1>4, <2>2
    <3>2. At(q, s, 2) # tail(q)
      BY <1>5, <3>1
    <3>3. buf[tail(q)].prev = At(q, s, n)
      BY <1>2 DEF lastPid
    <3> QED
      BY <1>4, <1>6, <1>14, <3>1, <3>2, <3>3
  <2> QED
    BY <2>1, <2>2
<1>16. \A x \in Slots : x # s[1] /\ x # At(q, s, 2) => buf'[x].prev = buf[x].prev
  BY <1>14
<1>17. \A x \in Pids : x # s[1] => where'[x] = where[x]
  BY <1>3
<1>18. Popped(buf', buf, where', where, s, q)
  BY <1>13, <1>15, <1>16, <1>17 DEF n, t, Popped
<1> QED
  BY <1>18, PopLinked DEF s

-----------------------------------------------------------------------------
(* The keys, and the call of insert in progress. *)

LEMMA CreatedGrows ==
    ASSUME TypeOK, newQueue
    PROVE  /\ nextqid \in Queues => /\ nextqid \notin Created /\ Created' = Created \union {nextqid}
                                    /\ overrun' = overrun
           /\ nextqid \notin Queues => Created' = Created /\ overrun' /\ buf' = buf
<1>1. NPROC \in Nat
  BY SlotsLemma
<1>2. nextqid' = nextqid + 2 /\ ~overrun
  BY Zenon DEF newQueue, Called
<1>3. nextqid \in {NPROC, NPROC + 2, NPROC + 4, NPROC + 6} /\ nextqid # NPROC + 6
  BY <1>2 DEF TypeOK
<1>4. Created' = {q \in Queues : q < nextqid + 2}
  BY <1>2 DEF Created, Queues
<1>5. CASE nextqid = NPROC
  <2>1. Created = {} /\ Created' = {nextqid} /\ nextqid \in Queues
    BY <1>1, <1>4, <1>5 DEF Created, Queues
  <2> QED
    BY <2>1 DEF newQueue
<1>6. CASE nextqid = NPROC + 2
  <2>1. Created = {NPROC} /\ Created' = {NPROC, nextqid} /\ nextqid \in Queues
    BY <1>1, <1>4, <1>6 DEF Created, Queues
  <2> QED
    BY <1>1, <1>6, <2>1 DEF newQueue
<1>7. CASE nextqid = NPROC + 4
  <2>1. Created = Queues /\ Created' = Queues /\ nextqid \notin Queues
    BY <1>1, <1>4, <1>7 DEF Created, Queues
  <2> QED
    BY <2>1 DEF newQueue
<1> QED
  BY <1>3, <1>5, <1>6, <1>7

\* newQueue makes the links of an empty queue.
LEMMA newQueueWrites ==
    ASSUME TypeOK, newQueue, nextqid \in Queues
    PROVE  NewLinks(buf', buf, nextqid)
<1>1. buf' = NewWrites(buf, nextqid)
  BY DEF newQueue, NewWrites
<1> QED
  BY <1>1, NewWritten DEF TypeOK

SameKeys(c, b) == c \in [Slots -> Node] /\ \A x \in Slots : c[x].key = b[x].key

LEMMA KeysWritten ==
    ASSUME NEW b \in [Slots -> Node], NEW s \in Slots, NEW t \in Slots
    PROVE  SameKeys(WithNext(b, s, t), b) /\ SameKeys(WithPrev(b, s, t), b)
BY LinkWritten DEF NextWritten, PrevWritten, SameKeys

LEMMA pushKeys ==
    ASSUME NEW b \in [Slots -> Node], NEW o \in Slots, NEW p \in Slots, NEW t \in Slots
    PROVE  SameKeys(FourWrites(b, o, p, t), b)
BY FourWritten DEF FourLinks, SameKeys

LEMMA popQueueKeys ==
    ASSUME TypeOK, NEW q \in Queues, popQueue(q)
    PROVE  SameKeys(buf', buf)
<1>1. CASE isEmpty(q)
  BY <1>1 DEF popQueue, SameKeys, TypeOK
<1>2. CASE ~isEmpty(q)
  <2> DEFINE f == firstPid(q)
             b1 == WithNext(buf, head(q), buf[f].next)
             b2 == WithPrev(b1, b1[f].next, head(q))
             b3 == WithNext(b2, f, none)
             b4 == WithPrev(b3, f, none)
  <2>1. head(q) \in Slots /\ none \in Slots /\ buf \in [Slots -> Node]
    BY SlotsLemma DEF TypeOK
  <2>2. f \in Slots /\ buf[f].next \in Slots
    BY <2>1 DEF firstPid, Node
  <2>3. buf' = b4
    BY <1>2 DEF popQueue, WithNext, WithPrev
  <2> HIDE DEF f
  <2>4. SameKeys(b1, buf)
    BY <2>1, <2>2, KeysWritten
  <2>5. b1 \in [Slots -> Node] /\ b1[f].next \in Slots
    BY <2>2, <2>4 DEF SameKeys, Node
  <2> HIDE DEF b1
  <2>6. SameKeys(b2, b1)
    BY <2>1, <2>5, KeysWritten
  <2>7. b2 \in [Slots -> Node]
    BY <2>6 DEF SameKeys
  <2> HIDE DEF b2
  <2>8. SameKeys(b3, b2)
    BY <2>1, <2>2, <2>7, KeysWritten
  <2>9. b3 \in [Slots -> Node]
    BY <2>8 DEF SameKeys
  <2> HIDE DEF b3
  <2>10. SameKeys(b4, b3)
    BY <2>1, <2>2, <2>9, KeysWritten
  <2> HIDE DEF b4
  <2> QED
    BY <2>3, <2>4, <2>6, <2>8, <2>10 DEF SameKeys
<1> QED
  BY <1>1, <1>2

LEMMA takeFirstKeys ==
    ASSUME TypeOK, NEW q \in Queues, takeFirst(q)
    PROVE  SameKeys(buf', buf)
<1>1. CASE isEmpty(q)
  BY <1>1 DEF takeFirst, SameKeys, TypeOK
<1>2. CASE ~isEmpty(q)
  <2>1. head(q) \in Slots /\ buf \in [Slots -> Node]
    BY SlotsLemma DEF TypeOK
  <2>2. buf[firstPid(q)].next \in Slots
    BY <2>1 DEF firstPid, Node
  <2>3. buf' = WithNext(buf, head(q), buf[firstPid(q)].next)
    BY <1>2 DEF takeFirst, WithNext
  <2> QED
    BY <2>1, <2>2, <2>3, KeysWritten
<1> QED
  BY <1>1, <1>2

LEMMA pushQueueWrites ==
    ASSUME TypeOK, NEW q \in Queues, NEW p \in Pids, pushQueue(q, p)
    PROVE  /\ buf' = FourWrites(buf, buf[tail(q)].prev, p, tail(q))
           /\ where' = [where EXCEPT ![p] = q] /\ where[p] = none
BY DEF pushQueue, Unqueued, lastPid, FourWrites

LEMMA insertEndWrites ==
    ASSUME TypeOK, WalkKept, insertEnd
    PROVE  /\ buf' = FourWrites(buf, buf[walk.curr].prev, walk.proc, walk.curr)
           /\ where' = [where EXCEPT ![walk.proc] = walk.queue] /\ where[walk.proc] = none
           /\ walk.queue \in Created /\ walk.proc \in Pids
           /\ walk.curr \in Slots /\ buf[walk.curr].prev \in Slots
<1>1. walk.queue \in Created /\ walk.proc \in Pids /\ where[walk.proc] = none
  BY DEF WalkKept, insertEnd
<1>2. walk.curr \in Slots /\ buf[walk.curr].prev \in Slots
  BY DEF TypeOK, Node
<1> QED
  BY <1>1, <1>2 DEF insertEnd, FourWrites

LEMMA KeysStep ==
    ASSUME TypeOK, WalkKept, KeysKept, Next
    PROVE  KeysKept'
<1>1. ASSUME SameKeys(buf', buf), nextqid' = nextqid PROVE KeysKept'
  <2>1. Created' = Created
    BY <1>1 DEF Created, Queues
  <2>2. Pids \union {none} \subseteq Slots /\ \A q \in Created : tail(q) \in Slots
    BY SlotsLemma DEF Created
  <2> QED
    BY <1>1, <2>1, <2>2 DEF KeysKept, SameKeys
<1>2. CASE newQueue /\ nextqid \notin Queues
  BY <1>2, CreatedGrows DEF KeysKept
<1>3. CASE newQueue /\ nextqid \in Queues
  <2>1. NewLinks(buf', buf, nextqid) /\ Created' = Created \union {nextqid} /\ nextqid \notin Created
    BY <1>3, newQueueWrites, CreatedGrows
  <2>2. /\ tail(nextqid) \in Slots /\ Created \subseteq Queues
        /\ \A q \in Created : tail(q) \in Slots /\ tail(q) # tail(nextqid)
        /\ \A s \in Pids \union {none} : s \in Slots /\ s # tail(nextqid)
    BY <1>3, <2>1, SlotsLemma, QueuesApart DEF Created
  <2> QED
    BY <2>1, <2>2 DEF KeysKept, NewLinks
<1>4. ASSUME NEW q \in Created,
             popQueue(q) \/ popFirst(q) \/ popLast(q) \/ \E p \in Pids :
                 pushQueue(q, p) \/ \E k \in Keys : insertBegin(q, p, k)
      PROVE  KeysKept'
  <2> q \in Queues
    BY DEF Created
  <2>1. CASE popQueue(q)
    BY <1>1, <2>1, popQueueKeys DEF popQueue
  <2>2. CASE popFirst(q) \/ popLast(q)
    BY <1>1, <2>2, takeFirstKeys DEF takeFirst, popFirst, popLast
  <2>3. ASSUME NEW p \in Pids, pushQueue(q, p) PROVE KeysKept'
    <3>1. tail(q) \in Slots /\ p \in Slots /\ buf[tail(q)].prev \in Slots /\ buf \in [Slots -> Node]
      BY SlotsLemma DEF TypeOK, Node
    <3>2. SameKeys(buf', buf)
      BY <2>3, <3>1, pushQueueWrites, pushKeys
    <3> QED
      BY <1>1, <2>3, <3>2 DEF pushQueue
  <2>4. ASSUME NEW p \in Pids, NEW k \in Keys, insertBegin(q, p, k) PROVE KeysKept'
    BY <2>4, Zenon DEF insertBegin, KeysKept, Created, Queues, tail
  <2> QED
    BY <1>4, <2>1, <2>2, <2>3, <2>4
<1>5. CASE insertStep
  BY <1>5, Zenon DEF insertStep, KeysKept, Created, Queues, tail
<1>6. CASE insertEnd
  <2>1. SameKeys(buf', buf)
    BY <1>6, SlotsLemma, insertEndWrites, pushKeys DEF TypeOK
  <2> QED
    BY <1>1, <1>6, <2>1 DEF insertEnd
<1> QED
  BY <1>2, <1>3, <1>4, <1>5, <1>6 DEF Next

LEMMA HoldsFits ==
    ASSUME NEW qs \in [Created -> Seq(Pids)]
    PROVE  Fits(qs) /\ DOMAIN qs = Created
BY DEF Fits, Created

\* What a walk compares with at the head of a queue.
LEMMA FirstKey ==
    ASSUME TypeOK, KeysKept, NEW qs, Linked(buf, where, qs), Fits(qs),
           NEW q \in DOMAIN qs, q \in Created
    PROVE  IF isEmpty(q) THEN buf[firstPid(q)].key = MaxKey ELSE buf[firstPid(q)].key = 0
<1>1. CASE isEmpty(q)
  BY <1>1 DEF isEmpty, KeysKept
<1>2. CASE ~isEmpty(q)
  BY <1>2, FirstPlace DEF KeysKept
<1> QED
  BY <1>1, <1>2

LEMMA WalkStep ==
    ASSUME QueueInv, Next
    PROVE  WalkKept'
<1>1. ASSUME walk' = idle PROVE WalkKept'
  BY <1>1, Zenon DEF WalkKept, idle
<1>2. CASE newQueue
  BY <1>1, <1>2 DEF newQueue, Called
<1>3. ASSUME NEW q \in Created, popQueue(q) PROVE WalkKept'
  BY <1>1, <1>3 DEF popQueue, Called
<1>4. ASSUME NEW q \in Created, popFirst(q) \/ popLast(q) PROVE WalkKept'
  BY <1>1, <1>4 DEF takeFirst, popFirst, popLast, Called
<1>5. ASSUME NEW q \in Created, NEW p \in Pids, pushQueue(q, p) PROVE WalkKept'
  BY <1>1, <1>5 DEF pushQueue, Called
<1>6. ASSUME NEW q \in Created, NEW p \in Pids, NEW k \in Keys, insertBegin(q, p, k) PROVE WalkKept'
  <2>1. /\ walk' = [proc |-> p, queue |-> q, key |-> k, curr |-> head(q)]
        /\ ~overrun' /\ Created' = Created /\ where' = where /\ where[p] = none
    BY <1>6 DEF insertBegin, Called, Unqueued, Created, Queues
  <2>2. walk'.proc = p /\ walk'.queue = q /\ walk'.curr = head(q) /\ head(q) = head(q)'
    BY <2>1 DEF head
  <2> QED
    BY <2>1, <2>2 DEF WalkKept, head
<1>7. CASE insertStep
  <2> DEFINE q == walk.queue
  <2>1. /\ walk # idle /\ WalksOn /\ walk' = [walk EXCEPT !.curr = buf[walk.curr].next]
        /\ UNCHANGED <<buf, nextqid, where, overrun, spoiled, wrongEnd>>
    BY <1>7, Zenon DEF insertStep
  <2>2. /\ walk'.queue = q /\ walk'.proc = walk.proc /\ walk'.key = walk.key
        /\ walk'.curr = buf[walk.curr].next /\ Created' = Created
    BY <2>1 DEF QueueInv, TypeOK, Created, Queues
  <2>3. ~overrun /\ q \in Created /\ walk.proc \in Pids /\ where[walk.proc] = none
    BY <2>1 DEF QueueInv, WalkKept
  <2>4. ASSUME walk.key > 0, ~spoiled
        PROVE  walk.curr = head(q) /\ buf[walk.curr].next = tail(q) /\ isEmpty(q)
    <3>1. PICK qs \in [Created -> Seq(Pids)] : Linked(buf, where, qs)
      BY <2>4 DEF QueueInv
    <3>2. Fits(qs) /\ q \in DOMAIN qs
      BY <2>3, HoldsFits
    <3>3. walk.key <= buf[buf[walk.curr].next].key /\ walk.key \in Nat
      BY <2>1 DEF WalksOn, QueueInv, TypeOK
    <3>4. walk.curr = head(q) \/ (walk.curr = tail(q) /\ isEmpty(q))
      BY <2>1, <2>4 DEF QueueInv, WalkKept
    <3>5. walk.curr # tail(q)
      <4>1. buf[tail(q)].next = none
        BY <3>1, <3>2, ChainLinks
      <4>2. buf[none].key = 0
        BY DEF QueueInv, KeysKept
      <4> QED
        BY <2>4, <3>3, <4>1, <4>2
    <3>6. walk.curr = head(q)
      BY <3>4, <3>5
    <3>7. IF isEmpty(q) THEN buf[firstPid(q)].key = MaxKey ELSE buf[firstPid(q)].key = 0
      BY <2>3, <3>1, <3>2, FirstKey DEF QueueInv
    <3>8. isEmpty(q)
      BY <2>4, <3>3, <3>6, <3>7 DEF firstPid
    <3> QED
      BY <3>6, <3>8 DEF isEmpty, firstPid
  <2>5. isEmpty(q) => (isEmpty(q))'
    BY <2>1, <2>2 DEF isEmpty, firstPid, head, tail
  <2>6. walk'.key > 0 /\ ~spoiled' => walk'.curr = tail(walk'.queue) /\ isEmpty(walk.queue)'
    BY <2>1, <2>2, <2>4, <2>5
  <2> QED
    BY <2>1, <2>2, <2>3, <2>6 DEF WalkKept, tail
<1>8. CASE insertEnd
  BY <1>1, <1>8 DEF insertEnd
<1> QED
  BY <1>2, <1>3, <1>4, <1>5, <1>6, <1>7, <1>8 DEF Next

\* Where insert puts its process.
LEMMA insertEndPlace ==
    ASSUME QueueInv, insertEnd, ~spoiled
    PROVE  \/ walk.curr = head(walk.queue)
           \/ walk.curr = tail(walk.queue)
<1>1. walk # idle /\ ~(walk.key <= buf[buf[walk.curr].next].key)
  BY DEF insertEnd, WalksOn
<1>2. walk.curr \in Slots /\ buf \in [Slots -> Node] /\ walk.key \in 0..MaxKey
  BY <1>1 DEF QueueInv, TypeOK
<1>3. buf[walk.curr].next \in Slots
  BY <1>2 DEF Node
<1>4. buf[buf[walk.curr].next].key \in 0..MaxKey
  BY <1>2, <1>3 DEF Node
<1>5. walk.key > 0
  BY <1>1, <1>2, <1>4, SlotsLemma
<1> QED
  BY <1>1, <1>5 DEF QueueInv, WalkKept

-----------------------------------------------------------------------------
(* Every step is a step of the queues. *)

\* What a step may make of the queues.
Extended(qs, q) == [r \in DOMAIN qs \union {q} |-> IF r = q THEN <<>> ELSE qs[r]]
Pushed(qs, q, p) == [r \in DOMAIN qs |-> IF r = q THEN Grown(qs[q], p) ELSE qs[r]]

FifoStep(qs, more) ==
    \/ more = qs
    \/ \E q \in Queues : q \notin DOMAIN qs /\ more = Extended(qs, q)
    \/ \E q \in DOMAIN qs, p \in Pids : ~On(qs, p) /\ more = Pushed(qs, q, p)
    \/ \E q \in DOMAIN qs : qs[q] # <<>> /\ more = Shrunk(qs, q)

Leads(qs) == \E more \in [Created' -> Seq(Pids)] : Linked(buf', where', more) /\ FifoStep(qs, more)

\* The table and the queues as they were.
LEMMA SameLeads ==
    ASSUME NEW qs \in [Created -> Seq(Pids)], Linked(buf, where, qs),
           buf' = buf, where' = where, Created' = Created
    PROVE  Leads(qs)
BY DEF Leads, FifoStep

LEMMA newQueueLeads ==
    ASSUME TypeOK, newQueue, nextqid \in Queues,
           NEW qs \in [Created -> Seq(Pids)], Linked(buf, where, qs)
    PROVE  Leads(qs)
<1> DEFINE more == Extended(qs, nextqid)
<1>1. Fits(qs) /\ DOMAIN qs = Created
  BY HoldsFits
<1>2. NewLinks(buf', buf, nextqid) /\ nextqid \notin Created /\ Created' = Created \union {nextqid}
  BY newQueueWrites, CreatedGrows
<1>3. where' = where
  BY DEF newQueue
<1>4. more = [r \in DOMAIN qs \union {nextqid} |-> IF r = nextqid THEN <<>> ELSE qs[r]]
  BY DEF Extended
<1> HIDE DEF more
<1>5. Linked(buf', where, more) /\ Fits(more)
  BY <1>1, <1>2, <1>4, CreateLinked
<1>6. more \in [Created' -> Seq(Pids)]
  <2>1. \A r \in Created' : (IF r = nextqid THEN <<>> ELSE qs[r]) \in Seq(Pids)
    BY <1>2
  <2> QED
    BY <1>1, <1>2, <1>4, <2>1
<1>7. FifoStep(qs, more)
  BY <1>1, <1>2 DEF FifoStep, more
<1> QED
  BY <1>3, <1>5, <1>6, <1>7 DEF Leads

\* A process put before the tail of a queue.
LEMMA AddedLeads ==
    ASSUME TypeOK, NEW qs \in [Created -> Seq(Pids)], Linked(buf, where, qs),
           NEW q \in Created, NEW p \in Pids, where[p] = none,
           buf' = FourWrites(buf, buf[tail(q)].prev, p, tail(q)),
           where' = [where EXCEPT ![p] = q], nextqid' = nextqid
    PROVE  Leads(qs)
<1> DEFINE more == Pushed(qs, q, p)
<1>1. Fits(qs) /\ DOMAIN qs = Created /\ Created' = Created
  BY HoldsFits DEF Created, Queues
<1>2. more = [r \in DOMAIN qs |-> IF r = q THEN Grown(qs[q], p) ELSE qs[r]]
  BY DEF Pushed
<1>3. buf \in [Slots -> Node] /\ where \in [Pids -> Queues \union {none}]
  BY DEF TypeOK
<1> HIDE DEF more
<1>4. Linked(buf', where', more) /\ Fits(more)
  BY <1>1, <1>2, <1>3, PushLinked, ZenonT(60)
<1>5. more \in [Created' -> Seq(Pids)]
  BY <1>1, <1>2, <1>4 DEF Fits
<1>6. ~On(qs, p)
  BY DEF Linked, On
<1>7. FifoStep(qs, more)
  BY <1>1, <1>6 DEF FifoStep, more
<1> QED
  BY <1>4, <1>5, <1>7 DEF Leads

LEMMA ShrunkLeads ==
    ASSUME NEW qs \in [Created -> Seq(Pids)], NEW q \in Created, qs[q] # <<>>,
           Linked(buf', where', Shrunk(qs, q)), Fits(Shrunk(qs, q)), nextqid' = nextqid
    PROVE  Leads(qs)
<1> DEFINE more == Shrunk(qs, q)
<1>1. DOMAIN qs = Created /\ Created' = Created
  BY HoldsFits DEF Created, Queues
<1>2. more = [r \in Created |-> IF r = q THEN Tail(qs[q]) ELSE qs[r]]
  BY <1>1 DEF Shrunk
<1> HIDE DEF more
<1>3. Fits(more) /\ Linked(buf', where', more)
  BY DEF more
<1>4. more \in [Created' -> Seq(Pids)]
  BY <1>1, <1>2, <1>3 DEF Fits
<1>5. FifoStep(qs, more)
  BY <1>1 DEF FifoStep, more
<1> QED
  BY <1>3, <1>4, <1>5 DEF Leads

LEMMA popLeads ==
    ASSUME TypeOK, NEW qs \in [Created -> Seq(Pids)], Linked(buf, where, qs),
           NEW q \in Created, popQueue(q) \/ (takeFirst(q) /\ ~spoiled')
    PROVE  Leads(qs)
<1>1. Fits(qs) /\ DOMAIN qs = Created /\ (isEmpty(q) <=> qs[q] = <<>>)
  BY HoldsFits, FirstPlace
<1>2. nextqid' = nextqid
  BY Zenon DEF popQueue, takeFirst
<1>3. CASE qs[q] = <<>>
  <2>1. buf' = buf /\ where' = where
    BY <1>1, <1>3, Zenon DEF popQueue, takeFirst
  <2>2. Created' = Created
    BY <1>2 DEF Created, Queues
  <2> QED
    BY <2>1, <2>2, SameLeads
<1>4. CASE qs[q] # <<>>
  BY <1>1, <1>2, <1>4, popQueueLinked, takeFirstLinked, ShrunkLeads
<1> QED
  BY <1>3, <1>4

LEMMA insertEndLeads ==
    ASSUME QueueInv, insertEnd, NEW qs \in [Created -> Seq(Pids)], Linked(buf, where, qs), ~spoiled
    PROVE  Leads(qs)
<1> DEFINE q == walk.queue
           p == walk.proc
<1>1. /\ buf' = FourWrites(buf, buf[walk.curr].prev, p, walk.curr)
      /\ where' = [where EXCEPT ![p] = q] /\ where[p] = none
      /\ q \in Created /\ p \in Pids
  BY insertEndWrites DEF QueueInv
<1>2. /\ nextqid' = nextqid /\ TypeOK
      /\ buf \in [Slots -> Node] /\ where \in [Pids -> Queues \union {none}]
  BY DEF insertEnd, QueueInv, TypeOK
<1>3. Fits(qs) /\ DOMAIN qs = Created /\ Created' = Created
  BY <1>2, HoldsFits DEF Created, Queues
<1>4. walk.curr = head(q) \/ walk.curr = tail(q)
  BY insertEndPlace
<1> HIDE DEF p, q
<1>5. CASE walk.curr = tail(q)
  BY <1>1, <1>2, <1>5, AddedLeads
<1>6. CASE walk.curr = head(q)
  <2>1. Linked(buf', where', qs)
    BY <1>1, <1>2, <1>3, <1>6, LoseLinked
  <2> QED
    BY <1>3, <2>1 DEF Leads, FifoStep
<1> QED
  BY <1>4, <1>5, <1>6

LEMMA StepLeads ==
    ASSUME QueueInv, Next, ~spoiled, ~spoiled',
           NEW qs \in [Created -> Seq(Pids)], Linked(buf, where, qs)
    PROVE  Leads(qs)
<1>1. TypeOK
  BY DEF QueueInv
<1>2. CASE newQueue
  <2>1. CASE nextqid \in Queues
    BY <1>1, <1>2, <2>1, newQueueLeads
  <2>2. CASE nextqid \notin Queues
    <3>1. buf' = buf /\ where' = where /\ Created' = Created
      BY <1>1, <1>2, <2>2, CreatedGrows DEF newQueue
    <3> QED
      BY <3>1, SameLeads
  <2> QED
    BY <2>1, <2>2
<1>3. ASSUME NEW q \in Created, popQueue(q) \/ popFirst(q) \/ popLast(q) PROVE Leads(qs)
  BY <1>1, <1>3, popLeads DEF popFirst, popLast
<1>4. ASSUME NEW q \in Created, NEW p \in Pids, pushQueue(q, p) PROVE Leads(qs)
  <2>1. q \in Queues /\ nextqid' = nextqid
    BY <1>4 DEF Created, pushQueue
  <2> QED
    BY <1>1, <1>4, <2>1, pushQueueWrites, AddedLeads
<1>5. ASSUME NEW q \in Created, NEW p \in Pids, NEW k \in Keys, insertBegin(q, p, k) PROVE Leads(qs)
  <2>1. buf' = buf /\ where' = where /\ Created' = Created
    BY <1>5, Zenon DEF insertBegin, Created, Queues
  <2> QED
    BY <2>1, SameLeads
<1>6. CASE insertStep
  <2>1. buf' = buf /\ where' = where /\ Created' = Created
    BY <1>6, Zenon DEF insertStep, Created, Queues
  <2> QED
    BY <2>1, SameLeads
<1>7. CASE insertEnd
  BY <1>7, insertEndLeads
<1> QED
  BY <1>2, <1>3, <1>4, <1>5, <1>6, <1>7 DEF Next

-----------------------------------------------------------------------------
(* The invariant. *)

LEMMA LostStays ==
    ASSUME Next, TypeOK
    PROVE  (spoiled => spoiled') /\ (Lost => Lost')
<1> DEFINE Stays == (spoiled => spoiled') /\ (wrongEnd => wrongEnd' \/ spoiled')
                    /\ (overrun => overrun')
<1>1. ASSUME newQueue PROVE Stays
  BY <1>1 DEF newQueue, Called
<1>2. ASSUME NEW q \in Created, popQueue(q) PROVE Stays
  BY <1>2, Zenon DEF popQueue
<1>3. ASSUME NEW q \in Created, popFirst(q) \/ popLast(q) PROVE Stays
  <2>1. takeFirst(q) /\ overrun' = overrun
    BY <1>3, Zenon DEF popFirst, popLast, takeFirst
  <2>2. wrongEnd => wrongEnd' \/ spoiled'
    BY <1>3, Zenon DEF popFirst, popLast
  <2>3. CASE isEmpty(q)
    <3>1. UNCHANGED <<buf, where, spoiled>>
      BY <2>1, <2>3, Zenon DEF takeFirst
    <3> QED
      BY <2>1, <2>2, <3>1, Zenon
  <2>4. CASE ~isEmpty(q)
    <3>1. spoiled' = (spoiled \/ buf[firstPid(q)].next = tail(q))
      BY <2>1, <2>4, Zenon DEF takeFirst
    <3> QED
      BY <2>1, <2>2, <3>1, Zenon
  <2> QED
    BY <2>3, <2>4, Zenon
<1>4. ASSUME NEW q \in Created, NEW p \in Pids, pushQueue(q, p) PROVE Stays
  BY <1>4, Zenon DEF pushQueue
<1>5. ASSUME NEW q \in Created, NEW p \in Pids, NEW k \in Keys, insertBegin(q, p, k) PROVE Stays
  BY <1>5, Zenon DEF insertBegin
<1>6. ASSUME insertStep PROVE Stays
  BY <1>6, Zenon DEF insertStep
<1>7. ASSUME insertEnd PROVE Stays
  <2>1. UNCHANGED <<nextqid, overrun, spoiled, wrongEnd>>
    BY <1>7, Zenon DEF insertEnd
  <2> QED
    BY <2>1, Zenon
<1> HIDE DEF Stays
<1>8. Stays
  BY <1>1, <1>2, <1>3, <1>4, <1>5, <1>6, <1>7, Zenon DEF Next
<1> QED
  BY <1>8, Zenon DEF Stays, Lost

LEMMA InitQueueInv == Init => QueueInv
<1> SUFFICES ASSUME Init PROVE QueueInv
  OBVIOUS
<1>1. TypeOK
  BY InitTypeOK
<1>2. Created = {}
  BY SlotsLemma DEF Init, Created, Queues
<1>3. KeysKept
  <2>1. \A s \in Pids \union {none} : s \in Slots
    BY SlotsLemma
  <2> QED
    BY <1>2, <2>1 DEF KeysKept, Init
<1>4. WalkKept
  BY DEF WalkKept, Init
<1> DEFINE qs == [q \in Created |-> <<>>]
<1>5. qs \in [Created -> Seq(Pids)] /\ DOMAIN qs = {}
  BY <1>2
<1>6. Linked(buf, where, qs)
  BY <1>5 DEF Linked
<1> QED
  BY <1>1, <1>3, <1>4, <1>5, <1>6 DEF QueueInv

LEMMA QueueInvStep ==
    ASSUME QueueInv, [Next]_vars
    PROVE  QueueInv'
<1>1. CASE Next
  <2>1. TypeOK'
    BY <1>1, StepTypeOK DEF QueueInv
  <2>2. KeysKept' /\ WalkKept'
    BY <1>1, KeysStep, WalkStep DEF QueueInv
  <2>3. ASSUME ~spoiled' PROVE \E qs \in [Created' -> Seq(Pids)] : Linked(buf', where', qs)
    <3>1. ~spoiled
      BY <1>1, <2>3, LostStays DEF QueueInv
    <3>2. PICK qs \in [Created -> Seq(Pids)] : Linked(buf, where, qs)
      BY <3>1 DEF QueueInv
    <3>3. Leads(qs)
      BY <1>1, <2>3, <3>1, <3>2, StepLeads
    <3> QED
      BY <3>3 DEF Leads
  <2>4. (~spoiled => \E qs \in [Created -> Seq(Pids)] : Linked(buf, where, qs))'
    BY <2>3
  <2> QED
    BY <2>1, <2>2, <2>4 DEF QueueInv
<1>2. CASE UNCHANGED vars
  BY <1>2, Zenon DEF vars, QueueInv, TypeOK, Node, KeysKept, WalkKept, Created, Queues,
     isEmpty, firstPid, head, tail
<1> QED
  BY <1>1, <1>2

\* As long as popFirst and popLast have not taken the only process of a queue, the table
\* is a set of disjoint doubly linked queues, whatever the size of the table and the keys:
\* following the links from a head visits its processes in order and ends at its own tail,
\* the tail links back to the last of them, none of them is a process callers think is on
\* no queue, and the link before a head leads to a process insert has put there
\* (queuetable.cpp:5-94).  A walk of insert with a key above 0 stands at the head, or at
\* the tail of an empty queue.
THEOREM QueueInvariant == Spec => []QueueInv
<1>1. QueueInv /\ [Next]_vars => QueueInv'
  BY QueueInvStep
<1> QED
  BY InitQueueInv, <1>1, PTL DEF Spec

LEMMA ContentsRight ==
    ASSUME NEW b, NEW w, NEW qs, Linked(b, w, qs), Fits(qs), NEW q \in DOMAIN qs
    PROVE  LengthsOn(b, q) # {} /\ ContentsOn(b, q) = qs[q]
<1>1. q \in Queues /\ qs[q] \in Seq(Pids)
  BY DEF Fits
<1>2. Chain(b, q, qs[q]) /\ \A i, j \in 1..Len(qs[q]) : qs[q][i] = qs[q][j] => i = j
  BY DEF Linked
<1> QED
  BY <1>1, <1>2, LinkedContents

\* The tail of every queue links back to the last process its links reach, or to its head
\* (queuetable.cpp:29): what pushQueue and insert rely on.
THEOREM TailKnown == Spec => []TailIsLast
<1>1. QueueInv => TailIsLast
  <2> SUFFICES ASSUME QueueInv, ~spoiled, NEW q \in Created
               PROVE  /\ Lengths(q) # {}
                      /\ lastPid(q) = IF isEmpty(q) THEN head(q) ELSE Last(Contents(q))
    BY DEF TailIsLast
  <2>1. PICK qs \in [Created -> Seq(Pids)] : Linked(buf, where, qs)
    BY DEF QueueInv
  <2>2. Fits(qs) /\ q \in DOMAIN qs
    BY HoldsFits
  <2>3. Lengths(q) # {} /\ Contents(q) = qs[q]
    BY <2>1, <2>2, ContentsNow, ContentsRight
  <2>4. lastPid(q) = At(q, qs[q], Len(qs[q])) /\ (isEmpty(q) <=> qs[q] = <<>>)
    BY <2>1, <2>2, FirstPlace
  <2>5. q \in Queues /\ qs[q] \in Seq(Pids) /\ (qs[q] = <<>> <=> Len(qs[q]) = 0)
    BY <2>2 DEF Fits
  <2>6. At(q, qs[q], 0) = head(q) /\ Len(qs[q]) \in Nat
        /\ \A i \in 1..Len(qs[q]) : At(q, qs[q], i) = qs[q][i]
    BY <2>5, AtPlaces
  <2>7. CASE isEmpty(q)
    BY <2>3, <2>4, <2>5, <2>6, <2>7
  <2>8. CASE ~isEmpty(q)
    <3>1. Len(qs[q]) \in 1..Len(qs[q])
      BY <2>4, <2>5, <2>6, <2>8
    <3> QED
      BY <2>3, <2>4, <2>6, <2>8, <3>1 DEF Last
  <2> QED
    BY <2>7, <2>8
<1> QED
  BY <1>1, QueueInvariant, PTL

-----------------------------------------------------------------------------
(* The table implements its promise. *)

AllContents == [q \in Created |-> Contents(q)]

LEMMA ContentsAre ==
    ASSUME NEW qs \in [Created -> Seq(Pids)], Linked(buf, where, qs)
    PROVE  AllContents = qs
<1>1. Fits(qs) /\ DOMAIN qs = Created
  BY HoldsFits
<1>2. \A q \in Created : Contents(q) = qs[q]
  BY <1>1, ContentsNow, ContentsRight
<1> QED
  BY <1>1, <1>2 DEF AllContents

LEMMA ContentsBecome ==
    ASSUME NEW qs \in [Created' -> Seq(Pids)], Linked(buf', where', qs)
    PROVE  AllContents' = qs
<1>1. DOMAIN qs = Created' /\ Fits(qs)
  BY DEF Fits, Created, Queues
<1>2. ASSUME NEW q \in Created' PROVE Contents(q)' = qs[q]
  <2>1. Contents(q)' = ContentsOn(buf', q)
    BY ContentsNow
  <2>2. ContentsOn(buf', q) = qs[q]
    BY <1>1, ContentsRight
  <2> QED
    BY <2>1, <2>2
<1>3. AllContents' = [q \in Created' |-> Contents(q)']
  BY DEF AllContents
<1> QED
  BY <1>1, <1>2, <1>3

LEMMA StepRefines ==
    ASSUME QueueInv, [Next]_vars
    PROVE  [Abstract!Next]_(Abstract!vars)
<1>1. CASE UNCHANGED vars
  <2>1. Created' = Created /\ AllContents' = AllContents
    <3>1. Created' = Created /\ buf' = buf
      BY <1>1, Zenon DEF vars, Created, Queues
    <3>2. ASSUME NEW q PROVE Contents(q)' = Contents(q)
      BY <3>1, ContentsNow
    <3>3. AllContents' = [q \in Created' |-> Contents(q)']
      BY DEF AllContents
    <3> QED
      BY <3>1, <3>2, <3>3 DEF AllContents
  <2>2. Lost' = Lost
    BY <1>1, Zenon DEF vars, Lost
  <2> QED
    BY <2>1, <2>2 DEF Abstract!vars, AllContents
<1>2. CASE Next /\ Lost
  <2>1. Lost'
    BY <1>2, LostStays DEF QueueInv
  <2> QED
    BY <1>2, <2>1 DEF Abstract!vars
<1>3. CASE Next /\ ~Lost /\ Lost'
  BY <1>3 DEF Abstract!Next, Abstract!GiveUp
<1>4. CASE Next /\ ~Lost /\ ~Lost'
  <2>0. ~spoiled /\ ~spoiled'
    BY <1>4 DEF Lost
  <2>1. PICK qs \in [Created -> Seq(Pids)] : Linked(buf, where, qs)
    BY <2>0 DEF QueueInv
  <2>2. PICK more \in [Created' -> Seq(Pids)] : Linked(buf', where', more) /\ FifoStep(qs, more)
    BY <1>4, <2>0, <2>1, StepLeads DEF Leads
  <2>3. AllContents = qs /\ AllContents' = more /\ DOMAIN qs = Created
    BY <2>1, <2>2, ContentsAre, ContentsBecome
  <2> DEFINE queues == IF Lost THEN <<>> ELSE [q \in Created |-> Contents(q)]
             queues2 == IF Lost' THEN <<>> ELSE [q \in Created' |-> Contents(q)']
  <2>4. queues = qs /\ queues2 = more
    BY <1>4, <2>3 DEF AllContents
  <2> HIDE DEF queues, queues2
  <2>5. CASE more = qs
    BY <1>4, <2>4, <2>5 DEF Abstract!vars, queues, queues2
  <2>6. ASSUME NEW q \in Queues, q \notin DOMAIN qs, more = Extended(qs, q)
        PROVE  Abstract!Next
    <3>1. /\ q \in Queues \ DOMAIN queues
          /\ queues2 = [r \in DOMAIN queues \union {q} |-> IF r = q THEN <<>> ELSE queues[r]]
      BY <2>4, <2>6 DEF Extended
    <3>2. Abstract!Create
      BY <3>1, Zenon DEF Abstract!Create, queues, queues2
    <3> QED
      BY <1>4, <3>2 DEF Abstract!Next
  <2>7. ASSUME NEW q \in DOMAIN qs, NEW p \in Pids, ~On(qs, p), more = Pushed(qs, q, p)
        PROVE  Abstract!Next
    <3>1. ~Abstract!OnSomeQueue(p)
      <4>1. \A r \in DOMAIN queues : p \notin Abstract!ToSet(queues[r])
        <5> SUFFICES ASSUME NEW r \in DOMAIN qs PROVE p \notin Abstract!ToSet(qs[r])
          BY <2>4
        <5>1. DOMAIN qs[r] = 1..Len(qs[r])
          OBVIOUS
        <5> QED
          BY <2>7, <5>1 DEF On, Abstract!ToSet
      <4> QED
        BY <4>1, Zenon DEF Abstract!OnSomeQueue, queues
    <3>2. more = [qs EXCEPT ![q] = Append(@, p)]
      BY <2>7 DEF Pushed, Grown
    <3>3. Abstract!Push
      <4>1. q \in DOMAIN queues /\ queues2 = [queues EXCEPT ![q] = Append(@, p)]
        BY <2>4, <3>2
      <4> QED
        BY <3>1, <4>1, Zenon DEF Abstract!Push, queues, queues2
    <3> QED
      BY <1>4, <3>3 DEF Abstract!Next
  <2>8. ASSUME NEW q \in DOMAIN qs, qs[q] # <<>>, more = Shrunk(qs, q)
        PROVE  Abstract!Next
    <3>1. more = [qs EXCEPT ![q] = Tail(@)]
      BY <2>8 DEF Shrunk
    <3>2. Abstract!PopFirst
      <4>1. q \in DOMAIN queues /\ queues[q] # <<>> /\ queues2 = [queues EXCEPT ![q] = Tail(@)]
        BY <2>4, <2>8, <3>1
      <4> QED
        BY <4>1, Zenon DEF Abstract!PopFirst, queues, queues2
    <3> QED
      BY <1>4, <3>2 DEF Abstract!Next
  <2> QED
    BY <2>2, <2>5, <2>6, <2>7, <2>8 DEF FifoStep
<1> QED
  BY <1>1, <1>2, <1>3, <1>4

LEMMA InitRefines == Init => Abstract!Init
<1> SUFFICES ASSUME Init PROVE Abstract!Init
  OBVIOUS
<1>1. Created = {} /\ ~Lost
  BY SlotsLemma DEF Init, Created, Queues, Lost
<1>2. [q \in Created |-> Contents(q)] = <<>>
  BY <1>1
<1> QED
  BY <1>1, <1>2 DEF Abstract!Init

\* The table is a set of first-in first-out queues that never hold a process twice:
\* pushQueue appends, popQueue and popFirst take the oldest, and insert appends to an
\* empty queue or leaves every queue as it was (queuetable.cpp:5-94).  The promise ends
\* when popFirst or popLast takes the only process of a queue, when popLast takes another
\* process than the last, or when a third queue is made.  popLast never keeps it: each
\* of its calls on a queue that is not empty ends it (PopLastEndsPromise).
THEOREM TableIsFifo == Spec => ImplementsFifo
<1>1. QueueInv /\ [Next]_vars => [Abstract!Next]_(Abstract!vars)
  BY StepRefines
<1> QED
  BY InitRefines, <1>1, QueueInvariant, PTL DEF Spec, ImplementsFifo, Abstract!Spec

LEMMA popLastLoses ==
    ASSUME QueueInv, NEW q \in Created, popLast(q), ~isEmpty(q)
    PROVE  Lost'
<1> SUFFICES ASSUME ~spoiled' PROVE wrongEnd'
  BY DEF Lost
<1>1. spoiled' = (spoiled \/ buf[firstPid(q)].next = tail(q)) /\ ~spoiled'
  BY Zenon DEF popLast, takeFirst
<1>2. buf[firstPid(q)].next # tail(q) /\ ~spoiled
  BY <1>1, Zenon
<1>3. PICK qs \in [Created -> Seq(Pids)] : Linked(buf, where, qs)
  BY <1>2 DEF QueueInv
<1>4. Fits(qs) /\ q \in DOMAIN qs /\ q \in Queues
  BY HoldsFits DEF Created
<1>5. qs[q] \in Seq(Pids)
  BY <1>4 DEF Fits
<1>6. lastPid(q) = At(q, qs[q], Len(qs[q])) /\ Len(qs[q]) \in 0..Len(qs[q])
  BY <1>3, <1>4, <1>5, FirstPlace
<1>7. buf[lastPid(q)].next = At(q, qs[q], Len(qs[q]) + 1)
  BY <1>3, <1>4, <1>6 DEF Linked, Chain
<1>8. buf[lastPid(q)].next = tail(q)
  BY <1>4, <1>5, <1>7, AtPlaces
<1>9. firstPid(q) # lastPid(q)
  BY <1>2, <1>8, Zenon
<1> QED
  BY <1>9, Zenon DEF popLast

\* popLast takes the process it is named for only from a queue that has one, and then it
\* leaves the tail pointing to it (queuetable.cpp:16-25): no call of it on a queue that is
\* not empty is one of the abstract queues' steps.
THEOREM PopLastEndsPromise ==
    Spec => [][\A q \in Created : popLast(q) /\ ~isEmpty(q) => Lost']_vars
<1>1. QueueInv => \A q \in Created : popLast(q) /\ ~isEmpty(q) => Lost'
  BY popLastLoses
<1> QED
  BY <1>1, QueueInvariant, PTL DEF Spec
=============================================================================
