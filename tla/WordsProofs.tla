---------------------------- MODULE WordsProofs -----------------------------
(***************************************************************************)
(* Proofs about Words, for every word: what the routines take apart, they  *)
(* or the processor put together again.  Each proof says which bits the    *)
(* shifts and masks bring where.                                           *)
(***************************************************************************)
EXTENDS Words, TLAPS

LEMMA ShlBits ==
    ASSUME NEW w \in Word, NEW n \in Nat, NEW b \in Int
    PROVE  b \in Shl(w, n) <=> b < 64 /\ b - n \in w
<1>1. w \subseteq 0..63
    BY DEF Word, Low
<1>2. ASSUME b \in Shl(w, n) PROVE b < 64 /\ b - n \in w
  <2>1. PICK c \in {d \in w : d + n < 64} : b = c + n
      BY <1>2 DEF Shl
  <2> QED
      BY <1>1, <2>1
<1>3. ASSUME b < 64, b - n \in w PROVE b \in Shl(w, n)
  <2>1. b - n \in {d \in w : d + n < 64} /\ b = (b - n) + n
      BY <1>1, <1>3
  <2> QED
      BY <2>1 DEF Shl
<1> QED
    BY <1>2, <1>3

LEMMA ShrBits ==
    ASSUME NEW w \in Word, NEW n \in Nat, NEW b \in Int
    PROVE  b \in Shr(w, n) <=> b >= 0 /\ b + n \in w
<1>1. w \subseteq 0..63
    BY DEF Word, Low
<1>2. ASSUME b \in Shr(w, n) PROVE b >= 0 /\ b + n \in w
  <2>1. PICK c \in {d \in w : d >= n} : b = c - n
      BY <1>2 DEF Shr
  <2> QED
      BY <1>1, <2>1
<1>3. ASSUME b >= 0, b + n \in w PROVE b \in Shr(w, n)
  <2>1. b + n \in {d \in w : d >= n} /\ b = (b + n) - n
      BY <1>1, <1>3
  <2> QED
      BY <2>1 DEF Shr
<1> QED
    BY <1>2, <1>3

\* What is shifted is a word again, or what is left of one.
LEMMA ShiftsAreWords ==
    ASSUME NEW w \in Word, NEW n \in Nat
    PROVE  Shl(w, n) \in Word /\ Shr(w, n) \in Word
<1>1. w \subseteq 0..63
    BY DEF Word, Low
<1>2. Shl(w, n) \subseteq 0..63 /\ Shr(w, n) \subseteq 0..63
    BY <1>1 DEF Shl, Shr
<1> QED
    BY <1>2 DEF Word, Low

LEMMA FieldBits ==
    ASSUME NEW w \in Word, NEW n \in Nat, NEW width \in 0..64, NEW b \in Int
    PROVE  b \in Field(w, n, width) <=> b \in 0..width - 1 /\ b + n \in w
<1>1. Low(width) \in Word /\ w \subseteq 0..63
    BY DEF Word, Low
<1>2. w \intersect Shl(Low(width), n) \in Word
    BY DEF Word
<1>3. b \in Field(w, n, width) <=> b >= 0 /\ b + n \in w /\ b + n \in Shl(Low(width), n)
    BY <1>2, ShrBits DEF Field
<1>4. b + n \in Shl(Low(width), n) <=> b + n < 64 /\ (b + n) - n \in Low(width)
    BY <1>1, ShlBits
<1> QED
    BY <1>1, <1>3, <1>4 DEF Low

LEMMA FieldIsWord ==
    ASSUME NEW w \in Word, NEW n \in Nat, NEW width \in 0..64
    PROVE  Field(w, n, width) \in Word /\ Field(w, n, width) \subseteq 0..width - 1
<1>1. w \intersect Shl(Low(width), n) \in Word
    BY DEF Word
<1>2. Field(w, n, width) \in Word
    BY <1>1, ShiftsAreWords DEF Field
<1>3. \A b \in Field(w, n, width) : b \in Int
    BY <1>2 DEF Word, Low
<1>4. Field(w, n, width) \subseteq 0..width - 1
    BY <1>3, FieldBits
<1> QED
    BY <1>2, <1>4

\* Two words are equal if they have the same bits.
LEMMA SameBits ==
    ASSUME NEW v \in Word, NEW w \in Word, \A b \in 0..63 : b \in v <=> b \in w
    PROVE  v = w
<1>1. v \subseteq 0..63 /\ w \subseteq 0..63
    BY DEF Word, Low
<1>2. v \subseteq w /\ w \subseteq v
    BY <1>1
<1> QED
    BY <1>2

-----------------------------------------------------------------------------
(* Linear addresses. *)

LEMMA BehindBits ==
    ASSUME NEW vaddr \in Word, NEW index \in Word, NEW b \in 0..63
    PROVE  /\ Behind(vaddr, index) \in Word
           /\ b \in Behind(vaddr, index) <=> IF b < 9 THEN b \in index ELSE b - 9 \in vaddr
<1>1. vaddr \subseteq 0..63
    BY DEF Word, Low
<1>3. Shl(vaddr, 9) \in Word
    BY ShiftsAreWords
<1>2. b \in Shl(vaddr, 9) <=> b < 64 /\ b - 9 \in vaddr
    BY ShlBits
<1>4. Behind(vaddr, index) \in Word
    BY <1>3 DEF Behind, Word
<1> QED
    BY <1>1, <1>2, <1>4 DEF Behind, Low

\* Which bit of a formed address comes from where.
LEMMA FormBits ==
    ASSUME NEW p4 \in Word, NEW p3 \in Word, NEW p2 \in Word, NEW p1 \in Word,
           NEW offset \in Word, NEW b \in 0..63
    PROVE  /\ FormLinearAddress(p4, p3, p2, p1, offset) \in Word
           /\ b \in 0..11 => (b \in FormLinearAddress(p4, p3, p2, p1, offset) <=> b \in offset)
           /\ b \in 12..20 => (b \in FormLinearAddress(p4, p3, p2, p1, offset) <=> b - 12 \in p1)
           /\ b \in 21..29 => (b \in FormLinearAddress(p4, p3, p2, p1, offset) <=> b - 21 \in p2)
           /\ b \in 30..38 => (b \in FormLinearAddress(p4, p3, p2, p1, offset) <=> b - 30 \in p3)
           /\ b \in 39..47 => (b \in FormLinearAddress(p4, p3, p2, p1, offset) <=> b - 39 \in p4)
           /\ b \in 48..63 => b \in FormLinearAddress(p4, p3, p2, p1, offset)
<1> DEFINE a4 == Behind(Low(16), p4)
           a3 == Behind(a4, p3)
           a2 == Behind(a3, p2)
           a1 == Behind(a2, p1)
<1>0. Low(16) \in Word /\ \A c \in Int : c \in Low(16) <=> c \in 0..15
    BY DEF Word, Low
<1>4. a4 \in Word /\ \A c \in 0..63 : c \in a4 <=> IF c < 9 THEN c \in p4 ELSE c - 9 \in Low(16)
    BY <1>0, BehindBits
<1> HIDE DEF a4
<1>3. a3 \in Word /\ \A c \in 0..63 : c \in a3 <=> IF c < 9 THEN c \in p3 ELSE c - 9 \in a4
    BY <1>4, BehindBits
<1> HIDE DEF a3
<1>2. a2 \in Word /\ \A c \in 0..63 : c \in a2 <=> IF c < 9 THEN c \in p2 ELSE c - 9 \in a3
    BY <1>3, BehindBits
<1> HIDE DEF a2
<1>1. a1 \in Word /\ \A c \in 0..63 : c \in a1 <=> IF c < 9 THEN c \in p1 ELSE c - 9 \in a2
    BY <1>2, BehindBits
<1> HIDE DEF a1
<1>5. FormLinearAddress(p4, p3, p2, p1, offset) = Shl(a1, 12) \union (offset \intersect Low(12))
    BY DEF FormLinearAddress, a1, a2, a3, a4
<1>6. Shl(a1, 12) \in Word /\ (b \in Shl(a1, 12) <=> b - 12 \in a1)
  <2>1. Shl(a1, 12) \in Word
      BY <1>1, ShiftsAreWords
  <2>2. a1 \in Word /\ 12 \in Nat /\ b \in Int
      BY <1>1
  <2>3. b \in Shl(a1, 12) <=> b < 64 /\ b - 12 \in a1
      BY ONLY <2>2, ShlBits
  <2> QED
      BY <2>1, <2>3
<1>7. FormLinearAddress(p4, p3, p2, p1, offset) \in Word
    BY <1>5, <1>6 DEF Word
<1>8. b \in FormLinearAddress(p4, p3, p2, p1, offset) <=>
        (b - 12 \in a1 \/ (b \in offset /\ b \in 0..11))
    BY <1>5, <1>6 DEF Low
<1>9. a1 \subseteq 0..63
    BY <1>1 DEF Word, Low
<1> HIDE DEF a1, a2, a3, a4
<1>10. CASE b \in 0..11
    BY <1>7, <1>8, <1>9, <1>10
<1>11. CASE b \in 12..20
    BY <1>7, <1>8, <1>1, <1>11
<1>12. CASE b \in 21..29
  <2>1. b - 12 \in a1 <=> b - 21 \in a2
      BY <1>1, <1>12
  <2> QED
      BY <1>7, <1>8, <1>2, <2>1, <1>12
<1>13. CASE b \in 30..38
  <2>1. b - 12 \in a1 <=> b - 21 \in a2
      BY <1>1, <1>13
  <2>2. b - 21 \in a2 <=> b - 30 \in a3
      BY <1>2, <1>13
  <2> QED
      BY <1>7, <1>8, <1>3, <2>1, <2>2, <1>13
<1>14. CASE b \in 39..63
  <2>1. b - 12 \in a1 <=> b - 21 \in a2
      BY <1>1, <1>14
  <2>2. b - 21 \in a2 <=> b - 30 \in a3
      BY <1>2, <1>14
  <2>3. b - 30 \in a3 <=> b - 39 \in a4
      BY <1>3, <1>14
  <2>4. b - 39 \in a4 <=> IF b < 48 THEN b - 39 \in p4 ELSE b - 48 \in Low(16)
      BY <1>4, <1>14
  <2> QED
      BY <1>7, <1>8, <1>0, <2>1, <2>2, <2>3, <2>4, <1>14
<1> QED
    BY <1>10, <1>11, <1>12, <1>13, <1>14

LEMMA IndexBits ==
    ASSUME NEW vaddr \in Word, NEW level \in 1..4
    PROVE  /\ Index(vaddr, level) \in Word
           /\ \A b \in Int :
                b \in Index(vaddr, level) <=> b \in 0..8 /\ b + (3 + 9 * level) \in vaddr
<1>1. 3 + 9 * level \in Nat /\ 9 \in 0..64
    OBVIOUS
<1>2. Index(vaddr, level) \in Word
    BY <1>1, FieldIsWord DEF Index
<1>3. ASSUME NEW b \in Int
      PROVE  b \in Index(vaddr, level) <=> b \in 0..8 /\ b + (3 + 9 * level) \in vaddr
  <2> DEFINE n == 3 + 9 * level
  <2>1. n \in Nat /\ 9 \in 0..64 /\ 9 - 1 = 8 /\ Index(vaddr, level) = Field(vaddr, n, 9)
      BY <1>1 DEF Index
  <2> HIDE DEF n
  <2>2. b \in Field(vaddr, n, 9) <=> b \in 0..9 - 1 /\ b + n \in vaddr
      BY <2>1, FieldBits
  <2>3. b \in Index(vaddr, level) <=> b \in 0..8 /\ b + n \in vaddr
      BY <2>1, <2>2
  <2> QED
      BY <2>3 DEF n
<1> QED
    BY <1>2, <1>3

\* The index is found if its nine bits are where the level has them.
LEMMA IndexFound ==
    ASSUME NEW vaddr \in Word, NEW level \in 1..4, NEW index \in Word,
           \A b \in 0..8 : b + (3 + 9 * level) \in vaddr <=> b \in index
    PROVE  Index(vaddr, level) = index \intersect Low(9)
<1>1. Index(vaddr, level) \in Word /\ index \intersect Low(9) \in Word
    BY IndexBits DEF Word
<1>2. \A b \in 0..63 : b \in Index(vaddr, level) <=> b \in 0..8 /\ b + (3 + 9 * level) \in vaddr
    BY IndexBits
<1>3. \A b \in 0..63 : b \in Index(vaddr, level) <=> b \in index \intersect Low(9)
    BY <1>2 DEF Low
<1> QED
    BY <1>1, <1>3, SameBits

\* memory.cpp:150 calls ExtractPagingIndices "a reverse of the FormLinearAddress":
\* the indices and the offset of an address, put together, are the address again, if
\* its upper 16 bits are set.
THEOREM IndicesFormAddress ==
    ASSUME NEW vaddr \in Word, 48..63 \subseteq vaddr
    PROVE  FormLinearAddress(Index(vaddr, 4), Index(vaddr, 3), Index(vaddr, 2),
                             Index(vaddr, 1), PageOffset(vaddr)) = vaddr
<1> DEFINE formed == FormLinearAddress(Index(vaddr, 4), Index(vaddr, 3), Index(vaddr, 2),
                                       Index(vaddr, 1), PageOffset(vaddr))
<1>1. PageOffset(vaddr) \in Word /\ \A b \in 0..11 : b \in PageOffset(vaddr) <=> b \in vaddr
    BY DEF PageOffset, Word, Low
<1>2. \A level \in 1..4 : Index(vaddr, level) \in Word
    BY IndexBits
<1>3. formed \in Word
    BY <1>1, <1>2, FormBits
<1>4. ASSUME NEW b \in 0..63 PROVE b \in formed <=> b \in vaddr
  <2>1. /\ b \in 0..11 => (b \in formed <=> b \in PageOffset(vaddr))
        /\ b \in 12..20 => (b \in formed <=> b - 12 \in Index(vaddr, 1))
        /\ b \in 21..29 => (b \in formed <=> b - 21 \in Index(vaddr, 2))
        /\ b \in 30..38 => (b \in formed <=> b - 30 \in Index(vaddr, 3))
        /\ b \in 39..47 => (b \in formed <=> b - 39 \in Index(vaddr, 4))
        /\ b \in 48..63 => b \in formed
      BY <1>1, <1>2, FormBits, SMTT(60)
  <2> HIDE DEF formed
  <2>2. /\ b - 12 \in Index(vaddr, 1) <=> b - 12 \in 0..8 /\ (b - 12) + (3 + 9 * 1) \in vaddr
        /\ b - 21 \in Index(vaddr, 2) <=> b - 21 \in 0..8 /\ (b - 21) + (3 + 9 * 2) \in vaddr
        /\ b - 30 \in Index(vaddr, 3) <=> b - 30 \in 0..8 /\ (b - 30) + (3 + 9 * 3) \in vaddr
        /\ b - 39 \in Index(vaddr, 4) <=> b - 39 \in 0..8 /\ (b - 39) + (3 + 9 * 4) \in vaddr
      BY IndexBits
  <2>3. /\ (b - 12) + (3 + 9 * 1) = b /\ (b - 21) + (3 + 9 * 2) = b
        /\ (b - 30) + (3 + 9 * 3) = b /\ (b - 39) + (3 + 9 * 4) = b
      OBVIOUS
  <2> QED
      BY <1>1, <2>1, <2>2, <2>3
<1> QED
    BY <1>3, <1>4, SameBits

\* And the other way: from a formed address ExtractPagingIndices reads the nine bits
\* of each index, whatever the others are (memory.cpp:126-162).
THEOREM FormedAddressHasIndices ==
    ASSUME NEW p4 \in Word, NEW p3 \in Word, NEW p2 \in Word, NEW p1 \in Word, NEW offset \in Word
    PROVE  LET formed == FormLinearAddress(p4, p3, p2, p1, offset) IN
           /\ Index(formed, 4) = p4 \intersect Low(9)
           /\ Index(formed, 3) = p3 \intersect Low(9)
           /\ Index(formed, 2) = p2 \intersect Low(9)
           /\ Index(formed, 1) = p1 \intersect Low(9)
           /\ PageOffset(formed) = offset \intersect Low(12)
<1> DEFINE formed == FormLinearAddress(p4, p3, p2, p1, offset)
<1>1. formed \in Word
    BY FormBits
<1>2. \A b \in 0..63 :
        /\ b \in 0..11 => (b \in formed <=> b \in offset)
        /\ b \in 12..20 => (b \in formed <=> b - 12 \in p1)
        /\ b \in 21..29 => (b \in formed <=> b - 21 \in p2)
        /\ b \in 30..38 => (b \in formed <=> b - 30 \in p3)
        /\ b \in 39..47 => (b \in formed <=> b - 39 \in p4)
    BY FormBits
<1> HIDE DEF formed
<1>3. \A b \in 0..8 :
        /\ b + (3 + 9 * 1) \in 12..20 /\ (b + (3 + 9 * 1)) - 12 = b
        /\ b + (3 + 9 * 2) \in 21..29 /\ (b + (3 + 9 * 2)) - 21 = b
        /\ b + (3 + 9 * 3) \in 30..38 /\ (b + (3 + 9 * 3)) - 30 = b
        /\ b + (3 + 9 * 4) \in 39..47 /\ (b + (3 + 9 * 4)) - 39 = b
    OBVIOUS
<1>4. Index(formed, 4) = p4 \intersect Low(9)
  <2>1. \A b \in 0..8 : b + (3 + 9 * 4) \in formed <=> b \in p4
      BY <1>2, <1>3
  <2> QED
      BY <1>1, <2>1, IndexFound
<1>5. Index(formed, 3) = p3 \intersect Low(9)
  <2>1. \A b \in 0..8 : b + (3 + 9 * 3) \in formed <=> b \in p3
      BY <1>2, <1>3
  <2> QED
      BY <1>1, <2>1, IndexFound
<1>6. Index(formed, 2) = p2 \intersect Low(9)
  <2>1. \A b \in 0..8 : b + (3 + 9 * 2) \in formed <=> b \in p2
      BY <1>2, <1>3
  <2> QED
      BY <1>1, <2>1, IndexFound
<1>7. Index(formed, 1) = p1 \intersect Low(9)
  <2>1. \A b \in 0..8 : b + (3 + 9 * 1) \in formed <=> b \in p1
      BY <1>2, <1>3
  <2> QED
      BY <1>1, <2>1, IndexFound
<1>8. PageOffset(formed) = offset \intersect Low(12)
    BY <1>2 DEF PageOffset, Low
<1> QED
    BY <1>4, <1>5, <1>6, <1>7, <1>8 DEF formed

\* memory.cpp:129 speaks of a "canoncality requirement", and sets the upper 16 bits
\* for it: the processor accepts the address only if the top index is one of the
\* upper half, as all the callers' are.
THEOREM CanonicalInUpperHalf ==
    ASSUME NEW p4 \in Word, NEW p3 \in Word, NEW p2 \in Word, NEW p1 \in Word, NEW offset \in Word
    PROVE  Canonical(FormLinearAddress(p4, p3, p2, p1, offset)) <=> 8 \in p4
<1> DEFINE formed == FormLinearAddress(p4, p3, p2, p1, offset)
<1>1. \A b \in 0..63 : b \in 48..63 => b \in formed
    BY FormBits
<1>2. 47 \in 0..63 /\ 47 \in 39..47 /\ 47 - 39 = 8
    OBVIOUS
<1>3. 47 \in formed <=> 47 - 39 \in p4
    BY <1>2, FormBits
<1> HIDE DEF formed
<1>4. CASE 8 \in p4
  <2>1. \A b \in 47..63 : b = 47 \/ b \in 48..63
      OBVIOUS
  <2>2. 47..63 \subseteq formed
      BY <1>1, <1>2, <1>3, <1>4, <2>1
  <2> QED
      BY <1>4, <2>2 DEF Canonical, formed
<1>5. CASE 8 \notin p4
  <2>1. 47 \notin formed /\ 48 \in formed
      BY <1>1, <1>2, <1>3, <1>5
  <2>2. ~ (47..63 \subseteq formed) /\ (47..63) \intersect formed # {}
      BY <2>1
  <2> QED
      BY <1>5, <2>2 DEF Canonical, formed
<1> QED
    BY <1>4, <1>5

-----------------------------------------------------------------------------
(* Descriptors and gates: the parts of an address are put back together. *)

\* A field of a word, shifted back, is the word between its ends.
LEMMA FieldBack ==
    ASSUME NEW w \in Word, NEW n \in 0..64, NEW width \in 0..64, n + width <= 64
    PROVE  Shl(Field(w, n, width), n) = w \intersect (n..n + width - 1)
<1>1. w \subseteq 0..63 /\ n \in Nat
    BY DEF Word, Low
<1>2. Field(w, n, width) \in Word
    BY <1>1, FieldIsWord
<1>3. Shl(Field(w, n, width), n) \in Word
    BY <1>1, <1>2, ShiftsAreWords
<1>4. w \intersect (n..n + width - 1) \in Word
    BY DEF Word
<1>5. ASSUME NEW b \in 0..63
      PROVE  b \in Shl(Field(w, n, width), n) <=> b \in w \intersect (n..n + width - 1)
  <2>1. b \in Shl(Field(w, n, width), n) <=> b < 64 /\ b - n \in Field(w, n, width)
      BY <1>1, <1>2, ShlBits
  <2>2. b - n \in Int
      BY <1>1
  <2>3. b - n \in Field(w, n, width) <=> b - n \in 0..width - 1 /\ (b - n) + n \in w
      BY <1>1, <2>2, FieldBits
  <2>4. (b - n) + n = b /\ (b - n \in 0..width - 1 <=> b \in n..n + width - 1)
      BY <1>1
  <2> QED
      BY <2>1, <2>3, <2>4
<1> QED
    BY <1>3, <1>4, <1>5, SameBits

\* What formInterruptGate computes for its middle field is the field, in spite of
\* the sign of its mask.
LEMMA SignedField ==
    ASSUME NEW w \in Word
    PROVE  Shr(w \intersect SignExtended(Shl(Low(16), 16)), 16) \intersect Low(16) = Field(w, 16, 16)
<1> DEFINE masked == w \intersect SignExtended(Shl(Low(16), 16))
<1>1. Low(16) \in Word /\ w \subseteq 0..63
    BY DEF Word, Low
<1>2. \A b \in Int : b \in Shl(Low(16), 16) <=> b < 64 /\ b - 16 \in Low(16)
    BY <1>1, ShlBits
<1>3. \A b \in Int : b \in Shl(Low(16), 16) <=> b \in 16..31
    BY <1>2 DEF Low
<1>4. masked \in Word /\ \A b \in 16..31 : b \in masked <=> b \in w
    BY <1>3 DEF Word, SignExtended
<1> HIDE DEF masked
<1>5. Shr(masked, 16) \in Word
    BY <1>4, ShiftsAreWords
<1>6. Shr(masked, 16) \intersect Low(16) \in Word
    BY <1>5 DEF Word
<1>7. Field(w, 16, 16) \in Word
    BY FieldIsWord
<1>8. ASSUME NEW b \in 0..63
      PROVE  b \in Shr(masked, 16) \intersect Low(16) <=> b \in Field(w, 16, 16)
  <2>0. masked \in Word /\ 16 \in Nat /\ 16 \in 0..64 /\ b \in Int
      BY <1>4
  <2>1. b \in Shr(masked, 16) <=> b >= 0 /\ b + 16 \in masked
      BY ONLY <2>0, ShrBits
  <2>2. b \in Field(w, 16, 16) <=> b \in 0..16 - 1 /\ b + 16 \in w
      BY <2>0, FieldBits
  <2>3. b \in Low(16) <=> b \in 0..15
      BY DEF Low
  <2>4. b \in 0..15 => b + 16 \in 16..31
      OBVIOUS
  <2> QED
      BY <1>4, <2>1, <2>2, <2>3, <2>4
<1>9. Shr(masked, 16) \intersect Low(16) = Field(w, 16, 16)
    BY <1>6, <1>7, <1>8, SameBits
<1> QED
    BY <1>9 DEF masked

\* The processor enters a stub at the address that constructIdtGate was given, and
\* would with the gate of formInterruptGate, if that were ever present
\* (idt.cpp:56-76, interrupts.cpp:32-49).
THEOREM GatesKeepOffset ==
    ASSUME NEW vaddr \in Word, NEW segSelector
    PROVE  /\ GateOffset(constructIdtGate(vaddr)) = vaddr
           /\ GateOffset(formInterruptGate(vaddr, segSelector)) = vaddr
           /\ GatePresent(constructIdtGate(vaddr))
           /\ ~GatePresent(formInterruptGate(vaddr, segSelector))
<1>1. /\ Shl(Field(vaddr, 16, 16), 16) = vaddr \intersect (16..16 + 16 - 1)
      /\ Shl(Field(vaddr, 32, 32), 32) = vaddr \intersect (32..32 + 32 - 1)
  <2>1. Shl(Field(vaddr, 16, 16), 16) = vaddr \intersect (16..16 + 16 - 1)
    <3>1. vaddr \in Word /\ 16 \in 0..64 /\ 16 + 16 <= 64
        OBVIOUS
    <3> QED
        BY ONLY <3>1, FieldBack
  <2>2. Shl(Field(vaddr, 32, 32), 32) = vaddr \intersect (32..32 + 32 - 1)
    <3>1. vaddr \in Word /\ 32 \in 0..64 /\ 32 + 32 <= 64
        OBVIOUS
    <3> QED
        BY ONLY <3>1, FieldBack
  <2> QED
      BY <2>1, <2>2
<1>2. vaddr = (vaddr \intersect Low(16)) \union (vaddr \intersect (16..16 + 16 - 1))
                  \union (vaddr \intersect (32..32 + 32 - 1))
  <2>1. vaddr \subseteq 0..63
      BY DEF Word, Low
  <2>2. \A b \in 0..63 : b \in Low(16) \/ b \in 16..16 + 16 - 1 \/ b \in 32..32 + 32 - 1
      BY DEF Low
  <2> QED
      BY <2>1, <2>2
<1>3. GateOffset(constructIdtGate(vaddr)) = vaddr
    BY <1>1, <1>2 DEF GateOffset, constructIdtGate
<1>4. GateOffset(formInterruptGate(vaddr, segSelector)) = vaddr
    BY <1>1, <1>2, SignedField DEF GateOffset, formInterruptGate
<1>5. GatePresent(constructIdtGate(vaddr)) /\ ~GatePresent(formInterruptGate(vaddr, segSelector))
    BY DEF GatePresent, constructIdtGate, formInterruptGate
<1> QED
    BY <1>3, <1>4, <1>5

\* The processor finds the task state segment where it is, with the 20 bits of its
\* limit (gdt.cpp:31-59).
THEOREM TssKeepsBase ==
    ASSUME NEW vaddr \in Word, NEW limit \in Word
    PROVE  /\ TssBase(constructTsstor(vaddr, limit)) = vaddr
           /\ Limit(constructTsstor(vaddr, limit)) = limit \intersect Low(20)
<1>0. /\ 16 \in 0..64 /\ 24 \in 0..64 /\ 32 \in 0..64 /\ 8 \in 0..64 /\ 4 \in 0..64 /\ 16 \in Nat
      /\ 16 + 8 <= 64 /\ 24 + 8 <= 64 /\ 32 + 32 <= 64 /\ 16 + 4 <= 64
    OBVIOUS
<1>1. /\ Shl(Field(vaddr, 16, 8), 16) = vaddr \intersect (16..16 + 8 - 1)
      /\ Shl(Field(vaddr, 24, 8), 24) = vaddr \intersect (24..24 + 8 - 1)
      /\ Shl(Field(vaddr, 32, 32), 32) = vaddr \intersect (32..32 + 32 - 1)
  <2>1. Shl(Field(vaddr, 16, 8), 16) = vaddr \intersect (16..16 + 8 - 1)
    <3>1. vaddr \in Word /\ 16 \in 0..64 /\ 8 \in 0..64 /\ 16 + 8 <= 64
        OBVIOUS
    <3> QED
        BY ONLY <3>1, FieldBack, ZenonT(60)
  <2>2. Shl(Field(vaddr, 24, 8), 24) = vaddr \intersect (24..24 + 8 - 1)
    <3>1. vaddr \in Word /\ 24 \in 0..64 /\ 8 \in 0..64 /\ 24 + 8 <= 64
        OBVIOUS
    <3> QED
        BY ONLY <3>1, FieldBack, ZenonT(60)
  <2>3. Shl(Field(vaddr, 32, 32), 32) = vaddr \intersect (32..32 + 32 - 1)
    <3>1. vaddr \in Word /\ 32 \in 0..64 /\ 32 + 32 <= 64
        OBVIOUS
    <3> QED
        BY ONLY <3>1, FieldBack, ZenonT(60)
  <2> QED
      BY <2>1, <2>2, <2>3
<1>2. vaddr = (vaddr \intersect Low(16)) \union (vaddr \intersect (16..16 + 8 - 1))
                  \union (vaddr \intersect (24..24 + 8 - 1))
                  \union (vaddr \intersect (32..32 + 32 - 1))
  <2>1. vaddr \subseteq 0..63
      BY DEF Word, Low
  <2>2. \A b \in 0..63 : \/ b \in Low(16) \/ b \in 16..16 + 8 - 1
                          \/ b \in 24..24 + 8 - 1 \/ b \in 32..32 + 32 - 1
      BY DEF Low
  <2> QED
      BY <2>1, <2>2
<1>3. Field(limit, 16, 4) \subseteq 0..4 - 1
    BY ONLY limit \in Word, <1>0, FieldIsWord
<1>4. Field(limit, 16, 4) \intersect Low(4) = Field(limit, 16, 4)
    BY <1>3 DEF Low
<1>5. Shl(Field(limit, 16, 4), 16) = limit \intersect (16..16 + 4 - 1)
  <2>1. limit \in Word /\ 16 \in 0..64 /\ 4 \in 0..64 /\ 16 + 4 <= 64
      OBVIOUS
  <2> QED
      BY ONLY <2>1, FieldBack
<1>6. (limit \intersect Low(16)) \union (limit \intersect (16..16 + 4 - 1)) = limit \intersect Low(20)
    BY DEF Word, Low
<1>7. TssBase(constructTsstor(vaddr, limit)) = vaddr
    BY <1>1, <1>2 DEF TssBase, SegmentBase, constructTsstor
<1>8. Limit(constructTsstor(vaddr, limit)) = limit \intersect Low(20)
    BY <1>4, <1>5, <1>6 DEF Limit, constructTsstor
<1> QED
    BY <1>7, <1>8

-----------------------------------------------------------------------------
(* Page table entries. *)

\* The mask of an entry's address has every bit from the 12th on, not 28 of them
\* (pstructs.hpp:41-43): flags above bit 51 stay in the address.
THEOREM AddressKeepsHighFlags ==
    ASSUME NEW entry \in Word
    PROVE  address(entry) = entry \intersect (12..63)
<1>1. Low(28) \in Word /\ entry \subseteq 0..63
    BY DEF Word, Low
<1>2. \A b \in Int : b \in Shl(Low(28), 12) <=> b < 64 /\ b - 12 \in Low(28)
    BY <1>1, ShlBits
<1>3. \A b \in Int : b \in Shl(Low(28), 12) \intersect Low(32) <=> b \in 12..31
    BY <1>2 DEF Low
<1>4. \A b \in Int : b \in AddressMask <=> b \in 12..63
    BY <1>3 DEF AddressMask, SignExtended
<1>5. \A b \in 0..63 : b \in AddressMask <=> b \in 12..63
    BY <1>4
<1>6. \A b : b \in address(entry) <=> b \in entry \intersect (12..63)
    BY <1>1, <1>5 DEF address
<1> QED
    BY <1>6

\* cr3 without its flags (pstructs.cpp:4-15).
THEOREM TableAddress ==
    ASSUME NEW cr3 \in Word
    PROVE  PM4LAddress(cr3) = cr3 \intersect (12..63)
<1>1. cr3 \subseteq 0..63
    BY DEF Word, Low
<1>2. Shr(cr3, 12) \in Word
    BY ShiftsAreWords
<1>3. Shl(Shr(cr3, 12), 12) \in Word /\ cr3 \intersect (12..63) \in Word
    BY <1>2, ShiftsAreWords DEF Word
<1>4. ASSUME NEW b \in 0..63
      PROVE  b \in Shl(Shr(cr3, 12), 12) <=> b \in cr3 \intersect (12..63)
  <2>1. b \in Shl(Shr(cr3, 12), 12) <=> b < 64 /\ b - 12 \in Shr(cr3, 12)
      BY <1>2, ShlBits
  <2>2. b - 12 \in Int
      OBVIOUS
  <2>3. b - 12 \in Shr(cr3, 12) <=> b - 12 >= 0 /\ (b - 12) + 12 \in cr3
      BY <2>2, ShrBits
  <2> QED
      BY <2>1, <2>3
<1> QED
    BY <1>3, <1>4, SameBits DEF PM4LAddress

\* The two routines that read cr3 name the same table, one by its address and one
\* by its number, in spite of the sign of a mask (pstructs.cpp:11-15,
\* features.cpp:56-62).
THEOREM RoutinesNameSameTable ==
    ASSUME NEW cr3 \in Word
    PROVE  Shl(getPML4(cr3), 12) = PM4LAddress(cr3)
<1>1. address(cr3) = cr3 \intersect (12..63) /\ address(cr3) \in Word
    BY AddressKeepsHighFlags DEF Word
<1>2. getPML4(cr3) = Shr(address(cr3), 12)
    BY DEF getPML4, address
<1>3. PM4LAddress(address(cr3)) = address(cr3) \intersect (12..63)
    BY <1>1, TableAddress
<1>4. Shl(Shr(address(cr3), 12), 12) = address(cr3) \intersect (12..63)
    BY <1>3 DEF PM4LAddress
<1>5. PM4LAddress(cr3) = cr3 \intersect (12..63)
    BY TableAddress
<1> QED
    BY <1>1, <1>2, <1>4, <1>5

-----------------------------------------------------------------------------
(* PCI configuration addresses. *)

\* The host bridge reads back the bus and the device, whatever the function and
\* the register are (pci.hpp:12-24).
THEOREM ConfigAddressKept ==
    ASSUME NEW busn \in SUBSET Low(8), NEW devn \in SUBSET Low(5), NEW funcn \in SUBSET Low(3),
           NEW regOffset \in SUBSET Low(8), NEW enable \in BOOLEAN
    PROVE  LET configAddress == FormConfigAddress(enable, busn, devn, funcn, regOffset) IN
           /\ ConfigBus(configAddress) = busn
           /\ ConfigDevice(configAddress) = devn
<1> DEFINE configAddress == FormConfigAddress(enable, busn, devn, funcn, regOffset)
           enabled == IF enable THEN {31} ELSE {}
<1>1. busn \in Word /\ devn \in Word /\ funcn \in Word
    BY DEF Word, Low
<1>2. enabled \subseteq {31} /\ enabled \in Word
    BY DEF Word, Low
<1>3. Shl(busn, 16) \in Word /\ Shl(devn, 11) \in Word /\ Shl(funcn, 8) \in Word
    BY <1>1, ShiftsAreWords
<1>4. configAddress = enabled \union Shl(busn, 16) \union Shl(devn, 11) \union Shl(funcn, 8)
                          \union (regOffset \intersect (2..7))
    BY DEF FormConfigAddress
<1>5. regOffset \intersect (2..7) \in Word
    BY DEF Word, Low
<1>6. configAddress \in Word
    BY <1>2, <1>3, <1>4, <1>5 DEF Word
<1> HIDE DEF enabled
<1>7. ASSUME NEW b \in 0..63
      PROVE  /\ b \in Shl(busn, 16) <=> b < 64 /\ b - 16 \in busn
             /\ b \in Shl(devn, 11) <=> b < 64 /\ b - 11 \in devn
             /\ b \in Shl(funcn, 8) <=> b < 64 /\ b - 8 \in funcn
    BY <1>1, ShlBits
<1>8. \A b \in 16..23 : b \in configAddress <=> b - 16 \in busn
    BY <1>2, <1>4, <1>7 DEF Low
<1>9. \A b \in 11..15 : b \in configAddress <=> b - 11 \in devn
    BY <1>2, <1>4, <1>7 DEF Low
<1> HIDE DEF configAddress
<1>10. ConfigBus(configAddress) = busn
  <2>1. Field(configAddress, 16, 8) \in Word
      BY <1>6, FieldIsWord
  <2>2. ASSUME NEW b \in 0..63 PROVE b \in Field(configAddress, 16, 8) <=> b \in busn
    <3>0. 16 \in Nat /\ 8 \in 0..64 /\ b \in Int
        OBVIOUS
    <3>1. b \in Field(configAddress, 16, 8) <=> b \in 0..8 - 1 /\ b + 16 \in configAddress
        BY ONLY <1>6, <3>0, FieldBits
    <3>2. b \in 0..7 => (b + 16 \in configAddress <=> b \in busn)
        BY <1>8
    <3> QED
        BY <3>1, <3>2 DEF Low
  <2> QED
      BY <1>1, <2>1, <2>2, SameBits DEF ConfigBus
<1>11. ConfigDevice(configAddress) = devn
  <2>1. Field(configAddress, 11, 5) \in Word
      BY <1>6, FieldIsWord
  <2>2. ASSUME NEW b \in 0..63 PROVE b \in Field(configAddress, 11, 5) <=> b \in devn
    <3>0. 11 \in Nat /\ 5 \in 0..64 /\ b \in Int
        OBVIOUS
    <3>1. b \in Field(configAddress, 11, 5) <=> b \in 0..5 - 1 /\ b + 11 \in configAddress
        BY ONLY <1>6, <3>0, FieldBits
    <3>2. b \in 0..4 => (b + 11 \in configAddress <=> b \in devn)
        BY <1>9
    <3> QED
        BY <3>1, <3>2 DEF Low
  <2> QED
      BY <1>1, <2>1, <2>2, SameBits DEF ConfigDevice
<1> QED
    BY <1>10, <1>11 DEF configAddress
=============================================================================
