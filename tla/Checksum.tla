------------------------------ MODULE Checksum ------------------------------
(***************************************************************************)
(* ip_checksum of the RawIP sender (src/RawIP/src/ip_func.c): the 16-bit   *)
(* words of the header are added in a 32-bit sum, the carries are folded   *)
(* in twice and the complement of the low 16 bits is returned; and what    *)
(* the sender (src/RawIP/src/main.c) makes of it.                          *)
(***************************************************************************)
EXTENDS Integers, Sequences, TLAPS

Word == {n \in Nat : n <= 65535}

\* ihl is a field of four bits that counts words of 32 bits.
MaxWords == 2 * 15

\* The loop over the header; len is even, so no odd byte is left.
Sum(words) ==
  LET upTo[i \in 0 .. Len(words)] ==
        IF i = 0 THEN 0 ELSE (upTo[i - 1] + words[i]) % 4294967296
  IN upTo[Len(words)]

\* sum = (sum >> 16) + (sum & 0xFFFF)
Fold(sum) == (sum \div 65536) + (sum % 65536)

\* sum += sum >> 16
Carry(sum) == (sum + (sum \div 65536)) % 4294967296

\* (uint16_t) ~sum
Complement(sum) == 65535 - (sum % 65536)

Finish(sum) == Complement(Carry(Fold(sum)))

ip_checksum(words) == Finish(Sum(words))

-----------------------------------------------------------------------------
(* What the fixed number of folds gives for a sum that a header can have.  *)

HeaderSum == {n \in Nat : n <= MaxWords * 65535}

\* The word whose complement is returned.
Folded(sum) == Carry(Fold(sum)) % 65536

\* sum >> 16 and sum & 0xFFFF as quotient and remainder
LEMMA HighLow ==
  ASSUME NEW a \in Nat
  PROVE  /\ a \div 65536 \in Nat /\ a % 65536 \in Word
         /\ a = 65536 * (a \div 65536) + (a % 65536)
  <1>1. a \div 65536 \in Int /\ a % 65536 \in Int
    OBVIOUS
  <1>2. a = 65536 * (a \div 65536) + (a % 65536)
    OBVIOUS
  <1>3. a % 65536 >= 0 /\ a % 65536 <= 65535
    OBVIOUS
  <1>4. a \div 65536 >= 0
    OBVIOUS
  <1>5. QED
    BY <1>1, <1>2, <1>3, <1>4 DEF Word

\* They are the only ones.
LEMMA HighLowUnique ==
  ASSUME NEW a \in Nat, NEW k \in Nat, NEW r \in Word, a = 65536 * k + r
  PROVE  a \div 65536 = k /\ a % 65536 = r
  <1>1. PICK q \in Nat, m \in Word :
          a \div 65536 = q /\ a % 65536 = m /\ a = 65536 * q + m
    BY HighLow
  <1>2. q = k /\ m = r
    BY <1>1 DEF Word
  <1>3. QED
    BY <1>1, <1>2

(***************************************************************************)
(* One fold of a header's sum leaves at most one carry.                    *)
(***************************************************************************)
LEMMA FoldOnce ==
  ASSUME NEW sum \in HeaderSum
  PROVE  \E q \in Nat :
           /\ Fold(sum) \in Nat /\ Fold(sum) <= 65565
           /\ sum = Fold(sum) + 65535 * q
           /\ Fold(sum) = 0 <=> sum = 0
  <1>1. sum \in Nat /\ sum <= 1966050
    BY DEF HeaderSum, MaxWords
  <1>2. PICK q \in Nat, m \in Word :
          sum \div 65536 = q /\ sum % 65536 = m /\ sum = 65536 * q + m
    BY <1>1, HighLow
  <1>3. Fold(sum) = q + m
    BY <1>2 DEF Fold
  <1>4. q <= 30 /\ m \in Nat /\ m <= 65535
    BY <1>1, <1>2 DEF Word
  <1>5. WITNESS q \in Nat
  <1>6. QED
    BY <1>1, <1>2, <1>3, <1>4

(***************************************************************************)
(* The second fold brings none back.                                       *)
(***************************************************************************)
LEMMA FoldTwice ==
  ASSUME NEW f \in Nat, f <= 65565
  PROVE  Carry(f) % 65536 = IF f < 65536 THEN f ELSE f - 65535
  <1>1. CASE f < 65536
    <2>1. f = 65536 * 0 + f /\ f \in Word
      BY <1>1 DEF Word
    <2>2. f \div 65536 = 0 /\ f % 65536 = f
      BY <2>1, HighLowUnique
    <2>3. Carry(f) = f
      BY <2>2 DEF Carry
    <2>4. QED
      BY <1>1, <2>2, <2>3
  <1>2. CASE f >= 65536
    <2>1. f = 65536 * 1 + (f - 65536) /\ f - 65536 \in Word
      BY <1>2 DEF Word
    <2>2. f \div 65536 = 1
      <3>1. PICK r \in Word : f = 65536 * 1 + r
        BY <2>1
      <3>2. QED
        BY <3>1, HighLowUnique
    <2>3. Carry(f) = f + 1
      BY <2>2 DEF Carry
    <2>4. f + 1 = 65536 * 1 + (f - 65535) /\ f - 65535 \in Word
      BY <1>2 DEF Word
    <2>5. (f + 1) % 65536 = f - 65535
      <3>1. PICK a \in Nat, r \in Word :
              a = f + 1 /\ r = f - 65535 /\ a = 65536 * 1 + r
        BY <2>4
      <3>2. a % 65536 = r
        BY <3>1, HighLowUnique
      <3>3. QED
        BY <3>1, <3>2
    <2>6. QED
      BY <1>2, <2>3, <2>5
  <1>3. QED
    BY <1>1, <1>2

(***************************************************************************)
(* Two folds are enough for every header length: what ip_checksum returns  *)
(* is the complement of a word that is congruent to the sum modulo 65535,  *)
(* and 0 only when every word of the header is 0.                          *)
(***************************************************************************)
THEOREM FoldsSuffice ==
  ASSUME NEW sum \in HeaderSum
  PROVE  /\ Folded(sum) \in Word
         /\ \E k \in Nat : sum = Folded(sum) + 65535 * k
         /\ Folded(sum) = 0 <=> sum = 0
         /\ Finish(sum) = 65535 - Folded(sum)
  <1>1. PICK q \in Nat :
          /\ Fold(sum) \in Nat /\ Fold(sum) <= 65565
          /\ sum = Fold(sum) + 65535 * q
          /\ Fold(sum) = 0 <=> sum = 0
    BY FoldOnce
  <1>2. PICK f \in Nat : f = Fold(sum) /\ f <= 65565
    BY <1>1
  <1>3. Folded(sum) = IF f < 65536 THEN f ELSE f - 65535
    BY <1>2, FoldTwice DEF Folded
  <1>4. f \in Nat /\ f <= 65565 /\ sum = f + 65535 * q /\ (f = 0 <=> sum = 0)
    BY <1>1, <1>2
  <1>5. CASE f < 65536
    <2>1. Folded(sum) = f
      BY <1>3, <1>5
    <2>2. f \in Word
      BY <1>4, <1>5 DEF Word
    <2>3. Finish(sum) = 65535 - Folded(sum)
      BY DEF Finish, Complement, Folded
    <2>4. QED
      BY <1>4, <2>1, <2>2, <2>3
  <1>6. CASE f >= 65536
    <2>1. Folded(sum) = f - 65535
      BY <1>3, <1>4, <1>6
    <2>2. f - 65535 \in Word /\ f - 65535 # 0 /\ f # 0
      BY <1>4, <1>6 DEF Word
    <2>3. sum = (f - 65535) + 65535 * (q + 1) /\ q + 1 \in Nat
      BY <1>4
    <2>4. Finish(sum) = 65535 - Folded(sum)
      BY DEF Finish, Complement, Folded
    <2>5. \E k \in Nat : sum = (f - 65535) + 65535 * k
      BY <2>3
    <2>6. Folded(sum) \in Word /\ \E k \in Nat : sum = Folded(sum) + 65535 * k
      BY <2>1, <2>2, <2>5
    <2>7. Folded(sum) # 0 /\ sum # 0
      BY <1>4, <2>1, <2>2
    <2>8. QED
      BY <2>4, <2>6, <2>7
  <1>7. QED
    BY <1>4, <1>5, <1>6

-----------------------------------------------------------------------------
(* The header of the sender, on a little-endian machine.                   *)

\* The bytes of a word in the other order
htons(w) == 256 * (w % 256) + (w \div 256)

(***************************************************************************)
(* The sum of the header's words as memory has them: version and ihl,      *)
(* tot_len, id, ttl and protocol, and the two words of each address.  tos, *)
(* frag_off and, when the sum is made, check are 0.                        *)
(***************************************************************************)
SenderSum(id, s1, s2, d1, d2) ==
  (5 + 16 * 4) + htons(20) + id + (73 + 256 * 110) + s1 + s2 + d1 + d2

\* ip->check = htons(ip_checksum(ip))
SentCheck(sum) == htons(Finish(sum))

\* A receiver folds the sum of all words and expects all ones.
Accepts(sum, check) == Folded(sum + check) = 65535

\* The checksum that goes with a sum is the only congruent word but one.
LEMMA AcceptsCongruent ==
  ASSUME NEW sum \in Nat, 0 < sum, sum <= 29 * 65535, NEW w \in Word
  PROVE  Accepts(sum, w) <=> \E k \in Nat : sum + w = 65535 * k
  <1>1. sum + w \in HeaderSum /\ sum + w \in Nat /\ sum + w > 0
    BY DEF Word, HeaderSum, MaxWords
  <1>2. PICK g \in Nat, j \in Nat :
          Folded(sum + w) = g /\ g <= 65535 /\ g # 0 /\ sum + w = g + 65535 * j
    BY <1>1, FoldsSuffice DEF Word
  <1>3. ASSUME g = 65535
        PROVE  \E k \in Nat : sum + w = 65535 * k
    <2>1. sum + w = 65535 * (j + 1)
      BY <1>2, <1>3
    <2>2. PICK k \in Nat : k = j + 1
      OBVIOUS
    <2>3. sum + w = 65535 * k
      BY <2>1, <2>2
    <2>4. WITNESS k \in Nat
    <2>5. QED
      BY <2>3
  <1>4. ASSUME NEW k \in Nat, sum + w = 65535 * k
        PROVE  g = 65535
    BY <1>2, <1>4
  <1>5. QED
    BY <1>2, <1>3, <1>4 DEF Accepts

\* The two bytes of a word
LEMMA Bytes ==
  ASSUME NEW w \in Word
  PROVE  \E a \in Nat, b \in Nat :
           a <= 255 /\ b <= 255 /\ w = 256 * a + b /\ htons(w) = 256 * b + a
  <1>1. w \in Nat /\ w <= 65535
    BY DEF Word
  <1>2. PICK a \in Int, b \in Int :
          a = w \div 256 /\ b = w % 256
    BY <1>1
  <1>3. w = 256 * a + b /\ 0 <= b /\ b <= 255
    BY <1>1, <1>2
  <1>4. a \in Nat /\ b \in Nat /\ a <= 255
    BY <1>1, <1>3
  <1>5. QED
    BY <1>2, <1>3, <1>4 DEF htons

(***************************************************************************)
(* ip_checksum gives the right value for every header of the sender, in    *)
(* the byte order the field has in memory: what goes into ip->check after  *)
(* htons is right only when the two bytes are the same.  (The kernel makes *)
(* the checksum anew for a socket with IP_HDRINCL.)                        *)
(***************************************************************************)
THEOREM CheckNeedsNoSwap ==
  ASSUME NEW id \in Word, NEW s1 \in Word, NEW s2 \in Word,
         NEW d1 \in Word, NEW d2 \in Word
  PROVE  LET sum == SenderSum(id, s1, s2, d1, d2) IN
         /\ Accepts(sum, Finish(sum))
         /\ Accepts(sum, SentCheck(sum)) <=> SentCheck(sum) = Finish(sum)
  <1> DEFINE sum == SenderSum(id, s1, s2, d1, d2)
  <1>1. sum \in Nat /\ 0 < sum /\ sum <= 29 * 65535
    <2>1. PICK t \in Nat : t = htons(20) /\ t <= 65535
      BY Bytes DEF Word
    <2>2. QED
      BY <2>1 DEF SenderSum, Word
  <1> HIDE DEF sum
  <1>2. sum \in HeaderSum
    BY <1>1 DEF HeaderSum, MaxWords
  <1>3. PICK f \in Nat, q \in Nat :
          f <= 65535 /\ sum = f + 65535 * q /\ Finish(sum) = 65535 - f
    BY <1>2, FoldsSuffice DEF Word
  <1>4. PICK c \in Nat : c = Finish(sum) /\ c <= 65535 /\ sum + c = 65535 * (q + 1)
    BY <1>3
  <1>5. c \in Word
    BY <1>4 DEF Word
  <1>6. Accepts(sum, c)
    <2>1. PICK m \in Nat : m = q + 1
      OBVIOUS
    <2>4. sum + c = 65535 * m
      BY <1>4, <2>1
    <2>2. \E k \in Nat : sum + c = 65535 * k
      <3>1. WITNESS m \in Nat
      <3>2. QED
        BY <2>4
    <2>3. QED
      BY <1>1, <1>5, <2>2, AcceptsCongruent
  <1>7. PICK a \in Nat, b \in Nat :
          a <= 255 /\ b <= 255 /\ c = 256 * a + b /\ htons(c) = 256 * b + a
    BY <1>5, Bytes
  <1>8. ASSUME Accepts(sum, htons(c))
        PROVE  htons(c) = c
    <2>1. PICK w \in Nat : w = htons(c) /\ w = 256 * b + a /\ w <= 65535
      BY <1>7
    <2>2. w \in Word
      BY <2>1 DEF Word
    <2>3. PICK k \in Nat : sum + w = 65535 * k
      BY <1>1, <1>8, <2>1, <2>2, AcceptsCongruent
    <2>4. 255 * (b - a) = 65535 * (k - (q + 1))
      BY <1>1, <1>4, <1>7, <2>1, <2>3
    <2>5. b - a = 257 * (k - (q + 1))
      BY <2>4
    <2>6. b = a
      BY <1>7, <2>5
    <2>7. QED
      BY <1>7, <2>6
  <1>9. QED
    BY <1>4, <1>6, <1>8 DEF SentCheck, sum
=============================================================================
