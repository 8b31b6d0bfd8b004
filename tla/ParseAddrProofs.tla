-------------------------- MODULE ParseAddrProofs ---------------------------
(***************************************************************************)
(* What _parse_addr writes and reads, for a buffer of any size and a text  *)
(* of any length: it stays within the buffer, what the shell shows of an   *)
(* address reads back as the same bytes, what it shows of a PAN does not,  *)
(* an accepted text is accounted for to its last character, and the loops  *)
(* run out.                                                                *)
(***************************************************************************)
EXTENDS ParseAddr, TLAPS

(* WithinBuffer alone is not inductive: that the reversal has a byte to    *)
(* work on depends on assert_cell, which is FALSE only after a byte.       *)
ByteBeforeEnd ==
  pc = "scan" => lo = 0 /\ res = 0 /\ (~assert_cell => count > 0)

IInv == TypeOK /\ WithinBuffer /\ ByteBeforeEnd

LEMMA ByteOfDigits ==
  ASSUME NEW h \in 0 .. 15, NEW l \in 0 .. 15
  PROVE  h * 16 + l \in Bytes
  BY DEF Bytes

LEMMA CharsOfText ==
  ASSUME TypeOK, NEW i \in 1 .. Len(in)
  PROVE  in[i] = Other \/ in[i] \in Digits
<1>1. in[i] \in Chars
  BY DEF TypeOK
<1> QED
  BY <1>1 DEF Chars

LEMMA CharsAreDigits ==
  ASSUME TypeOK, NEW i \in 1 .. Len(in)
  PROVE  in[i] = Other \/ in[i] \in 0 .. 15
  BY CharsOfText, DigitsAssumption

LEMMA Starts == Init => IInv
<1> SUFFICES ASSUME Init
             PROVE  IInv
  OBVIOUS
<1>1. PICK k \in 0 .. MaxLen : in \in [1 .. k -> Chars]
  BY DEF Init
<1>2. k \in Nat
  BY MaxLenAssumption
<1>3. in \in Seq(Chars)
  BY <1>1, <1>2
<1>4. Len(in) \in Nat
  BY <1>3
<1>5. out \in [0 .. OutLen - 1 -> Bytes]
  BY DEF Init, Bytes
<1> QED
  BY <1>3, <1>4, <1>5, OutLenAssumption DEF Init, IInv, TypeOK, WithinBuffer,
     ByteBeforeEnd

LEMMA Inductive == IInv /\ [Next]_vars => IInv'
<1> SUFFICES ASSUME IInv, [Next]_vars
             PROVE  IInv'
  OBVIOUS
<1> USE OutLenAssumption DEF IInv, WithinBuffer, ByteBeforeEnd
<1>0. in \in Seq(Chars) /\ Len(in) \in Nat
  BY DEF TypeOK
<1>1. CASE UNCHANGED vars
  BY <1>1 DEF vars, TypeOK
<1>2. CASE Separator
  BY <1>0, <1>2 DEF Separator, Finish, TypeOK
<1>3. CASE Cell
  <2>1. end \in 1 .. Len(in) /\ in[end] \in 0 .. 15
    BY <1>0, <1>3, CharsAreDigits DEF Cell, TypeOK
  <2>2. end' \in 0 .. Len(in)
    BY <1>3, <2>1 DEF Cell, CellStep
  <2>3. High \in 0 .. 15
    <3>1. CASE end > 1 /\ in[end - 1] # Other
      <4>1. end - 1 \in 1 .. Len(in)
        BY <2>1, <3>1
      <4> QED
        BY <3>1, <4>1, CharsAreDigits DEF High
    <3>2. CASE ~(end > 1 /\ in[end - 1] # Other)
      BY <3>2 DEF High
    <3> QED
      BY <3>1, <3>2
  <2>4. High * 16 + in[end] \in Bytes
    BY <2>1, <2>3, ByteOfDigits
  <2>5. CASE Full
    BY <1>3, <2>2, <2>5 DEF Cell, Finish, TypeOK
  <2>6. CASE ~Full
    <3>1. count + 1 <= OutLen
      BY <2>6 DEF Full, TypeOK
    <3>2. /\ out' = [out EXCEPT ![count] = High * 16 + in[end]]
          /\ count' = count + 1 /\ assert_cell' = FALSE
          /\ UNCHANGED <<in, lo, hi, pc, res>>
      BY <1>3, <2>6 DEF Cell
    <3>3. out' \in [0 .. OutLen - 1 -> Bytes]
      BY <2>4, <3>2 DEF TypeOK
    <3>4. pc = "scan" /\ lo = 0 /\ res = 0 /\ count' \in Nat /\ count' > 0
      BY <1>3, <3>2 DEF Cell, TypeOK
    <3>5. TypeOK'
      BY <2>2, <3>2, <3>3, <3>4 DEF TypeOK
    <3> QED
      BY <3>1, <3>2, <3>4, <3>5
  <2> QED
    BY <2>5, <2>6
<1>4. CASE Scanned
  BY <1>4 DEF Scanned, Finish, TypeOK
<1>5. CASE Exchange
  <2>1. lo \in 0 .. OutLen - 1 /\ hi - 1 \in 0 .. OutLen - 1
    BY <1>5 DEF Exchange, TypeOK
  <2> QED
    BY <1>5, <2>1 DEF Exchange, TypeOK
<1>6. CASE Reversed
  BY <1>6 DEF Reversed, Finish, TypeOK
<1> QED
  BY <1>1, <1>2, <1>3, <1>4, <1>5, <1>6 DEF Next

LEMMA Invariant == Spec => []IInv
  BY Starts, Inductive, PTL DEF Spec

(* The state of the parser is always what its C types allow: a byte read   *)
(* from two digits is a byte (cmd.c:241-289).                              *)
THEOREM TypeCorrect == Spec => []TypeOK
  BY Invariant, PTL DEF IInv

(* No text makes the parser write, exchange or count beyond the buffer it  *)
(* was given, whatever the size of that buffer (cmd.c:255-288).            *)
THEOREM StaysWithinBuffer == Spec => []WithinBuffer
  BY Invariant, PTL DEF IInv
-----------------------------------------------------------------------------
(* What is shown can be typed.                                             *)

(* Digits without colons: a PAN is typed so.                               *)
Plain(a) ==
  [i \in 1 .. 2 * Len(a) |->
    LET byte == a[(i + 1) \div 2]
    IN  IF i % 2 = 1 THEN byte \div 16 ELSE byte % 16]

(* An address a of k bytes is read from its last byte to its first: where  *)
(* the scan is in the text tells how many bytes it has written, and they   *)
(* are the last ones of a in reverse; of the reversal, what is outside of  *)
(* the two offsets is as it will be returned.                              *)
AtColons(k) ==
  IF assert_cell THEN count < k /\ end = 3 * (k - count) - 1 ELSE end = 3 * (k - count)

AtPlain(k) == end = 2 * (k - count) /\ (assert_cell => count = 0)

Written(k, a) == count <= k /\ \A j \in 0 .. count - 1 : out[j] = a[k - j]

Swapped(k, a) ==
  count = k /\ \A j \in 0 .. k - 1 : out[j] = IF lo <= j /\ j < hi THEN a[k - j] ELSE a[j + 1]

Reads(k, a) ==
  /\ pc = "scan" => Written(k, a)
  /\ pc = "scan" /\ in = PrintAddr(a) => AtColons(k)
  /\ pc = "scan" /\ in = Plain(a) => AtPlain(k)
  /\ pc = "reverse" => Swapped(k, a)
  /\ pc = "done" => Address = a

ShownIsRead ==
  \A k \in 1 .. OutLen :
    \A a \in [1 .. k -> Cells] :
      in \in {PrintAddr(a), Plain(a)} => Reads(k, a)

LEMMA CellIsByte ==
  ASSUME NEW b \in Cells
  PROVE  /\ b \div 16 \in Digits /\ b % 16 \in Digits
         /\ b = (b \div 16) * 16 + (b % 16)
         /\ b \div 16 # Other /\ b % 16 # Other
<1>1. PICK h \in Digits, l \in Digits : b = 16 * h + l
  BY DEF Cells
<1>2. h \in 0 .. 15 /\ l \in 0 .. 15
  BY DigitsAssumption
<1>3. b \div 16 = h /\ b % 16 = l
  BY <1>1, <1>2
<1>4. b = h * 16 + l /\ h # Other /\ l # Other
  BY <1>1, <1>2 DEF Other
<1>5. b = (b \div 16) * 16 + (b % 16)
  BY <1>2, <1>3, <1>4
<1> QED
  BY <1>3, <1>4, <1>5

(* What print_addr shows, character by character.                          *)
LEMMA ColonsShown ==
  ASSUME NEW k \in Nat \ {0}, NEW a \in [1 .. k -> Cells]
  PROVE  /\ Len(PrintAddr(a)) = 3 * k - 1
         /\ \A j \in 1 .. k : /\ PrintAddr(a)[3 * j - 1] = a[j] % 16
                              /\ PrintAddr(a)[3 * j - 2] = a[j] \div 16
         /\ \A j \in 1 .. k - 1 : PrintAddr(a)[3 * j] = Other
<1>1. Len(a) = k
  OBVIOUS
<1>2. PrintAddr(a) = [i \in 1 .. 3 * k - 1 |->
        IF i % 3 = 0 THEN Other
        ELSE IF i % 3 = 1 THEN a[(i + 2) \div 3] \div 16 ELSE a[(i + 2) \div 3] % 16]
  BY <1>1 DEF PrintAddr
<1>3. 3 * k - 1 \in Nat
  OBVIOUS
<1>4. Len(PrintAddr(a)) = 3 * k - 1
  BY <1>2, <1>3
<1>5. ASSUME NEW j \in 1 .. k
      PROVE  /\ PrintAddr(a)[3 * j - 1] = a[j] % 16
             /\ PrintAddr(a)[3 * j - 2] = a[j] \div 16
  <2>1. /\ 3 * j - 1 \in 1 .. 3 * k - 1 /\ 3 * j - 2 \in 1 .. 3 * k - 1
        /\ (3 * j - 1) % 3 = 2 /\ (3 * j - 2) % 3 = 1
        /\ ((3 * j - 1) + 2) \div 3 = j /\ ((3 * j - 2) + 2) \div 3 = j
    OBVIOUS
  <2> QED
    BY <1>2, <2>1
<1>6. ASSUME NEW j \in 1 .. k - 1
      PROVE  PrintAddr(a)[3 * j] = Other
  <2>1. 3 * j \in 1 .. 3 * k - 1 /\ (3 * j) % 3 = 0
    OBVIOUS
  <2> QED
    BY <1>2, <2>1
<1> QED
  BY <1>4, <1>5, <1>6

(* What ifconfig shows of a PAN, digit by digit.                           *)
LEMMA PlainShown ==
  ASSUME NEW k \in Nat \ {0}, NEW a \in [1 .. k -> Cells]
  PROVE  /\ Len(Plain(a)) = 2 * k
         /\ \A j \in 1 .. k : /\ Plain(a)[2 * j] = a[j] % 16
                              /\ Plain(a)[2 * j - 1] = a[j] \div 16
<1>1. Len(a) = k
  OBVIOUS
<1>2. Plain(a) = [i \in 1 .. 2 * k |->
        IF i % 2 = 1 THEN a[(i + 1) \div 2] \div 16 ELSE a[(i + 1) \div 2] % 16]
  BY <1>1 DEF Plain
<1>3. Len(Plain(a)) = 2 * k
  BY <1>2
<1>4. ASSUME NEW j \in 1 .. k
      PROVE  /\ Plain(a)[2 * j] = a[j] % 16
             /\ Plain(a)[2 * j - 1] = a[j] \div 16
  <2>1. /\ 2 * j \in 1 .. 2 * k /\ 2 * j - 1 \in 1 .. 2 * k
        /\ (2 * j) % 2 = 0 /\ (2 * j - 1) % 2 = 1
        /\ (2 * j + 1) \div 2 = j /\ ((2 * j - 1) + 1) \div 2 = j
    OBVIOUS
  <2> QED
    BY <1>2, <2>1
<1> QED
  BY <1>3, <1>4

(* A character of what is shown is at its place.                           *)
LEMMA AtLowDigit ==
  ASSUME TypeOK, NEW k \in 1 .. OutLen, NEW a \in [1 .. k -> Cells], count < k,
         \/ in = PrintAddr(a) /\ end = 3 * (k - count) - 1
         \/ in = Plain(a) /\ end = 2 * (k - count)
  PROVE  /\ end > 1 /\ in[end] # Other /\ in[end - 1] # Other
         /\ in[end - 1] * 16 + in[end] = a[k - count]
<1> DEFINE j == k - count
<1>1. j \in 1 .. k /\ k \in Nat \ {0} /\ a[j] \in Cells
  BY OutLenAssumption DEF TypeOK
<1> HIDE DEF j
<1>2. end > 1 /\ in[end] = a[j] % 16 /\ in[end - 1] = a[j] \div 16
  <2>1. CASE in = PrintAddr(a) /\ end = 3 * j - 1
    <3>1. end > 1 /\ end - 1 = 3 * j - 2
      BY <1>1, <2>1
    <3> QED
      BY <1>1, <2>1, <3>1, ColonsShown
  <2>2. CASE in = Plain(a) /\ end = 2 * j
    <3>1. end > 1 /\ end - 1 = 2 * j - 1
      BY <1>1, <2>2
    <3> QED
      BY <1>1, <2>2, <3>1, PlainShown
  <2> QED
    BY <2>1, <2>2 DEF j
<1>3. /\ a[j] = (a[j] \div 16) * 16 + (a[j] % 16)
      /\ a[j] \div 16 # Other /\ a[j] % 16 # Other
  BY <1>1, CellIsByte
<1> QED
  BY <1>2, <1>3 DEF j

LEMMA AtColon ==
  ASSUME TypeOK, NEW k \in 1 .. OutLen, NEW a \in [1 .. k -> Cells],
         0 < count, count < k, in = PrintAddr(a), end = 3 * (k - count)
  PROVE  in[end] = Other
<1>1. k - count \in 1 .. k - 1 /\ k \in Nat \ {0}
  BY OutLenAssumption DEF TypeOK
<1> QED
  BY <1>1, ColonsShown

(* Of what is shown, a colon is what a digit need not follow, and every    *)
(* other character is a digit that there is room for.                      *)
LEMMA ReadsSeparator ==
  ASSUME IInv, Separator, NEW k \in 1 .. OutLen, NEW a \in [1 .. k -> Cells],
         in \in {PrintAddr(a), Plain(a)}, Reads(k, a)
  PROVE  Reads(k, a)'
<1>1. /\ pc = "scan" /\ end > 0 /\ in[end] = Other /\ end \in Nat /\ count \in Nat
      /\ end' = end - 1 /\ UNCHANGED <<in, out, count, lo, hi>> /\ TypeOK
  BY DEF IInv, TypeOK, Separator
<1>2. Written(k, a) /\ count <= k /\ k \in Nat
  BY <1>1, OutLenAssumption DEF Reads, Written
<1>3. in # Plain(a)
  <2> SUFFICES ASSUME in = Plain(a)
               PROVE  FALSE
    OBVIOUS
  <2>1. end = 2 * (k - count)
    BY <1>1 DEF Reads, AtPlain
  <2>2. count < k
    BY <1>1, <1>2, <2>1
  <2> QED
    BY <1>1, <2>1, <2>2, AtLowDigit
<1>4. in = PrintAddr(a) /\ AtColons(k)
  BY <1>1, <1>3 DEF Reads
<1>5. ~assert_cell
  <2> SUFFICES ASSUME assert_cell
               PROVE  FALSE
    OBVIOUS
  <2> QED
    BY <1>1, <1>4, AtLowDigit DEF AtColons
<1>6. end = 3 * (k - count)
  BY <1>4, <1>5 DEF AtColons
<1>7. count < k /\ end' = 3 * (k - count) - 1
  BY <1>1, <1>2, <1>6
<1>8. assert_cell' = TRUE /\ pc' = "scan"
  BY <1>1, <1>5 DEF Separator
<1>9. AtColons(k)'
  BY <1>1, <1>7, <1>8 DEF AtColons
<1>10. Written(k, a)'
  BY <1>1, <1>2 DEF Written
<1> QED
  BY <1>1, <1>3, <1>8, <1>9, <1>10 DEF Reads

LEMMA ReadsCell ==
  ASSUME IInv, Cell, NEW k \in 1 .. OutLen, NEW a \in [1 .. k -> Cells],
         in \in {PrintAddr(a), Plain(a)}, Reads(k, a)
  PROVE  Reads(k, a)'
<1>1. /\ pc = "scan" /\ end > 0 /\ in[end] # Other /\ end \in Nat /\ count \in Nat
      /\ end' = end - CellStep /\ assert_cell' = FALSE /\ UNCHANGED <<in, lo, hi>>
      /\ out \in [0 .. OutLen - 1 -> Bytes] /\ TypeOK
  BY DEF IInv, TypeOK, Cell
<1>2. Written(k, a) /\ count <= k /\ k \in Nat /\ OutLen \in Nat /\ k <= OutLen
  BY <1>1, OutLenAssumption DEF Reads, Written
<1>3. ASSUME in = Plain(a)
      PROVE  count < k /\ end = 2 * (k - count)
  BY <1>1, <1>2, <1>3 DEF Reads, AtPlain
<1>4. ASSUME in = PrintAddr(a)
      PROVE  count < k /\ end = 3 * (k - count) - 1
  <2>1. AtColons(k)
    BY <1>1, <1>4 DEF Reads
  <2>2. CASE assert_cell
    BY <2>1, <2>2 DEF AtColons
  <2>3. CASE ~assert_cell
    <3>1. end = 3 * (k - count) /\ count > 0
      BY <1>1, <2>1, <2>3 DEF AtColons, IInv, ByteBeforeEnd
    <3>2. count < k
      BY <1>1, <1>2, <3>1
    <3> QED
      BY <1>1, <1>4, <3>1, <3>2, AtColon
  <2> QED
    BY <2>2, <2>3
<1>5. /\ count < k /\ end > 1 /\ in[end - 1] # Other
      /\ in[end - 1] * 16 + in[end] = a[k - count]
  BY <1>1, <1>3, <1>4, AtLowDigit
<1>6. High = in[end - 1] /\ CellStep = 2
  BY <1>5 DEF High, CellStep
<1>7. ~Full
  BY <1>1, <1>2, <1>5 DEF Full
<1>8. /\ out' = [out EXCEPT ![count] = a[k - count]] /\ count' = count + 1
      /\ pc' = "scan" /\ end' = end - 2
  BY <1>1, <1>5, <1>6, <1>7 DEF Cell
<1>9. Written(k, a)'
  <2>1. ASSUME NEW j \in 0 .. count' - 1
        PROVE  out'[j] = a[k - j]
    <3>1. j \in 0 .. OutLen - 1 /\ count \in 0 .. OutLen - 1
      BY <1>1, <1>2, <1>5, <1>8
    <3>2. CASE j = count
      BY <1>1, <1>8, <3>1, <3>2
    <3>3. CASE j # count
      <4>1. j \in 0 .. count - 1
        BY <1>1, <1>8, <3>3
      <4> QED
        BY <1>1, <1>2, <1>8, <3>1, <3>3, <4>1 DEF Written
    <3> QED
      BY <3>2, <3>3
  <2>2. count' <= k
    BY <1>1, <1>2, <1>5, <1>8
  <2> QED
    BY <2>1, <2>2 DEF Written
<1>10. in' = PrintAddr(a) => AtColons(k)'
  <2>1. SUFFICES ASSUME in = PrintAddr(a)
                 PROVE  AtColons(k)'
    BY <1>1
  <2>2. end = 3 * (k - count) - 1 /\ end' = end - 2 /\ count' = count + 1
    BY <1>4, <1>8, <2>1
  <2>3. end' = 3 * (k - count')
    BY <1>1, <1>2, <2>2
  <2> QED
    BY <1>1, <2>3 DEF AtColons
<1>11. in' = Plain(a) => AtPlain(k)'
  BY <1>1, <1>2, <1>3, <1>8 DEF AtPlain
<1> QED
  BY <1>8, <1>9, <1>10, <1>11 DEF Reads

LEMMA ReadsScanned ==
  ASSUME IInv, Scanned, NEW k \in 1 .. OutLen, NEW a \in [1 .. k -> Cells],
         in \in {PrintAddr(a), Plain(a)}, Reads(k, a)
  PROVE  Reads(k, a)'
<1>1. /\ pc = "scan" /\ end = 0 /\ count \in Nat /\ lo = 0
      /\ UNCHANGED <<in, end, out, count, assert_cell, lo>>
  BY DEF IInv, TypeOK, ByteBeforeEnd, Scanned
<1>2. Written(k, a) /\ count <= k /\ k \in Nat \ {0}
  BY <1>1, OutLenAssumption DEF Reads, Written
<1>3. count = k /\ ~assert_cell
  <2>1. CASE in = PrintAddr(a)
    <3>1. AtColons(k)
      BY <1>1, <2>1 DEF Reads
    <3>2. ~assert_cell
      BY <1>1, <1>2, <3>1 DEF AtColons
    <3>3. 0 = 3 * (k - count)
      BY <1>1, <3>1, <3>2 DEF AtColons
    <3> QED
      BY <1>1, <1>2, <3>2, <3>3
  <2>2. CASE in = Plain(a)
    <3>1. 0 = 2 * (k - count) /\ (assert_cell => count = 0)
      BY <1>1, <2>2 DEF Reads, AtPlain
    <3>2. count = k
      BY <1>1, <1>2, <3>1
    <3> QED
      BY <1>2, <3>1, <3>2
  <2> QED
    BY <2>1, <2>2
<1>4. pc' = "reverse" /\ hi' = count
  BY <1>1, <1>3 DEF Scanned
<1>5. Swapped(k, a)'
  BY <1>1, <1>2, <1>3, <1>4 DEF Swapped, Written
<1> QED
  BY <1>4, <1>5 DEF Reads

LEMMA SwappedExchange ==
  ASSUME IInv, Exchange, NEW k \in 1 .. OutLen, NEW a, Swapped(k, a)
  PROVE  Swapped(k, a)'
<1>1. /\ lo < hi - 1 /\ lo \in Nat /\ hi \in Nat
      /\ out' = [out EXCEPT ![lo] = out[hi - 1], ![hi - 1] = out[lo]]
      /\ lo' = lo + 1 /\ hi' = hi - 1 /\ count' = count
      /\ out \in [0 .. OutLen - 1 -> Bytes] /\ lo + hi = count
  BY DEF IInv, TypeOK, WithinBuffer, Exchange
<1>2. count = k /\ k \in Nat /\ OutLen \in Nat /\ k <= OutLen
  BY <1>1, OutLenAssumption DEF Swapped
<1>3. lo \in 0 .. k - 1 /\ hi - 1 \in 0 .. k - 1
  BY <1>1, <1>2
<1>4. out[lo] = a[k - lo] /\ out[hi - 1] = a[k - (hi - 1)]
  BY <1>1, <1>2, <1>3 DEF Swapped
<1>5. k - lo = (hi - 1) + 1 /\ k - (hi - 1) = lo + 1
  BY <1>1, <1>2
<1>6. ASSUME NEW j \in 0 .. k - 1
      PROVE  out'[j] = IF lo' <= j /\ j < hi' THEN a[k - j] ELSE a[j + 1]
  <2>1. j \in 0 .. OutLen - 1 /\ lo \in 0 .. OutLen - 1 /\ hi - 1 \in 0 .. OutLen - 1
    BY <1>2, <1>3
  <2>2. CASE j = lo
    <3>1. out'[j] = a[j + 1] /\ ~(lo' <= j)
      BY <1>1, <1>4, <1>5, <2>1, <2>2
    <3> QED
      BY <3>1
  <2>3. CASE j = hi - 1
    <3>1. out'[j] = a[j + 1] /\ ~(j < hi')
      BY <1>1, <1>4, <1>5, <2>1, <2>3
    <3> QED
      BY <3>1
  <2>4. CASE j # lo /\ j # hi - 1
    <3>1. out'[j] = out[j]
      BY <1>1, <2>1, <2>4
    <3>2. (lo' <= j /\ j < hi') <=> (lo <= j /\ j < hi)
      BY <1>1, <2>4
    <3> QED
      BY <1>2, <3>1, <3>2 DEF Swapped
  <2> QED
    BY <2>2, <2>3, <2>4
<1> QED
  BY <1>1, <1>2, <1>6 DEF Swapped

LEMMA SwappedReversed ==
  ASSUME IInv, Reversed, NEW k \in 1 .. OutLen, NEW a, Swapped(k, a)
  PROVE  res' = k /\ Address' = [i \in 1 .. k |-> a[i]]
<1>1. /\ lo >= hi - 1 /\ lo \in Nat /\ hi \in Nat
      /\ res' = count /\ lo + hi = count /\ out' = out
  BY DEF IInv, TypeOK, WithinBuffer, Reversed, Finish
<1>2. count = k /\ k \in Nat
  BY <1>1, OutLenAssumption DEF Swapped
<1>3. ASSUME NEW i \in 1 .. k
      PROVE  out[i - 1] = a[i]
  <2> DEFINE j == i - 1
  <2>1. j \in 0 .. k - 1 /\ j + 1 = i
    BY <1>2
  <2>2. lo <= j /\ j < hi => k - j = i
    BY <1>1, <1>2, <2>1
  <2> QED
    BY <1>2, <2>1, <2>2 DEF Swapped
<1>4. Address' = [i \in 1 .. k |-> out[i - 1]]
  BY <1>1, <1>2 DEF Address
<1> QED
  BY <1>1, <1>2, <1>3, <1>4

LEMMA ReadsReversal ==
  ASSUME IInv, Exchange \/ Reversed,
         NEW k \in 1 .. OutLen, NEW a \in [1 .. k -> Cells], Reads(k, a)
  PROVE  Reads(k, a)'
<1>1. pc = "reverse" /\ Swapped(k, a)
  BY DEF Exchange, Reversed, Reads
<1>2. CASE Exchange
  <2>1. pc' = "reverse" /\ Swapped(k, a)'
    BY <1>1, <1>2, SwappedExchange DEF Exchange
  <2> QED
    BY <2>1 DEF Reads
<1>3. CASE Reversed
  <2>1. pc' = "done" /\ Address' = a
    BY <1>1, <1>3, SwappedReversed DEF Reversed, Finish
  <2> QED
    BY <2>1 DEF Reads
<1> QED
  BY <1>2, <1>3

LEMMA ReadsStarts == Init => ShownIsRead
<1> SUFFICES ASSUME Init, NEW k \in 1 .. OutLen, NEW a \in [1 .. k -> Cells],
                    in \in {PrintAddr(a), Plain(a)}
             PROVE  Reads(k, a)
  BY DEF ShownIsRead
<1>1. k \in Nat \ {0}
  BY OutLenAssumption
<1>2. /\ in = PrintAddr(a) => Len(in) = 3 * k - 1
      /\ in = Plain(a) => Len(in) = 2 * k
  BY <1>1, ColonsShown, PlainShown
<1>3. Len(in) > 0
  BY <1>1, <1>2
<1>4. pc = "scan" /\ end = Len(in) /\ count = 0 /\ assert_cell
  BY <1>3 DEF Init
<1> QED
  BY <1>1, <1>2, <1>4 DEF Reads, Written, AtColons, AtPlain

LEMMA ReadsInductive == IInv /\ ShownIsRead /\ [Next]_vars => ShownIsRead'
<1> SUFFICES ASSUME IInv, ShownIsRead, [Next]_vars,
                    NEW k \in 1 .. OutLen, NEW a \in [1 .. k -> Cells],
                    in' \in {PrintAddr(a), Plain(a)}
             PROVE  Reads(k, a)'
  BY DEF ShownIsRead
<1>1. in' = in
  BY DEF Next, vars, Separator, Cell, Scanned, Exchange, Reversed
<1>2. in \in {PrintAddr(a), Plain(a)} /\ Reads(k, a)
  BY <1>1 DEF ShownIsRead
<1>3. CASE UNCHANGED vars
  BY <1>2, <1>3 DEF vars, Reads, Written, AtColons, AtPlain, Swapped, Address
<1> QED
  BY <1>2, <1>3, ReadsSeparator, ReadsCell, ReadsScanned, ReadsReversal
     DEF Next

(* Whatever the size of the caller's buffer and whatever the address: what *)
(* print_addr shows of it is read back as the same bytes (addr.c:21-29,    *)
(* cmd.c:241-289).                                                         *)
THEOREM ShownIsTyped == Spec => []ShownCanBeTyped
<1>1. IInv /\ ShownIsRead => ShownCanBeTyped
  <2> SUFFICES ASSUME ShownIsRead, pc = "done", NEW k \in 1 .. OutLen,
                      NEW a \in [1 .. k -> Cells], in = PrintAddr(a)
               PROVE  Address = a
    BY DEF ShownCanBeTyped
  <2> QED
    BY DEF ShownIsRead, Reads
<1> QED
  BY <1>1, Starts, Inductive, ReadsStarts, ReadsInductive, PTL DEF Spec

-----------------------------------------------------------------------------
(* What a PAN is taken for.                                                *)

(* The bytes that are not written stay zero.                               *)
RestIsZero == \A j \in 0 .. OutLen - 1 : j >= count => out[j] = 0

LEMMA RestStarts == Init => RestIsZero
  BY DEF Init, RestIsZero

LEMMA RestInductive == IInv /\ RestIsZero /\ [Next]_vars => RestIsZero'
<1> SUFFICES ASSUME IInv, RestIsZero, [Next]_vars, NEW j \in 0 .. OutLen - 1, j >= count'
             PROVE  out'[j] = 0
  BY DEF RestIsZero
<1>1. /\ out \in [0 .. OutLen - 1 -> Bytes] /\ count \in Nat /\ OutLen \in Nat
      /\ lo \in Nat /\ hi \in Nat
  BY OutLenAssumption DEF IInv, TypeOK
<1>2. CASE Separator \/ Scanned \/ Reversed \/ UNCHANGED vars
  BY <1>2 DEF Separator, Scanned, Reversed, vars, RestIsZero
<1>3. CASE Cell
  <2>1. CASE UNCHANGED <<out, count>>
    BY <2>1 DEF RestIsZero
  <2>2. CASE count' = count + 1 /\ out' = [out EXCEPT ![count] = High * 16 + in[end]]
    <3>1. j # count /\ j >= count
      BY <1>1, <2>2
    <3> QED
      BY <1>1, <2>2, <3>1 DEF RestIsZero
  <2> QED
    BY <1>3, <2>1, <2>2 DEF Cell
<1>4. CASE Exchange
  <2>1. lo + hi = count /\ lo < hi - 1 /\ count' = count
        /\ out' = [out EXCEPT ![lo] = out[hi - 1], ![hi - 1] = out[lo]]
    BY <1>4 DEF Exchange, IInv, WithinBuffer
  <2>2. j # lo /\ j # hi - 1 /\ j >= count
    BY <1>1, <2>1
  <2> QED
    BY <1>1, <2>1, <2>2 DEF RestIsZero
<1> QED
  BY <1>2, <1>3, <1>4 DEF Next

(* Two bytes of two digits each are the number of the four.                *)
LEMMA FourPlaces ==
  ASSUME NEW p \in Int, NEW q \in Int, NEW r \in Int, NEW s \in Int
  PROVE  256 * (16 * p + q) + (16 * r + s) = ((p * 16 + q) * 16 + r) * 16 + s
  OBVIOUS

(* The bytes of an address of known length.                                *)
LEMMA AddressBytes ==
  ASSUME IInv, NEW k \in Nat, NEW a \in [1 .. k -> Cells], Address = a
  PROVE  res = k /\ \A j \in 1 .. k : out[j - 1] = a[j]
<1>1. DOMAIN Address = 1 .. res /\ DOMAIN a = 1 .. k /\ res \in Nat
  BY DEF Address, IInv, TypeOK
<1>2. 1 .. res = 1 .. k
  BY <1>1
<1>3. res = k
  <2>1. res > 0 => res \in 1 .. k
    BY <1>1, <1>2
  <2>2. k > 0 => k \in 1 .. res
    BY <1>1, <1>2
  <2> QED
    BY <1>1, <2>1, <2>2
<1>4. \A j \in 1 .. k : Address[j] = out[j - 1]
  BY <1>3 DEF Address
<1> QED
  BY <1>3, <1>4

LEMMA FourDigits ==
  ASSUME IInv, ShownIsRead, pc = "done", OutLen >= 2, Len(in) = 4,
         \A i \in 1 .. 4 : in[i] # Other
  PROVE  res = 2 /\ PanValue = ((in[1] * 16 + in[2]) * 16 + in[3]) * 16 + in[4]
<1> DEFINE a == [j \in 1 .. 2 |-> 16 * in[2 * j - 1] + in[2 * j]]
<1>1. /\ in \in Seq(Chars) /\ DOMAIN in = 1 .. 4
      /\ \A i \in 1 .. 4 : in[i] \in Digits /\ in[i] \in 0 .. 15
  <2>1. in \in Seq(Chars) /\ TypeOK
    BY DEF IInv, TypeOK
  <2>2. ASSUME NEW i \in 1 .. 4
        PROVE  in[i] \in Digits
    <3>1. i \in 1 .. Len(in)
      OBVIOUS
    <3> QED
      BY <2>1, <3>1, CharsOfText
  <2>3. DOMAIN in = 1 .. 4
    BY <2>1
  <2> QED
    BY <2>1, <2>2, <2>3, DigitsAssumption
<1>2. a \in [1 .. 2 -> Cells]
  BY <1>1 DEF Cells
<1>3. /\ in[1] \in 0 .. 15 /\ in[2] \in 0 .. 15 /\ in[3] \in 0 .. 15 /\ in[4] \in 0 .. 15
      /\ a[1] = 16 * in[1] + in[2] /\ a[2] = 16 * in[3] + in[4]
  BY <1>1
<1> HIDE DEF a
<1>4. /\ a[1] \div 16 = in[1] /\ a[1] % 16 = in[2]
      /\ a[2] \div 16 = in[3] /\ a[2] % 16 = in[4]
  BY <1>3
<1>5. in = Plain(a)
  <2>1. /\ Plain(a)[2] = a[1] % 16 /\ Plain(a)[1] = a[1] \div 16
        /\ Plain(a)[4] = a[2] % 16 /\ Plain(a)[3] = a[2] \div 16
    <3>1. \A j \in 1 .. 2 : /\ Plain(a)[2 * j] = a[j] % 16
                           /\ Plain(a)[2 * j - 1] = a[j] \div 16
      <4>1. 2 \in Nat \ {0}
        OBVIOUS
      <4> QED
        BY <1>2, <4>1, PlainShown
    <3>2. 2 * 1 = 2 /\ 2 * 1 - 1 = 1 /\ 2 * 2 = 4 /\ 2 * 2 - 1 = 3
      OBVIOUS
    <3>3. 1 \in 1 .. 2 /\ 2 \in 1 .. 2
      OBVIOUS
    <3> HIDE <1>2
    <3> QED
      BY <3>1, <3>2, <3>3
  <2>2. Plain(a) = [i \in 1 .. 4 |-> Plain(a)[i]]
    <3>1. Len(a) = 2
      BY <1>2
    <3>2. DOMAIN Plain(a) = 1 .. 4
      BY <3>1 DEF Plain
    <3> QED
      BY <3>2 DEF Plain
  <2>3. \A i \in 1 .. 4 : Plain(a)[i] = in[i]
    BY <1>4, <2>1
  <2> QED
    BY <1>1, <2>2, <2>3
<1>6. Address = a
  <2>1. 2 \in 1 .. OutLen
    BY OutLenAssumption
  <2>2. Reads(2, a)
    BY <1>2, <1>5, <2>1 DEF ShownIsRead
  <2> QED
    BY <2>2 DEF Reads
<1>7. res = 2 /\ out[0] = a[1] /\ out[1] = a[2]
  <2>1. res = 2 /\ \A j \in 1 .. 2 : out[j - 1] = a[j]
    BY <1>2, <1>6, AddressBytes
  <2>2. 1 \in 1 .. 2 /\ 2 \in 1 .. 2 /\ 1 - 1 = 0 /\ 2 - 1 = 1
    OBVIOUS
  <2> HIDE <1>2, <1>6
  <2> QED
    BY <2>1, <2>2
<1>8. PanValue = 256 * a[1] + a[2]
  BY <1>7 DEF PanValue
<1>9. PanValue = 256 * (16 * in[1] + in[2]) + (16 * in[3] + in[4])
  BY <1>3, <1>8
<1>10. in[1] \in Int /\ in[2] \in Int /\ in[3] \in Int /\ in[4] \in Int
  BY <1>3
<1> QED
  BY <1>7, <1>9, <1>10, FourPlaces

(* One byte: the other one of pan is still zero.                           *)
LEMMA TwoDigits ==
  ASSUME IInv, ShownIsRead, RestIsZero, pc = "done", OutLen >= 2, Len(in) = 2,
         \A i \in 1 .. 2 : in[i] # Other
  PROVE  res = 1 /\ PanValue = (in[1] * 16 + in[2]) * 256
<1> DEFINE a == [j \in 1 .. 1 |-> 16 * in[1] + in[2]]
<1>1. /\ in \in Seq(Chars) /\ DOMAIN in = 1 .. 2
      /\ \A i \in 1 .. 2 : in[i] \in Digits /\ in[i] \in 0 .. 15
  <2>1. in \in Seq(Chars) /\ TypeOK
    BY DEF IInv, TypeOK
  <2>2. ASSUME NEW i \in 1 .. 2
        PROVE  in[i] \in Digits
    <3>1. i \in 1 .. Len(in)
      OBVIOUS
    <3> QED
      BY <2>1, <3>1, CharsOfText
  <2>3. DOMAIN in = 1 .. 2
    BY <2>1
  <2> QED
    BY <2>1, <2>2, <2>3, DigitsAssumption
<1>2. in[1] \in Digits /\ in[2] \in Digits /\ in[1] \in 0 .. 15 /\ in[2] \in 0 .. 15
  BY <1>1
<1>3. 16 * in[1] + in[2] \in Cells
  BY <1>2 DEF Cells
<1>4. a \in [1 .. 1 -> Cells] /\ a[1] = 16 * in[1] + in[2]
  BY <1>3
<1> HIDE DEF a
<1>5. a[1] \div 16 = in[1] /\ a[1] % 16 = in[2]
  BY <1>2, <1>4
<1>6. in = Plain(a)
  <2>1. Plain(a) = [i \in 1 .. 2 |-> IF i % 2 = 1 THEN a[1] \div 16 ELSE a[1] % 16]
    <3>1. Len(a) = 1 /\ 2 * 1 = 2
      BY <1>4
    <3>2. \A i \in 1 .. 2 : (i + 1) \div 2 = 1
      OBVIOUS
    <3> QED
      BY <3>1, <3>2 DEF Plain
  <2>2. \A i \in 1 .. 2 : in[i] = IF i % 2 = 1 THEN a[1] \div 16 ELSE a[1] % 16
    BY <1>5
  <2>3. in = [i \in 1 .. 2 |-> in[i]]
    BY <1>1
  <2> QED
    BY <2>1, <2>2, <2>3
<1>7. Address = a
  <2>1. 1 \in 1 .. OutLen
    BY OutLenAssumption
  <2>2. Reads(1, a)
    BY <1>4, <1>6, <2>1 DEF ShownIsRead
  <2> QED
    BY <2>2 DEF Reads
<1>8. res = 1 /\ out[0] = a[1]
  <2>1. res = 1 /\ \A j \in 1 .. 1 : out[j - 1] = a[j]
    BY <1>4, <1>7, AddressBytes
  <2>2. 1 \in 1 .. 1 /\ 1 - 1 = 0
    OBVIOUS
  <2> HIDE <1>4, <1>7
  <2> QED
    BY <2>1, <2>2
<1>9. out[1] = 0
  <2>1. count = 1 /\ 1 \in 0 .. OutLen - 1
    BY <1>8, OutLenAssumption DEF IInv, WithinBuffer
  <2> QED
    BY <2>1 DEF RestIsZero
<1> QED
  BY <1>2, <1>4, <1>8, <1>9 DEF PanValue

(* A PAN typed with its four digits is the number they spell, one typed    *)
(* with two digits has them for its high byte, in a buffer of any size     *)
(* that holds its two bytes (cmd.c:158-164).                               *)
THEOREM PanSpelled == Spec => []PanIsNumber
<1>1. IInv /\ ShownIsRead /\ RestIsZero => PanIsNumber
  <2> SUFFICES ASSUME IInv, ShownIsRead, RestIsZero, pc = "done", OutLen >= 2,
                      \A i \in DOMAIN in : in[i] # Other
               PROVE  /\ Len(in) = 4 =>
                           /\ PanTaken
                           /\ PanValue = ((in[1] * 16 + in[2]) * 16 + in[3]) * 16 + in[4]
                      /\ Len(in) = 2 => PanTaken /\ PanValue = (in[1] * 16 + in[2]) * 256
    BY DEF PanIsNumber
  <2>1. DOMAIN in = 1 .. Len(in)
    BY DEF IInv, TypeOK
  <2> QED
    BY <2>1, FourDigits, TwoDigits DEF PanTaken
<1> QED
  BY <1>1, Starts, Inductive, ReadsStarts, ReadsInductive, RestStarts, RestInductive, PTL DEF Spec

-----------------------------------------------------------------------------
(* What is read was typed.                                                 *)

(* q[j] is where the low digit of the (j + 1)-th byte from the end stands. *)
Places == [0 .. count - 1 -> 1 .. Len(in)]

Chain(q) ==
  /\ count > 0 => q[0] = Len(in)
  /\ \A j \in 0 .. count - 1 : in[q[j]] # Other
  /\ \A j \in 1 .. count - 1 :
       q[j] = q[j - 1] - 2 \/ (q[j] = q[j - 1] - 3 /\ in[q[j - 1] - 2] = Other)

(* Where the scan is, seen from the byte it has written last.              *)
Behind(q) ==
  LET p == q[count - 1]
  IN  \/ count = 0 /\ assert_cell /\ end = Len(in)
      \/ count > 0 /\ assert_cell /\ end = p - 3 /\ in[p - 2] = Other
      \/ count > 0 /\ ~assert_cell /\ (end = p - 2 \/ (p = 1 /\ end = 0))

BytesOf(q) == [i \in 1 .. count |-> ByteAt(q[count - i])]

Explains(q) ==
  /\ q \in Places /\ Chain(q)
  /\ pc = "scan" => Behind(q) /\ (\A j \in 0 .. count - 1 : out[j] = ByteAt(q[j]))
  /\ pc = "reverse" => q[count - 1] <= 2 /\ Swapped(count, BytesOf(q))
  /\ pc = "done" => q[count - 1] <= 2 /\ Address = BytesOf(q)

Explained == (pc = "done" /\ res = 0) \/ \E q \in Places : Explains(q)

LEMMA PlacesFacts ==
  ASSUME IInv, NEW q \in Places
  PROVE  /\ count \in Nat /\ end \in Nat /\ Len(in) \in Nat /\ count <= OutLen
         /\ OutLen \in Nat
         /\ \A j \in 0 .. count - 1 : q[j] \in 1 .. Len(in)
<1>1. in \in Seq(Chars) /\ Len(in) \in Nat
  BY DEF IInv, TypeOK
<1> QED
  BY <1>1, OutLenAssumption DEF IInv, TypeOK, WithinBuffer, Places

LEMMA SameText ==
  ASSUME UNCHANGED <<in, count>>, NEW q
  PROVE  /\ Places' = Places /\ Chain(q)' = Chain(q) /\ BytesOf(q)' = BytesOf(q)
         /\ \A j : ByteAt(j)' = ByteAt(j)
  BY DEF Places, Chain, BytesOf, ByteAt

LEMMA ExplainedSeparator ==
  ASSUME IInv, Separator, NEW q \in Places, Explains(q)
  PROVE  Explained'
<1>1. /\ pc = "scan" /\ end > 0 /\ in[end] = Other /\ end' = end - 1
      /\ UNCHANGED <<in, out, count, lo, hi>>
  BY DEF Separator
<1>2. CASE assert_cell
  BY <1>2 DEF Separator, Finish, Explained
<1>3. CASE ~assert_cell
  <2>1. pc' = "scan" /\ assert_cell' = TRUE /\ count > 0
    BY <1>1, <1>3 DEF Separator, IInv, ByteBeforeEnd
  <2> DEFINE p == q[count - 1]
  <2>2. p \in 1 .. Len(in) /\ Len(in) \in Nat /\ count \in Nat /\ end \in Nat
    BY <2>1, PlacesFacts
  <2>3. end = p - 2 \/ (p = 1 /\ end = 0)
    BY <1>1, <1>3 DEF Explains, Behind
  <2> HIDE DEF p
  <2>4. end = p - 2 /\ end' = p - 3
    BY <1>1, <2>2, <2>3
  <2>5. Behind(q)'
    <3>1. in'[p - 2] = Other /\ end' = p - 3 /\ count' > 0 /\ count' = count
      BY <1>1, <2>1, <2>4
    <3> QED
      BY <2>1, <3>1 DEF Behind, p
  <2>6. q \in Places' /\ Chain(q)' /\ \A j \in 0 .. count' - 1 : out'[j] = ByteAt(q[j])'
    BY <1>1, SameText DEF Explains
  <2> QED
    BY <2>1, <2>5, <2>6 DEF Explains, Explained
<1> QED
  BY <1>2, <1>3

LEMMA ExplainedCell ==
  ASSUME IInv, Cell, NEW q \in Places, Explains(q)
  PROVE  Explained'
<1>1. /\ pc = "scan" /\ end > 0 /\ in[end] # Other /\ end' = end - CellStep
      /\ assert_cell' = FALSE /\ in' = in /\ end \in 1 .. Len(in)
      /\ out \in [0 .. OutLen - 1 -> Bytes]
  BY DEF Cell, IInv, TypeOK
<1>2. /\ count \in Nat /\ Len(in) \in Nat /\ count <= OutLen /\ OutLen \in Nat
      /\ \A j \in 0 .. count - 1 : q[j] \in 1 .. Len(in)
  BY PlacesFacts
<1>3. CASE Full
  BY <1>1, <1>3 DEF Cell, Finish, Explained
<1>4. CASE ~Full
  <2>1. /\ pc' = "scan" /\ count' = count + 1 /\ count < OutLen
        /\ out' = [out EXCEPT ![count] = High * 16 + in[end]]
    BY <1>1, <1>2, <1>4 DEF Cell, Full
  <2>2. High * 16 + in[end] = ByteAt(end)
    BY DEF High, ByteAt
  <2>0. PICK r : r = [j \in 0 .. count |-> IF j = count THEN end ELSE q[j]]
    OBVIOUS
  <2>3. ASSUME NEW j \in 0 .. count
        PROVE  r[j] = IF j = count THEN end ELSE q[j]
    BY <2>0
  <2>4. r \in [0 .. count -> 1 .. Len(in)]
    <3>1. \A j \in 0 .. count : (IF j = count THEN end ELSE q[j]) \in 1 .. Len(in)
      BY <1>1, <1>2
    <3> QED
      BY <2>0, <3>1
  <2>5. r[count] = end /\ \A j \in 0 .. count - 1 : r[j] = q[j]
    BY <1>2, <2>3
  <2>6. r \in Places'
    BY <1>1, <1>2, <2>1, <2>4 DEF Places
  <2>7. Chain(r)'
    <3>1. count' > 0 => r[0] = Len(in')
      <4>1. CASE count = 0
        BY <1>1, <2>5, <4>1 DEF Explains, Behind
      <4>2. CASE count > 0
        BY <1>1, <1>2, <2>5, <4>2 DEF Explains, Chain
      <4> QED
        BY <1>2, <4>1, <4>2
    <3>2. ASSUME NEW j \in 0 .. count' - 1
          PROVE  in'[r[j]] # Other
      <4>1. j = count \/ j \in 0 .. count - 1
        BY <1>2, <2>1
      <4> QED
        BY <1>1, <2>5, <4>1 DEF Explains, Chain
    <3>3. ASSUME NEW j \in 1 .. count' - 1
          PROVE  \/ r[j] = r[j - 1] - 2
                 \/ r[j] = r[j - 1] - 3 /\ in'[r[j - 1] - 2] = Other
      <4>1. CASE j = count
        <5>1. count > 0 /\ r[j] = end /\ r[j - 1] = q[count - 1]
              /\ q[count - 1] \in 1 .. Len(in)
          BY <1>2, <2>5, <4>1
        <5>2. \/ end = q[count - 1] - 3 /\ in[q[count - 1] - 2] = Other
              \/ end = q[count - 1] - 2
          BY <1>1, <5>1 DEF Explains, Behind
        <5> QED
          BY <1>1, <5>1, <5>2
      <4>2. CASE j # count
        <5>1. j \in 1 .. count - 1 /\ j \in 0 .. count - 1 /\ j - 1 \in 0 .. count - 1
          BY <1>2, <2>1, <4>2
        <5>2. r[j] = q[j] /\ r[j - 1] = q[j - 1]
          BY <2>5, <5>1
        <5>3. \/ q[j] = q[j - 1] - 2
              \/ q[j] = q[j - 1] - 3 /\ in[q[j - 1] - 2] = Other
          BY <5>1 DEF Explains, Chain
        <5> QED
          BY <1>1, <5>2, <5>3
      <4> QED
        BY <4>1, <4>2
    <3> QED
      BY <3>1, <3>2, <3>3 DEF Chain
  <2>8. Behind(r)'
    <3>1. count' > 0 /\ r[count' - 1] = end
      BY <1>2, <2>1, <2>5
    <3>2. end' = end - 2 \/ (end = 1 /\ end' = 0)
      BY <1>1 DEF CellStep
    <3> QED
      BY <1>1, <3>1, <3>2 DEF Behind
  <2>9. ASSUME NEW j \in 0 .. count' - 1
        PROVE  out'[j] = ByteAt(r[j])'
    <3>1. \A i : ByteAt(i)' = ByteAt(i)
      BY <1>1 DEF ByteAt
    <3>2. j \in 0 .. OutLen - 1 /\ count \in 0 .. OutLen - 1
      BY <1>2, <2>1
    <3>3. CASE j = count
      BY <1>1, <2>1, <2>2, <2>5, <3>1, <3>2, <3>3
    <3>4. CASE j # count
      <4>1. j \in 0 .. count - 1
        BY <1>2, <2>1, <3>4
      <4>2. out'[j] = out[j] /\ out[j] = ByteAt(q[j])
        BY <1>1, <2>1, <3>2, <3>4, <4>1 DEF Explains
      <4> QED
        BY <2>5, <3>1, <4>1, <4>2
    <3> QED
      BY <3>3, <3>4
  <2>10. Explains(r)'
    BY <2>1, <2>6, <2>7, <2>8, <2>9 DEF Explains
  <2> QED
    BY <2>6, <2>10 DEF Explained
<1> QED
  BY <1>3, <1>4

LEMMA ExplainedScanned ==
  ASSUME IInv, Scanned, NEW q \in Places, Explains(q)
  PROVE  Explained'
<1>1. /\ pc = "scan" /\ end = 0 /\ lo = 0 /\ lo' = 0
      /\ UNCHANGED <<in, end, out, count, assert_cell, lo>>
  BY DEF Scanned, IInv, ByteBeforeEnd
<1>2. CASE assert_cell
  BY <1>2 DEF Scanned, Finish, Explained
<1>3. CASE ~assert_cell
  <2>1. pc' = "reverse" /\ hi' = count /\ count > 0
    BY <1>1, <1>3 DEF Scanned, IInv, ByteBeforeEnd
  <2>2. /\ count \in Nat /\ Len(in) \in Nat
        /\ \A j \in 0 .. count - 1 : q[j] \in 1 .. Len(in)
    BY PlacesFacts
  <2>3. q[count - 1] <= 2
    <3>1. q[count - 1] \in 1 .. Len(in)
      BY <2>1, <2>2
    <3>2. 0 = q[count - 1] - 2 \/ q[count - 1] = 1
      BY <1>1, <1>3, <2>1 DEF Explains, Behind
    <3> QED
      BY <2>2, <3>1, <3>2
  <2>4. ASSUME NEW j \in 0 .. count - 1
        PROVE  out[j] = BytesOf(q)[count - j]
    <3>1. count - j \in 1 .. count /\ count - (count - j) = j
      BY <2>2
    <3> QED
      BY <1>1, <3>1 DEF Explains, BytesOf
  <2>5. Swapped(count, BytesOf(q))'
    <3>1. BytesOf(q)' = BytesOf(q)
      BY <1>1, SameText
    <3>2. \A j \in 0 .. count - 1 : lo' <= j /\ j < hi'
      BY <1>1, <2>1, <2>2
    <3> QED
      BY <1>1, <2>4, <3>1, <3>2 DEF Swapped
  <2>6. q \in Places' /\ Chain(q)' /\ q[count' - 1] <= 2
    BY <1>1, <2>3, SameText DEF Explains
  <2> QED
    BY <2>1, <2>5, <2>6 DEF Explains, Explained
<1> QED
  BY <1>2, <1>3

LEMMA ExplainedReversal ==
  ASSUME IInv, Exchange \/ Reversed, NEW q \in Places, Explains(q)
  PROVE  Explained'
<1>1. /\ pc = "reverse" /\ UNCHANGED <<in, count>> /\ q[count - 1] <= 2
      /\ Swapped(count, BytesOf(q))
  BY DEF Exchange, Reversed, Explains
<1>2. q \in Places' /\ Chain(q)' /\ q[count' - 1] <= 2 /\ BytesOf(q)' = BytesOf(q)
  BY <1>1, SameText DEF Explains
<1>3. PICK k, a : k = count /\ a = BytesOf(q)
  OBVIOUS
<1>4. k \in 1 .. OutLen
  BY <1>1, <1>3, OutLenAssumption DEF IInv, TypeOK, WithinBuffer
<1>5. CASE Exchange
  <2>1. Swapped(k, a)'
    BY <1>1, <1>3, <1>4, <1>5, SwappedExchange
  <2>2. Swapped(count, BytesOf(q))'
    BY <1>1, <1>2, <1>3, <2>1 DEF Swapped
  <2>3. pc' = "reverse"
    BY <1>1, <1>5 DEF Exchange
  <2> QED
    BY <1>2, <2>2, <2>3 DEF Explains, Explained
<1>6. CASE Reversed
  <2>1. Address' = [i \in 1 .. k |-> a[i]] /\ pc' = "done"
    BY <1>1, <1>3, <1>4, <1>6, SwappedReversed DEF Reversed, Finish
  <2>2. a = [i \in 1 .. k |-> a[i]]
    BY <1>3 DEF BytesOf
  <2>3. Address' = BytesOf(q)'
    BY <1>2, <1>3, <2>1, <2>2
  <2> QED
    BY <1>2, <2>1, <2>3 DEF Explains, Explained
<1> QED
  BY <1>5, <1>6

LEMMA ExplainedStarts == Init => Explained
<1> SUFFICES ASSUME Init
             PROVE  Explained
  OBVIOUS
<1>1. CASE pc = "done"
  BY <1>1 DEF Init, Explained
<1>2. CASE pc = "scan"
  <2> DEFINE q == [j \in 0 .. count - 1 |-> 1]
  <2>1. 0 .. count - 1 = {} /\ 1 .. count - 1 = {}
    BY DEF Init
  <2>2. q \in Places
    BY <2>1 DEF Places
  <2>3. Chain(q) /\ Behind(q)
    BY <2>1 DEF Init, Chain, Behind
  <2> HIDE DEF q
  <2> QED
    BY <1>2, <2>1, <2>2, <2>3 DEF Explains, Explained
<1> QED
  BY <1>1, <1>2 DEF Init

LEMMA ExplainedInductive == IInv /\ Explained /\ [Next]_vars => Explained'
<1> SUFFICES ASSUME IInv, Explained, [Next]_vars
             PROVE  Explained'
  OBVIOUS
<1>1. CASE UNCHANGED vars
  <2>1. CASE pc = "done" /\ res = 0
    BY <1>1, <2>1 DEF vars, Explained
  <2>2. CASE ~(pc = "done" /\ res = 0)
    <3>1. PICK q \in Places : Explains(q)
      BY <2>2 DEF Explained
    <3>2. q \in Places' /\ Chain(q)' /\ BytesOf(q)' = BytesOf(q)
          /\ \A j : ByteAt(j)' = ByteAt(j)
      BY <1>1, <3>1, SameText DEF vars, Explains
    <3>3. Behind(q)' = Behind(q) /\ Address' = Address
          /\ Swapped(count, BytesOf(q))' = Swapped(count, BytesOf(q))
      BY <1>1, <3>2 DEF vars, Behind, Address, Swapped
    <3>4. Explains(q)'
      BY <1>1, <3>1, <3>2, <3>3 DEF vars, Explains
    <3> QED
      BY <3>2, <3>4 DEF Explained
  <2> QED
    BY <2>1, <2>2
<1>2. CASE Next
  <2>1. pc # "done"
    BY <1>2 DEF Next, Separator, Cell, Scanned, Exchange, Reversed
  <2>2. PICK q \in Places : Explains(q)
    BY <2>1 DEF Explained
  <2> QED
    BY <1>2, <2>2, ExplainedSeparator, ExplainedCell, ExplainedScanned, ExplainedReversal
       DEF Next
<1> QED
  BY <1>1, <1>2

(* Whatever is typed, of whatever length and for a buffer of any size: the *)
(* bytes of a text that is accepted account for all of its characters      *)
(* (cmd.c:255-289).                                                        *)
THEOREM AcceptedWasTyped == Spec => []AcceptedIsTyped
<1>1. IInv /\ Explained => AcceptedIsTyped
  <2> SUFFICES ASSUME IInv, Explained, pc = "done", res > 0
               PROVE  \E low \in [1 .. res -> DOMAIN in] :
                        /\ low[1] <= 2 /\ low[res] = Len(in)
                        /\ \A i \in 1 .. res : in[low[i]] # Other /\ Address[i] = ByteAt(low[i])
                        /\ \A i \in 2 .. res :
                             \/ low[i - 1] = low[i] - 2
                             \/ low[i - 1] = low[i] - 3 /\ in[low[i] - 2] = Other
    BY DEF AcceptedIsTyped
  <2>1. res \in Nat \ {0} /\ res = count /\ DOMAIN in = 1 .. Len(in)
    BY DEF IInv, TypeOK, WithinBuffer
  <2>2. PICK q \in Places : Explains(q)
    BY <2>1 DEF Explained
  <2>3. /\ q[res - 1] <= 2 /\ Address = [i \in 1 .. res |-> ByteAt(q[res - i])]
        /\ q[0] = Len(in) /\ \A j \in 0 .. res - 1 : in[q[j]] # Other
        /\ \A j \in 1 .. res - 1 :
             q[j] = q[j - 1] - 2 \/ (q[j] = q[j - 1] - 3 /\ in[q[j - 1] - 2] = Other)
    BY <2>1, <2>2 DEF Explains, Chain, BytesOf
  <2>4. \A j \in 0 .. res - 1 : q[j] \in 1 .. Len(in)
    BY <2>1, <2>2, PlacesFacts
  <2> DEFINE low == [i \in 1 .. res |-> q[res - i]]
  <2>5. \A i \in 1 .. res : res - i \in 0 .. res - 1 /\ low[i] = q[res - i]
    BY <2>1
  <2>6. low \in [1 .. res -> DOMAIN in]
    BY <2>1, <2>4, <2>5
  <2> HIDE DEF low
  <2>7. low[1] <= 2 /\ low[res] = Len(in)
    <3>1. low[1] = q[res - 1] /\ low[res] = q[res - res] /\ res - res = 0
      BY <2>1, <2>5
    <3> QED
      BY <2>3, <3>1
  <2>8. ASSUME NEW i \in 1 .. res
        PROVE  in[low[i]] # Other /\ Address[i] = ByteAt(low[i])
    BY <2>3, <2>5
  <2>9. ASSUME NEW i \in 2 .. res
        PROVE  \/ low[i - 1] = low[i] - 2
               \/ low[i - 1] = low[i] - 3 /\ in[low[i] - 2] = Other
    <3> DEFINE j == res - i + 1
    <3>1. j \in 1 .. res - 1 /\ j - 1 = res - i /\ res - (i - 1) = j
          /\ i \in 1 .. res /\ i - 1 \in 1 .. res
      BY <2>1
    <3> HIDE DEF j
    <3>2. low[i - 1] = q[j] /\ low[i] = q[j - 1]
      BY <2>5, <3>1
    <3> QED
      BY <2>3, <3>1, <3>2
  <2> QED
    BY <2>6, <2>7, <2>8, <2>9
<1> QED
  BY <1>1, Starts, Inductive, ExplainedStarts, ExplainedInductive, PTL DEF Spec

(* ifconfig's text has six characters and four of them are the digits of   *)
(* two bytes; a third byte must account for the 0 in front.                *)
LEMMA PrefixRefused ==
  ASSUME IInv, AcceptedIsTyped, pc = "done", NEW high \in Cells, NEW low \in Cells,
         in = PrintPan(high, low)
  PROVE  ~PanTaken
<1>1. /\ Len(in) = 6 /\ DOMAIN in = 1 .. 6 /\ in[2] = Other
      /\ in[4] # Other
  <2>1. high % 16 # Other
    BY CellIsByte
  <2> QED
    BY <2>1 DEF PrintPan
<1> SUFFICES ASSUME res \in 1 .. 2
             PROVE  FALSE
  BY DEF PanTaken
<1>2. PICK q \in [1 .. res -> 1 .. 6] :
        /\ q[1] <= 2 /\ q[res] = 6
        /\ \A i \in 2 .. res :
             \/ q[i - 1] = q[i] - 2
             \/ q[i - 1] = q[i] - 3 /\ in[q[i] - 2] = Other
  BY <1>1 DEF AcceptedIsTyped
<1>3. CASE res = 1
  BY <1>2, <1>3
<1>4. CASE res = 2
  <2>1. q[2] = 6 /\ q[1] <= 2 /\ q[1] \in Int
    BY <1>2, <1>4
  <2>2. 2 \in 2 .. res /\ 2 - 1 = 1 /\ 6 - 2 = 4 /\ 6 - 3 = 3
    BY <1>4
  <2>3. q[1] = 6 - 2 \/ (q[1] = 6 - 3 /\ in[6 - 2] = Other)
    BY <1>2, <2>1, <2>2
  <2> QED
    BY <1>1, <2>1, <2>2, <2>3
<1> QED
  BY <1>3, <1>4

(* What the shell shows of a PAN is not read back as that PAN, whatever    *)
(* the PAN and in a buffer of any size that holds its two bytes: with 0x   *)
(* it is turned down, and as send shows it its bytes are exchanged         *)
(* (cmd.c:48, 158-164, 345).                                               *)
THEOREM PansShownAreNotRead == Spec => []ShownPanIsNotRead
<1>1. IInv /\ AcceptedIsTyped /\ ShownCanBeTyped => ShownPanIsNotRead
  <2> SUFFICES ASSUME IInv, AcceptedIsTyped, ShownCanBeTyped, pc = "done", OutLen >= 2,
                      NEW high \in Cells, NEW low \in Cells
               PROVE  /\ in = PrintPan(high, low) => ~PanTaken
                      /\ in = PrintSentPan(high, low) =>
                           PanTaken /\ PanValue = 256 * low + high
    BY DEF ShownPanIsNotRead
  <2>1. in = PrintPan(high, low) => ~PanTaken
    BY PrefixRefused
  <2>2. ASSUME in = PrintSentPan(high, low)
        PROVE  PanTaken /\ PanValue = 256 * low + high
    <3> DEFINE a == <<low, high>>
    <3>1. a \in [1 .. 2 -> Cells] /\ a[1] = low /\ a[2] = high
      OBVIOUS
    <3>2. in = PrintAddr(a)
      BY <2>2 DEF PrintSentPan
    <3> HIDE DEF a
    <3>3. Address = a
      <4>1. 2 \in 1 .. OutLen
        BY OutLenAssumption
      <4> QED
        BY <3>1, <3>2, <4>1 DEF ShownCanBeTyped
    <3>4. res = 2 /\ \A j \in 1 .. 2 : out[j - 1] = a[j]
      BY <3>1, <3>3, AddressBytes
    <3>5. out[0] = low /\ out[1] = high
      <4>1. 1 \in 1 .. 2 /\ 2 \in 1 .. 2 /\ 1 - 1 = 0 /\ 2 - 1 = 1
        OBVIOUS
      <4>2. out[1 - 1] = a[1] /\ out[2 - 1] = a[2]
        BY <3>4, <4>1
      <4> QED
        BY <3>1, <4>1, <4>2
    <3> QED
      BY <3>4, <3>5 DEF PanTaken, PanValue
  <2> QED
    BY <2>1, <2>2
<1> QED
  BY <1>1, Invariant, AcceptedWasTyped, ShownIsTyped, PTL

-----------------------------------------------------------------------------
(* The scan and the reversal come to an end.                               *)

(* What is left to do: the characters not yet looked at, and then at most  *)
(* one step for every byte of the buffer.                                  *)
Left ==
  IF pc = "scan" THEN end + OutLen + 2 ELSE IF pc = "reverse" THEN hi + 1 ELSE 0

LeftLess == Left \in Nat /\ Left' \in Nat /\ Left' < Left

(* Every step of the parser is one towards its end, of which there are no  *)
(* more than the text has characters and the buffer has bytes, and two,    *)
(* whatever is typed (cmd.c:249-289): the part of Terminates that needs no *)
(* fairness.                                                               *)
THEOREM StepsRunOut == Spec => [][LeftLess]_vars
<1>1. ASSUME IInv, Next
      PROVE  LeftLess
  <2> USE DEF LeftLess
  <2>1. /\ end \in Nat /\ hi \in Nat /\ lo \in Nat /\ count \in Nat /\ OutLen \in Nat
        /\ count <= OutLen
    BY <1>1, OutLenAssumption DEF IInv, TypeOK, WithinBuffer
  <2>2. CASE Separator
    BY <2>1, <2>2 DEF Separator, Finish, Left
  <2>3. CASE Cell
    <3>1. pc = "scan" /\ end > 0 /\ end' = end - CellStep /\ pc' \in {"scan", "done"}
      BY <2>3 DEF Cell, Finish
    <3>2. CellStep \in {1, 2} /\ end - CellStep \in Nat
      BY <2>1, <3>1 DEF CellStep
    <3> QED
      BY <2>1, <3>1, <3>2 DEF Left
  <2>4. CASE Scanned
    BY <2>1, <2>4 DEF Scanned, Finish, Left
  <2>5. CASE Exchange
    BY <2>1, <2>5 DEF Exchange, Left
  <2>6. CASE Reversed
    BY <2>1, <2>6 DEF Reversed, Finish, Left
  <2> QED
    BY <1>1, <2>2, <2>3, <2>4, <2>5, <2>6 DEF Next
<1>2. IInv /\ [Next]_vars => [LeftLess]_vars
  BY <1>1
<1> QED
  BY <1>2, Invariant, PTL DEF Spec

=============================================================================
