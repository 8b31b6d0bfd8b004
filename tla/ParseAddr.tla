----------------------------- MODULE ParseAddr ------------------------------
(***************************************************************************)
(* _parse_addr of node_riot/signecc/cmd.c: how an address or a PAN typed   *)
(* at the shell becomes bytes.  The text is read from its end, two         *)
(* characters to a byte, into a buffer of the caller's size, which is then *)
(* reversed in place.                                                      *)
(*                                                                         *)
(* A character is its value as a hexadecimal digit, or Other.              *)
(***************************************************************************)
EXTENDS Integers, Sequences

CONSTANTS
  OutLen,           \* out_len, the size of the caller's buffer
  Digits,           \* bound: the digits typed, of the sixteen there are
  MaxLen            \* bound: the characters typed

ASSUME OutLenAssumption == OutLen \in Nat \ {0}
ASSUME DigitsAssumption == Digits \subseteq 0 .. 15 /\ 0 \in Digits
ASSUME MaxLenAssumption == MaxLen \in Nat

Other == -1         \* ':' and whatever else _dehex does not know
Chars == Digits \cup {Other}
Bytes == 0 .. 255

VARIABLES
  in,               \* the text
  end,              \* characters not yet looked at; end_str is the last of them
  out,              \* the caller's buffer
  count,            \* bytes written; out_end is out + count
  assert_cell,      \* a digit must come next
  lo, hi,           \* out and out_end of the reversal, as offsets
  pc,               \* "scan", "reverse" or "done"
  res               \* the result

vars == <<in, end, out, count, assert_cell, lo, hi, pc, res>>

-----------------------------------------------------------------------------

(* The callers' buffers: pan is zero; addr is not initialised, but no byte *)
(* of it that is not written is ever read, so zero stands for both.        *)
Init ==
  /\ in \in UNION {[1 .. k -> Chars] : k \in 0 .. MaxLen}
  /\ end = Len(in)
  /\ out = [i \in 0 .. OutLen - 1 |-> 0]
  /\ count = 0
  /\ assert_cell = TRUE
  /\ lo = 0 /\ hi = 0
  /\ pc = IF in = <<>> THEN "done" ELSE "scan"
  /\ res = 0

Finish(r) == pc' = "done" /\ res' = r

(* A plausible slip: a separator may follow a separator.                   *)
SeparatorTwice ==
  /\ pc = "scan" /\ end > 0 /\ in[end] = Other
  /\ end' = end - 1
  /\ IF count = 0
     THEN Finish(0) /\ UNCHANGED assert_cell
     ELSE assert_cell' = TRUE /\ UNCHANGED <<pc, res>>
  /\ UNCHANGED <<in, out, count, lo, hi>>

(* A character that is no digit: an error where a digit must come.         *)
Separator ==
  /\ pc = "scan" /\ end > 0 /\ in[end] = Other
  /\ end' = end - 1
  /\ IF assert_cell
     THEN Finish(0) /\ UNCHANGED assert_cell
     ELSE assert_cell' = TRUE /\ UNCHANGED <<pc, res>>
  /\ UNCHANGED <<in, out, count, lo, hi>>

(* A plausible slip: _dehex's default is -1 for the high digit, too.       *)
HighMinusOne == IF end > 1 THEN in[end - 1] ELSE 0

(* The high digit of a byte: the character before the low one, if any; one *)
(* that is no digit counts as zero and is passed over.                     *)
High == IF end > 1 /\ in[end - 1] # Other THEN in[end - 1] ELSE 0

CellStep == IF end > 1 THEN 2 ELSE 1

(* A plausible slip: the room left is looked at before the byte is counted.*)
FullLate == count > OutLen

(* ++count > out_len.                                                      *)
Full == count + 1 > OutLen

(* A digit: with the one before it, the next byte.                         *)
Cell ==
  /\ pc = "scan" /\ end > 0 /\ in[end] # Other
  /\ end' = end - CellStep
  /\ assert_cell' = FALSE
  /\ IF Full
     THEN Finish(0) /\ UNCHANGED <<out, count>>
     ELSE /\ out' = [out EXCEPT ![count] = High * 16 + in[end]]
          /\ count' = count + 1
          /\ UNCHANGED <<pc, res>>
  /\ UNCHANGED <<in, lo, hi>>

(* A plausible slip: the last byte is left out of the reversal.            *)
ScannedShort ==
  /\ pc = "scan" /\ end = 0
  /\ IF assert_cell
     THEN Finish(0) /\ UNCHANGED hi
     ELSE pc' = "reverse" /\ hi' = count - 1 /\ UNCHANGED res
  /\ UNCHANGED <<in, end, out, count, assert_cell, lo>>

(* The text is used up.                                                    *)
Scanned ==
  /\ pc = "scan" /\ end = 0
  /\ IF assert_cell
     THEN Finish(0) /\ UNCHANGED hi
     ELSE pc' = "reverse" /\ hi' = count /\ UNCHANGED res
  /\ UNCHANGED <<in, end, out, count, assert_cell, lo>>

(* while (out < --out_end): exchange the two, out++.                       *)
Exchange ==
  /\ pc = "reverse" /\ lo < hi - 1
  /\ out' = [out EXCEPT ![lo] = out[hi - 1], ![hi - 1] = out[lo]]
  /\ lo' = lo + 1 /\ hi' = hi - 1
  /\ UNCHANGED <<in, end, count, assert_cell, pc, res>>

(* A plausible slip: the reversal ends when the two offsets meet, which    *)
(* they do for an odd number of bytes only.                                *)
ReversedWhenMet ==
  /\ pc = "reverse" /\ lo = hi - 1
  /\ Finish(count)
  /\ UNCHANGED <<in, end, out, count, assert_cell, lo, hi>>

Reversed ==
  /\ pc = "reverse" /\ lo >= hi - 1
  /\ Finish(count)
  /\ UNCHANGED <<in, end, out, count, assert_cell, lo, hi>>

Next == Separator \/ Cell \/ Scanned \/ Exchange \/ Reversed

Spec == Init /\ [][Next]_vars /\ WF_vars(Next)

-----------------------------------------------------------------------------
(* What the result is used for.                                            *)

(* The bytes returned.                                                     *)
Address == [i \in 1 .. res |-> out[i - 1]]

(* (res <= 0) || (res > sizeof(pan)) turns a PAN down.                     *)
PanTaken == res \in 1 .. 2

(* A plausible slip: the PAN is used as it was parsed.                     *)
PanUnswapped == out[0] + 256 * out[1]

(* The PAN of a command: the two bytes of pan, swapped, taken as a         *)
(* little-endian number.                                                   *)
PanValue == 256 * out[0] + out[1]

(* print_addr: two digits to a byte, a colon between bytes.                *)
PrintAddr(a) ==
  [i \in 1 .. 3 * Len(a) - 1 |->
    LET byte == a[(i + 2) \div 3]
    IN  IF i % 3 = 0 THEN Other ELSE IF i % 3 = 1 THEN byte \div 16 ELSE byte % 16]

(* "0x%04x", as ifconfig prints the PAN of these two bytes; the x is no    *)
(* digit.                                                                  *)
PrintPan(high, low) ==
  <<0, Other, high \div 16, high % 16, low \div 16, low % 16>>

(* send has print_addr show the same PAN as the bytes of its little-endian *)
(* number.                                                                 *)
PrintSentPan(high, low) == PrintAddr(<<low, high>>)

-----------------------------------------------------------------------------

TypeOK ==
  /\ in \in Seq(Chars)
  /\ end \in 0 .. Len(in)
  /\ out \in [0 .. OutLen - 1 -> Bytes]
  /\ count \in Nat
  /\ assert_cell \in BOOLEAN
  /\ lo \in Nat /\ hi \in Nat
  /\ pc \in {"scan", "reverse", "done"}
  /\ res \in Nat

(* Nothing is written beyond the caller's buffer, whatever is typed; the   *)
(* reversal stays within the bytes that were written; and the result       *)
(* counts them (cmd.c:255-288).                                            *)
WithinBuffer ==
  /\ count <= OutLen
  /\ pc = "reverse" => lo + hi = count /\ hi > 0
  /\ res # 0 => pc = "done" /\ res = count

(* The bytes whose digits are among those typed.                           *)
Cells == {16 * h + l : h, l \in Digits}

(* An address that print_addr shows can be typed back: one of at most      *)
(* OutLen bytes is read as the same bytes (addr.c:21-29, cmd.c:241-289).   *)
ShownCanBeTyped ==
  pc = "done" =>
    \A k \in 1 .. OutLen :
      \A a \in [1 .. k -> Cells] : in = PrintAddr(a) => Address = a

(* The byte whose low digit is at j.                                       *)
ByteAt(j) == (IF j > 1 /\ in[j - 1] # Other THEN in[j - 1] ELSE 0) * 16 + in[j]

(* Nothing is read into a text that is not there, whatever is typed: the   *)
(* bytes of an accepted one account for all its characters, from the first *)
(* to the last.  Between the low digits of two bytes there is the high     *)
(* digit of the second, or what stands for it, and at most one separator   *)
(* before that (cmd.c:255-289).                                            *)
AcceptedIsTyped ==
  pc = "done" /\ res > 0 =>
    \E low \in [1 .. res -> DOMAIN in] :
      /\ low[1] <= 2 /\ low[res] = Len(in)
      /\ \A i \in 1 .. res : in[low[i]] # Other /\ Address[i] = ByteAt(low[i])
      /\ \A i \in 2 .. res :
           \/ low[i - 1] = low[i] - 2
           \/ low[i - 1] = low[i] - 3 /\ in[low[i] - 2] = Other

(* A PAN typed with all its four digits is the number they spell, if there *)
(* is room for its two bytes; two digits are its high byte, and not the    *)
(* number they spell (cmd.c:158-164).                                      *)
PanIsNumber ==
  pc = "done" /\ OutLen >= 2 /\ (\A i \in DOMAIN in : in[i] # Other) =>
    /\ Len(in) = 4 =>
         PanTaken /\ PanValue = ((in[1] * 16 + in[2]) * 16 + in[3]) * 16 + in[4]
    /\ Len(in) = 2 => PanTaken /\ PanValue = (in[1] * 16 + in[2]) * 256

(* A PAN cannot be typed back as it is shown: ifconfig's text is turned    *)
(* down, as its 0x makes a third byte, and send's is taken for the PAN     *)
(* with its two bytes exchanged (cmd.c:48, 158-164, 345).                  *)
ShownPanIsNotRead ==
  pc = "done" /\ OutLen >= 2 =>
    \A high, low \in Cells :
      /\ in = PrintPan(high, low) => ~PanTaken
      /\ in = PrintSentPan(high, low) => PanTaken /\ PanValue = 256 * low + high

(* Every text is read to an end.                                           *)
Terminates == <>(pc = "done")
=============================================================================
