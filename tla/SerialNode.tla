----------------------------- MODULE SerialNode -----------------------------
(***************************************************************************)
(* The node that is given its key over a serial line and then signs a      *)
(* counter (node/src/main.c), and the script that gives it the key and     *)
(* verifies what it sends (pythonScript/ECDSA_provideKeyAndVerify.py).     *)
(*                                                                         *)
(* The node may be reset and the script started anew at any moment; every  *)
(* run of the script makes a key of its own.  The line may lose bytes, and *)
(* readline returns what it has got when nothing comes for a second.       *)
(*                                                                         *)
(* External: PrintfDmaGetData, which is not in the repository, returns all *)
(* that has been received since the reset (only so can the loop that waits *)
(* for 32 bytes end when it looks in the middle of a transfer); the HAL,   *)
(* whose clock configuration may fail; the cryptographic libraries, whose  *)
(* signature verifies with the key and the digest it was made from and no  *)
(* other, and which may fail to read a number or to hash, for want of      *)
(* memory, or to sign, for instance when the generator could not be        *)
(* seeded.                                                                 *)
(***************************************************************************)
EXTENDS Integers, Sequences

CONSTANTS
  KeyLen,           \* bytes of a key (32)
  Base,             \* sprintf's "%d" prints in base 10
  CounterMod,       \* genericCounter counts modulo this (2^8)
  SigWords,         \* words of r and s together (16)
  Runs,             \* bound: runs of the script
  Faults,           \* bound: resets of the node, bursts of bytes lost, and
                    \* failures of calls whose results are ignored, in all
  PortSize          \* bound: the node prints no line that does not fit

ASSUME SizesAssumption ==
  /\ KeyLen \in Nat \ {0} /\ Base \in Nat \ {0, 1} /\ CounterMod \in Nat \ {0}
  /\ SigWords \in Nat \ {0}
  /\ Runs \in Nat /\ Faults \in Nat /\ PortSize \in Nat

VARIABLES
  run,              \* the run of the script in progress, 0 before the first
  written,          \* bytes this run has written
  missing,          \* bytes among them that are not in what the node holds
  node,             \* "boot", "stopped", "waiting" for its key, or "signing"
  rx,               \* bytes received since the reset, until the key is read
  key,              \* privateKey
  message,          \* the text buffer that is hashed
  counter,          \* genericCounter
  digest,           \* the global the hash is put into
  signature,        \* the global the signature is put into
  port,             \* what the node has printed and the script has not read
  shown,            \* what the script has printed last
  faults            \* bound: how many there have been

hostVars == <<run, written, missing, shown>>
nodeVars == <<node, rx, key, message, counter, digest, signature>>
vars == <<hostVars, nodeVars, port, faults>>

-----------------------------------------------------------------------------

(* The script writes the key's bytes and a zero byte.                      *)
Zero == <<0, 0>>
HostKey(k) == [i \in 1 .. KeyLen |-> <<k, i>>]
Transfer == KeyLen + 1
Finished == run > 0 /\ written = Transfer

(* The digits of a number, most significant first.                         *)
Digits[c \in Nat] ==
  IF c < Base THEN <<c>> ELSE Append(Digits[c \div Base], c % Base)

Nul == -1           \* a zero byte in the text buffer
MsgLen == Len(Digits[CounterMod - 1]) + 1       \* 128 in the code; the rest stays zero
Blank == [i \in 1 .. MsgLen |-> Nul]

(* sprintf(message, "%d", counter): the digits and a zero byte; what is    *)
(* behind them stays.                                                      *)
Sprintf(buf, c) ==
  LET d == Digits[c]
  IN  [i \in 1 .. MsgLen |->
        IF i <= Len(d) THEN d[i] ELSE IF i = Len(d) + 1 THEN Nul ELSE buf[i]]

(* A digest stands for what it is computed from, the whole buffer; Blank,  *)
(* which is never hashed, for the zeros before the first one.  History: at *)
(* is the counter in whose round a digest was printed or a signature made, *)
(* fresh, that the hash had been computed in that round.  zero: a word of  *)
(* the signature is zero; which one makes no difference.                   *)
NoSignature ==
  [key |-> <<>>, digest |-> Blank, at |-> 0, fresh |-> FALSE, zero |-> FALSE]

-----------------------------------------------------------------------------
(* What is printed, in tokens.  cut is history: what the node printed just *)
(* before this token is not in the data the script has, or was read apart. *)

Mark(is) == [is |-> is, cut |-> FALSE]
Sp   == Mark("sp")
Nl   == Mark("nl")
Text == Mark("text")            \* neither a blank nor what can be verified

Message(c)        == [is |-> "msg", at |-> c, cut |-> FALSE]
DigestOf(b, c, f) == [is |-> "digest", of |-> b, at |-> c, fresh |-> f, cut |-> FALSE]
Word(s, n)        == [is |-> "word", sig |-> s, n |-> n, cut |-> FALSE]

(* printMpi of r and of s: every word but those that are zero; nothing of  *)
(* numbers that have never been set.                                       *)
PrintMpi(s) ==
  IF s = NoSignature THEN <<>>
  ELSE [n \in 1 .. SigWords - (IF s.zero THEN 1 ELSE 0) |-> Word(s, n)]

(* A plausible slip: the line is printed when the counter has been         *)
(* incremented.                                                            *)
RoundLineLate(c, b, f, s) ==
  <<Message((c + 1) % CounterMod), Sp, DigestOf(b, c, f), Sp>> \o PrintMpi(s) \o <<Nl>>

(* "%s ", the digest, " ", r and s, "\r\n".                                *)
RoundLine(c, b, f, s) ==
  <<Message(c), Sp, DigestOf(b, c, f), Sp>> \o PrintMpi(s) \o <<Nl>>
LineLen == SigWords + 5

(* "STM32L432 Nucleo", which stands for all lines of the welcome; the      *)
(* private key and "Initialization Done", after any traced errors.         *)
Banner == <<Text, Sp, Text, Nl>>

CutFirst(p) == IF p = <<>> THEN p ELSE [p EXCEPT ![1].cut = TRUE]

(* p without its first k tokens.                                           *)
From(p, k) == SubSeq(p, k + 1, Len(p))

Init ==
  /\ run = 0 /\ written = 0 /\ missing = 0
  /\ node = "boot" /\ rx = <<>> /\ key = <<>>
  /\ message = Blank /\ counter = 0 /\ digest = Blank /\ signature = NoSignature
  /\ port = <<>> /\ shown = "nothing"
  /\ faults = 0

(* n more things have gone wrong.                                          *)
Fault(n) == faults + n <= Faults /\ faults' = faults + n

-----------------------------------------------------------------------------
(* The script, up to its loop.                                             *)

(* Generate a key pair and open the port, which discards what has come.    *)
Start ==
  /\ run < Runs
  /\ run' = run + 1
  /\ written' = 0 /\ missing' = 0
  /\ port' = <<>>
  /\ shown' = "nothing"
  /\ UNCHANGED <<nodeVars, faults>>

(* ser.write, byte by byte.  A node that boots does not receive yet, one   *)
(* that is signing no longer looks.                                        *)
Write ==
  /\ run > 0 /\ written < Transfer
  /\ written' = written + 1
  /\ \/ /\ rx' = IF node = "waiting"
                 THEN Append(rx, IF written < KeyLen THEN <<run, written + 1>> ELSE Zero)
                 ELSE rx
        /\ missing' = IF node = "boot" THEN missing + 1 ELSE missing
        /\ UNCHANGED faults
     \/ /\ Fault(1)
        /\ missing' = missing + 1
        /\ UNCHANGED rx
  /\ UNCHANGED <<run, shown, node, key, message, counter, digest, signature, port>>

-----------------------------------------------------------------------------
(* The node.                                                               *)

(* The reset button, or the power: memory is as in Init, what the current  *)
(* run has written is gone, and so is what of the last line is not yet     *)
(* sent.                                                                   *)
Reset ==
  /\ Fault(1)
  /\ node' = "boot" /\ rx' = <<>> /\ key' = <<>>
  /\ message' = Blank /\ counter' = 0 /\ digest' = Blank /\ signature' = NoSignature
  /\ missing' = written
  /\ \E k \in 0 .. LineLen :
       k <= Len(port) /\ port' = SubSeq(port, 1, Len(port) - k)
  /\ UNCHANGED <<run, written, shown>>

(* Either call of the HAL may fail; then the function does not return.     *)
SystemClock_Config == node' \in {"waiting", "stopped"}

(* HAL_Init up to the welcome message.                                     *)
Boot ==
  /\ node = "boot"
  /\ SystemClock_Config
  /\ port' = IF node' = "waiting" THEN port \o Banner ELSE port
  /\ UNCHANGED <<hostVars, rx, key, message, counter, digest, signature, faults>>

(* From the RNG to "Initialization Done": the errors of seeding are traced *)
(* and nothing else; when mpiReadRaw fails, the key stays zero.            *)
ZeroKey == [i \in 1 .. KeyLen |-> Zero]
Initialise(bytes) ==
  /\ node' = "signing"
  /\ \E read \in BOOLEAN :
       /\ key' = IF read THEN SubSeq(bytes, 1, KeyLen) ELSE ZeroKey
       /\ Fault(IF read THEN 0 ELSE 1)
  /\ port' = port \o Banner
  /\ rx' = <<>>
  /\ UNCHANGED <<hostVars, message, counter, digest, signature>>

(* A plausible slip: one byte short, in whose place the buffer has a zero. *)
PollShort ==
  /\ node = "waiting" /\ Len(rx) >= KeyLen - 1
  /\ Initialise(Append(rx, Zero))

(* A plausible slip: the loop waits for the zero byte, too.                *)
PollWhole ==
  /\ node = "waiting" /\ Len(rx) >= KeyLen + 1
  /\ Initialise(rx)

(* The loop that polls until it gets 32 bytes or more ends, and the key is *)
(* read from the first 32.                                                 *)
Poll ==
  /\ node = "waiting" /\ Len(rx) >= KeyLen
  /\ Initialise(rx)

(* A plausible slip: the counter is wider than its 8 bits.                 *)
NextCounterWide == counter + 1

NextCounter == (counter + 1) % CounterMod

(* SHA256_HASH_ALGO->compute, whose result is not looked at: the digest of *)
(* the buffer, or the one of an earlier round stays.                       *)
Compute(computed) == digest' = IF computed THEN message' ELSE digest

(* ecdsaGenerateSignature, whose result is not looked at either: a new     *)
(* signature of what is in digest, or the one of an earlier round stays.   *)
Sign(made, computed) ==
  IF made
  THEN \E zero \in BOOLEAN :
         signature' = [key |-> key, digest |-> digest', at |-> counter,
                       fresh |-> computed, zero |-> zero]
  ELSE UNCHANGED signature

(* One round of the endless loop: print the counter, hash the buffer, sign *)
(* the digest, print the line.                                             *)
Round ==
  /\ node = "signing"
  /\ Len(port) + LineLen <= PortSize
  /\ message' = Sprintf(message, counter)
  /\ \E computed, made \in BOOLEAN :
       /\ Compute(computed)
       /\ Sign(made, computed)
       /\ port' = port \o RoundLine(counter, digest', computed, signature')
       /\ Fault((IF computed THEN 0 ELSE 1) + (IF made THEN 0 ELSE 1))
  /\ counter' = NextCounter
  /\ UNCHANGED <<hostVars, node, rx, key>>

-----------------------------------------------------------------------------
NewLines == {i \in DOMAIN port : port[i].is = "nl"}

(* The line: the tokens from i up to j get lost, or part of token i, which *)
(* leaves what is no token any more.  Nobody can tell when this happens    *)
(* before the script is about to read i.                                   *)
Lose ==
  /\ Finished /\ Fault(1)
  /\ \E i, j \in DOMAIN port :
       /\ \A l \in NewLines : i <= l
       /\ \/ i < j /\ port' = SubSeq(port, 1, i - 1) \o CutFirst(From(port, j - 1))
          \/ /\ i = j /\ port[i].is \notin {"sp", "nl"}
             /\ port' = [port EXCEPT ![i] = [Text EXCEPT !.cut = TRUE]]
  /\ UNCHANGED <<hostVars, nodeVars>>

-----------------------------------------------------------------------------
(* The loop of the script.                                                 *)

(* The fields of data, which split(" ") makes, are three when there are    *)
(* two blanks; strip() takes the end of the line away.                     *)
Blanks(line) == {i \in DOMAIN line : line[i].is = "sp"}
Parses(line) == \E i, j \in DOMAIN line : i # j /\ Blanks(line) = {i, j}

(* A plausible slip: the end of the line is not taken away.                *)
StripNothing(line) == line

Strip(line) ==
  IF line # <<>> /\ line[Len(line)].is = "nl" THEN SubSeq(line, 1, Len(line) - 1) ELSE line

(* The one token of the second field, and the third field.                 *)
DigestIn(line) == LET l == Strip(line) IN l[Len(l) - SigWords - 1]
WordsIn(line)  == LET l == Strip(line) IN SubSeq(l, Len(l) - SigWords + 1, Len(l))

(* PublicKey.verify_digest(unhexlify(sign), unhexlify(digest)) raises      *)
(* nothing: the fields are a whole digest and the words of a signature.    *)
(* The first field is not looked at.                                       *)
WellFormed(line) ==
  LET l == Strip(line)
      j == Len(l) - SigWords
  IN  /\ j > 2 /\ Blanks(l) = {j - 2, j}
      /\ l[j - 1].is = "digest"
      /\ \A n \in 1 .. SigWords :
           /\ l[j + n].is = "word" /\ l[j + n].n = n
           /\ l[j + n].sig = l[j + 1].sig

(* A plausible slip: the digest in the line is not compared with what was  *)
(* signed.                                                                 *)
VerifiesAny(line) ==
  WellFormed(line) /\ WordsIn(line)[1].sig.key = HostKey(run)

Verifies(line) ==
  /\ WellFormed(line)
  /\ WordsIn(line)[1].sig.key = HostKey(run)
  /\ WordsIn(line)[1].sig.digest = DigestIn(line).of

(* "Signature verified", "Signature rejected", "ERROR parsing".            *)
Verdict(line) ==
  IF Verifies(line) THEN "verified" ELSE IF Parses(line) THEN "rejected" ELSE "unparsed"

Take(k) ==
  /\ shown' = Verdict(SubSeq(port, 1, k))
  /\ UNCHANGED <<run, written, missing, nodeVars, faults>>

(* readline returns a line.                                                *)
Read ==
  /\ Finished
  /\ \E k \in NewLines :
       /\ \A i \in NewLines : k <= i
       /\ Take(k) /\ port' = From(port, k)

(* readline returns the beginning of a line, after a second of silence.    *)
ReadTimeout ==
  /\ Finished
  /\ \E k \in DOMAIN port :
       /\ \A i \in NewLines : k < i
       /\ Take(k) /\ port' = CutFirst(From(port, k))

Next ==
  \/ Start \/ Write \/ Reset \/ Boot \/ Poll \/ Round \/ Lose
  \/ Read \/ ReadTimeout

(* The script's writes and the node's program go on by themselves; nobody  *)
(* has to start the script or to reset the node.                           *)
Spec ==
  /\ Init /\ [][Next]_vars
  /\ WF_vars(Write) /\ WF_vars(Boot) /\ WF_vars(Poll)

-----------------------------------------------------------------------------

Byte == {Zero} \cup ((1 .. Runs) \X (1 .. KeyLen))
Counters == 0 .. CounterMod - 1
Buffer == [1 .. MsgLen -> {Nul} \cup 0 .. Base - 1]
Signature == [key: Seq(Byte), digest: Buffer, at: Counters, fresh: BOOLEAN, zero: BOOLEAN]
Token ==
  [is: {"sp", "nl", "text"}, cut: BOOLEAN]
    \cup [is: {"msg"}, at: Counters, cut: BOOLEAN]
    \cup [is: {"digest"}, of: Buffer, at: Counters, fresh: BOOLEAN, cut: BOOLEAN]
    \cup [is: {"word"}, sig: Signature, n: 1 .. SigWords, cut: BOOLEAN]

(* Types, and: a node that signs has a key of full length.                 *)
TypeOK ==
  /\ run \in 0 .. Runs /\ written \in 0 .. Transfer /\ missing \in 0 .. written
  /\ node \in {"boot", "stopped", "waiting", "signing"}
  /\ rx \in Seq(Byte) /\ key \in Seq(Byte)
  /\ node = "signing" => Len(key) = KeyLen
  /\ message \in Buffer /\ counter \in Counters
  /\ digest \in Buffer /\ signature \in Signature
  /\ port \in Seq(Token)
  /\ shown \in {"nothing", "verified", "rejected", "unparsed"}
  /\ faults \in 0 .. Faults

(* The node takes the key of the run in progress when it holds every byte  *)
(* written since then and none of an earlier run, whether or not the zero  *)
(* byte has come by the time it looks; or none at all, when mpiReadRaw     *)
(* fails (main.c:82-87, 137).                                              *)
LoadsWholeKey ==
  [][node = "waiting" /\ node' = "signing" /\ missing = 0 /\ rx[1] = <<run, 1>>
       => key' \in {HostKey(run), ZeroKey}]_vars

(* The zero byte after the key makes good the loss of one byte, as far as  *)
(* the waiting goes: a node that has got all but one starts to sign        *)
(* (main.c:83, ECDSA_provideKeyAndVerify.py:32-33).                        *)
StartsDespiteOneLoss ==
  (Finished /\ missing <= 1) ~>
    (node \in {"signing", "stopped"} \/ ~Finished \/ missing > 1)

(* The data a step of the script reads: nothing else shortens the port and *)
(* counts no run and no fault.                                             *)
Data == SubSeq(port, 1, Len(port) - Len(port'))
Reads == Len(port') < Len(port) /\ UNCHANGED <<run, faults>>

(* What the script reports as verified was signed in the round whose       *)
(* digest the line shows, or a whole number of the counter's cycles        *)
(* before: the signature of another round, printed again when signing      *)
(* fails, does not pass.  Where hashing has failed, in the line's round or *)
(* in the signature's, a digest of an earlier round is printed or signed,  *)
(* and passes (main.c:158-168).                                            *)
VerifiedWasSigned ==
  [][LET d == DigestIn(Data)
         s == WordsIn(Data)[1].sig
     IN  Reads /\ shown' = "verified" /\ d.fresh /\ s.fresh => s.at = d.at]_vars

Intact(line) == \A i \in DOMAIN line : ~line[i].cut

(* What is in the buffer begins with the text of c.                        *)
Begins(b, c) ==
  /\ \A i \in DOMAIN Digits[c] : b[i] = Digits[c][i]
  /\ b[Len(Digits[c]) + 1] = Nul

(* The script never compares the digest with the message.  Even so, the    *)
(* message it reports as verified is that of the round the digest was      *)
(* printed in, unless bytes of that line were lost or readline timed out   *)
(* in it: resets, restarts and boot messages cannot pair them wrongly.  It *)
(* is also what was hashed, but for what is behind it in the buffer,       *)
(* unless hashing failed in that round: then the message is shown as       *)
(* verified with the digest of an earlier one                              *)
(* (ECDSA_provideKeyAndVerify.py:38-45, main.c:158-166).                   *)
MessageBelongs ==
  [][LET d == DigestIn(Data)
     IN  Reads /\ shown' = "verified" /\ Intact(Data) =>
           Data[1] = Message(d.at) /\ (d.fresh => Begins(d.of, d.at))]_vars

Whole(line) ==
  /\ Intact(line) /\ line[Len(line)] = Nl
  /\ \A i \in DOMAIN line : line[i].is # "text"

(* A line that arrives whole is turned down for one of four reasons only:  *)
(* there is no signature yet, it was made with another key than this run's *)
(* or of another digest, or printMpi has left out a word that is zero.     *)
(* Lines with text are those of the boot (main.c:32-39, 157-166).          *)
RefusedForAReason ==
  [][LET last == Data[Len(Data) - 1]
     IN  Reads /\ shown' # "verified" /\ Whole(Data)
           => \/ last.is # "word"
              \/ last.sig.key # HostKey(run)
              \/ last.sig.digest # Data[3].of
              \/ last.sig.zero]_vars

(* "(message, digest, signature)" (README.md:53): the digest in a line is  *)
(* that of the message in it, which stands alone in the buffer.            *)
DigestIsOfMessage ==
  \A i \in DOMAIN port :
    port[i].is = "digest" => port[i].of = Sprintf(Blank, port[i].at)
=============================================================================
