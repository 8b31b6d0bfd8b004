# ppml_IoT: models, checks and proofs

This directory specifies the programs of this repository in TLA+, checks the
specifications with TLC on small instances, and proves what matters most about
them, for every size, with TLAPS. Paths below are relative to `src/`.

## 1. The system

The repository holds three small systems that sign data with ECDSA on
microcontrollers, and the scripts that check the signatures.

| Part | Code | State | Operations | Model |
|---|---|---|---|---|
| signecc boot, interrupt hand-over | `node_riot/signecc/main.c` | `_recv_pid`, the receiving thread, what the radio has latched | `main`, `_event_cb`, `_recv_thread` | `RecvThread` |
| signecc receiving thread | `node_riot/signecc/recv.c` | the static `buffer`, `dev->seq` | `recv` (sign, verify, print), `send2` | `Signecc` |
| signecc shell | `node_riot/signecc/cmd.c` | `dev->seq`, frames being laid out | `txtreqsign`, `txtsnd`, `send`, `_parse_addr`, `ifconfig` | `Signecc`, `ParseAddr` |
| signecc address printing | `node_riot/signecc/addr.c` | none | `print_addr` | `ParseAddr` |
| serial node | `node/src/main.c` | received bytes, key, text buffer, `genericCounter`, signature | set up the clock, wait for the key, load it, sign the counter for ever | `SerialNode` |
| its script | `pythonScript/ECDSA_provideKeyAndVerify.py` | key pair, port | write the key, read lines or parts of them, verify | `SerialNode` |
| sensor application | `node_riot/iotlabm3_sensors/main.c` | the variables the sensors are read into | initialise, read, print | `Sensors` |
| signing sensor application | `node_riot/iotlabm3_sensors_sign/main.c` | record, hash, signature | read, hash, sign, print three lines | `Sensors`, `SignedLog` |
| offline verifier | `pythonScript/signDataParse.py` | `data`, `hashing`, `signature` | read a capture line by line | `SignedLog` |
| ECDSA test suite | `node/src/ecdsa_test_suite.c` | one error code, keys, signature | a sequential self test, never called: seed, load, hash, sign, verify, release | `EcdsaTestSuite` |
| STM32 templates, configuration | `node/startup*`, `node/RTE`, `node/inc`, `system_*.c`, `stm32l4xx_it.c` | | | not modelled: vendor templates and generated macros without state of this program |

How they interact:

- **signecc.** On every board three contexts share one processor: the shell (in
  `main()`), the receiving thread of higher priority, and the radio's interrupt.
  The interrupt reaches the thread by `msg_send` without a queue; shell and
  thread share `dev->seq` and the radio. Boards talk in 802.15.4 frames whose
  first payload byte is 0xFF (request to sign), 0xFE (signature and hash) or
  anything else (text).
- **Serial node.** A script writes 32 key bytes and a zero byte; the node polls
  until it has 32, and then prints `counter digest signature` twice a second;
  the script verifies what `readline` gives it, a line or, after a second of
  silence, a part of one. Either side can be restarted at any time and neither
  tells the other.
- **Sensors.** The board reads its sensors every second and (in one of the two
  applications) signs what it has read and prints it. A capture of the console
  is verified later by a script that knows a line by its first word.

What makes it hard, each with its place in `PROJECT.json` under "hazards":

- the interrupt that comes while the thread is busy, not yet created, or not yet
  known by its pid (`signecc/main.c:54`, `:105`);
- `dev->seq++` in two threads (`cmd.c:330`, `recv.c:112`) and its wrap;
- frames lost, repeated, reordered, overwritten in the radio's one buffer;
  frames without a payload, after which `recv()` goes by what an earlier frame
  has left in its buffer, from wherever the new header ends (`recv.c:239`); and
  frames shorter than their header, or not read at all, on which it runs on
  through the memory (`recv.c:167`, `:229`);
- signing or sending that fails in the middle of `recv()` (`recv.c:265`, `:286`);
- PANs of which 0 means "none" (`recv.c:97`), addresses typed in any form
  (`cmd.c:241-289`), and PANs shown in another form than they are typed in
  (`cmd.c:48`, `:345`);
- resets and restarts in the middle of a key transfer, lost bytes, the byte
  that makes good for one of them (`node/src/main.c:82-87`);
- lines cut by a reset, by lost bytes or by `readline`'s timeout, and a script
  that compares the digest with the signature but not with the message
  (`ECDSA_provideKeyAndVerify.py:38-45`);
- a text buffer that is hashed whole (`node/src/main.c:159`) and a counter of 8
  bits; words of a signature that are not printed (`node/src/main.c:37`);
- errors that are overwritten or never looked at (`ecdsa_test_suite.c:65-201`,
  `node/src/main.c:115-160`): a hash that could not be computed leaves that of an
  earlier round, a key that could not be read leaves zero;
- readings that fail and leave old values (`iotlabm3_sensors_sign/main.c:216`),
  damaged captures (`signDataParse.py:35-51`).

## 2. The modules

### RecvThread: boot and interrupt hand-over

`main[n]` is how far `main()` has come, `thread[n]` where the receiving thread
is, `status[n]` what the radio has latched, `irq[n]` a pending interrupt,
`missed[n]` that `_event_cb` has printed "possibly lost interrupt".
`InitDevice`, `CreateThread`, `PublishPid` are the three steps of `main()` that
an interrupt can tell apart; `EventCbIsr` is `_event_cb` in interrupt context;
`Isr` is `driver->isr` in the thread, up to the `driver->recv` with which
`recv()` begins; `Discard`, `Handle`, `Return` are the ways through `recv()`.
`Overrun` is the way that does not lead out: `recv.c:167` does not look at what
`driver->recv` returns, and with fewer bytes than the header takes
`data_len - mhr_len` in line 229 is almost all of the address space.
External are the radio (`RadioEvent`), which may raise one interrupt or several
for events it has latched already; the kernel: `msg_send` from an interrupt
delivers to a thread blocked in `msg_receive` and to no other; and the processor,
which faults some time after an overrun (`HardFault`) and then runs nothing.

### SignService: what the boards promise

The abstract service: `asked`, the messages in flight and each board's last
verdict; `Ask`, `Answer`, `Judge`, `Forget`. No threads, radios, headers, PANs
or sequence numbers. Messages may be lost or used many times. `Disturb` is what
the service cannot exclude: something that is no answer is refused as if it were
one; `disturbed` marks a verdict that comes from there. It is never an "OK".

### Signecc: the network

Extends the state of `RecvThread` (through `RT == INSTANCE RecvThread`) by
`seq`, the command in progress in each shell, the frames sent, each radio's
buffer, the static buffer of each `recv.c`, the last verdict. A shell command is three
steps: `Load` (parse, lay out the frame, load `dev->seq`), `Store` (the other half of
`dev->seq++`), `Transmit`; the receiving thread can preempt between them, and
the shell runs only while the thread is blocked. `Answer`, `Judge`,
`NotRecognized` are the cases of the switch in `recv()`, each with the `Handle`
step of `RecvThread`; `Misjudge` is the second of them for bytes that are no
answer. `air` only grows: a frame in it may be received at any
later time, any number of times, or never, which is loss, delay, reordering and
the repetition by MAC retransmissions.

The static buffer is kept by where a payload may begin in it: `behind[n][h]` is
what lies from byte `h` on, for every length `h` of a MAC header (`HdrLens`; the
lengths that occur between two PANs are `HdrLen`, since a header names one PAN or
two, and short addresses or long). `Copied` is `driver->recv`: the payload of the
new frame lies behind its header; behind the header of a frame without one lies
what was there; at any other place the frame may have overwritten a part, so the
byte found there is a "stray" one, which may be any. `Parsed` is
`buffer[mhr_len]` with the length of the new header, and `Switch` goes into any
case for a stray byte. Foreign frames are those of a `Stranger`, with a header of
any length and no payload, and those whose header cannot be read or is longer
than the frame (`Unreadable`), which is also what a failed `driver->recv` gives;
`Discard` and `Overrun` are what becomes of the latter.

`Service == INSTANCE SignService WITH asked <- Asked, inflight <- InFlight,
disturbed <- misread` is the refinement: the requests that have been sent, the
frames of the service that may still be received, and whether the last verdict
was on stray bytes.

### ParseAddr: addresses at the shell

`_parse_addr`, one action per iteration of its two loops and per exit, over a
text of digits and separators; `print_addr`, the check of a PAN's length and its
byte swap, and the two forms in which a PAN is shown (`PrintPan` by `ifconfig`,
`PrintSentPan` by `send`) as operators.

### SerialNode: key transfer and signing loop

The node (`node`, `rx`, `key`, `message`, `counter`, `digest`, `signature`), the script
(`run`, `written`, `missing`, `shown`) and the line between them: bytes towards
the node, tokens (`port`) towards the script.

- `Start` is the script up to its loop: a new key pair, and the port opened,
  which discards what had come. `Write` is one byte of `ser.write`; it may be lost,
  it is not received while the node boots, and nobody looks at it once the node
  signs.
- `Boot` is `main()` up to the welcome; `SystemClock_Config` may never return
  (`"stopped"`). `Poll` is the end of the loop that waits for 32 bytes, and
  `Initialise` what follows up to "Initialization Done", where reading the key
  may fail (`ZeroKey`). `Round` is one turn of the endless loop: `Sprintf` into the
  buffer (what is behind the terminator stays), `Compute`, the digest of the whole
  buffer, which may fail and leave that of an earlier round to be signed and
  printed, `Sign`, which may fail as well and leave the signature of an earlier
  round, `RoundLine`, `NextCounter`. `Faults` bounds these failures, the
  resets and the bursts of lost bytes together.
- A token is a blank, an end of line, a text that cannot be verified, a message
  (the counter), a digest, which stands for the buffer it is of, or one word of
  a signature; `PrintMpi` leaves out a word that is zero. `Lose` removes tokens or
  damages one; `Reset` cuts what has not been sent. History fields record the
  round a digest was printed or a signature made in (`at`), that the hash was
  computed in that round (`fresh`), and that what preceded a token is missing
  (`cut`); no guard looks at them.
- `Read` and `ReadTimeout` are one turn of the script's loop each, with a whole
  line and with the beginning of one. `Parses` (`split` gives three fields),
  `Strip`, `WellFormed` (`unhexlify` and `verify_digest` raise nothing) and
  `Verifies` make up the `Verdict`.

### EcdsaTestSuite: the self test

One action per part of `ecdsaTestSuite`: `Prng`, `Load`, `Hash`, `Sign`, `Verify`,
`Release`. Any call may fail, of the library and of the hardware's random
generator; `Assign` is what a call leaves in `error` if its result is assigned,
`Report` the "FAILED" that follows some of them. `failed` is history: the
calls that have failed, whatever `error` says of it.

### Sensors and SignedLog

`Sensors` is the initialisation and the loop of the sensor application: what is
left in each variable when drivers fail, and how pressure and temperature are
split by C's division. `SignedLog` is the loop of the signing application from
the record on, with one step per printed line so that resets and damage come
between them, and the script's variables `data` and `hashing`. A line can be
lost, garbled, or glued to the next one. The two are separate: `SignedLog` is
about any set of `Records`, `Sensors` says what a record holds.

### The small instances

`MCSignecc` and `MCSensors` define PAN assignments, the symmetry of the boards
and the readings for the configurations. `*Proofs` modules extend the module
they are about.

## 3. What TLC checks

| Run | Module, configuration | Shows |
|---|---|---|
| `recv_thread` | `RecvThread` | no radio event is lost in silence (`UnservedIsAnnounced`), every other one is read unless the board has stopped (`Served`), the thread always comes back unless it has overrun a frame, and from there never (`BackToReceive`) |
| `one_pan` | `MCSignecc`, `SigneccOnePan` | two frames of a board share a number only if the thread cut into the shell's `seq++` (`SeqUnique`); nobody is answered unasked (`AnswersAreAsked`), no verdict on an answer is printed unasked (`VerdictsAreAsked`); the network implements the service |
| `two_pans` | `MCSignecc`, `SigneccTwoPans` | answers find the asker across PANs (`AnswersReachAsker`); a verdict is what an answer deserves also when a frame without payload makes `recv()` read an old one, but for a "FAILED" of stray bytes behind a header of another length (`VerdictIsOfAnswer`); the service again, among other devices |
| `request_text` | `MCSignecc`, `SigneccTail` | violated: a request carries what followed the text on the stack |
| `answer_hash` | `MCSignecc`, `SigneccHash` | violated: the hash in an answer is the first half of the public key |
| `parse_addr` | `ParseAddr` | bounds, termination, that an address as `print_addr` shows it can be typed back (`ShownCanBeTyped`) and a PAN as `ifconfig` and `send` show it cannot (`ShownPanIsNotRead`), that the bytes of an accepted text account for all of its characters (`AcceptedIsTyped`), and that four digits of a PAN are the number they spell, two its high byte (`PanIsNumber`) |
| `serial_node` | `SerialNode` | the right key is loaded, or none (`LoadsWholeKey`); the node starts in spite of one lost byte (`StartsDespiteOneLoss`); a verified line is signed in its round or a whole number of cycles before (`VerifiedWasSigned`) and shows that round's message unless it has lost bytes (`MessageBelongs`), both as long as hashing does not fail: when it does, an earlier digest verifies behind a new message; a whole line is refused for four reasons only (`RefusedForAReason`) |
| `serial_digest` | `SerialNode`, `SerialNodeDigest` | violated: after the counter wraps the digest is not that of the message |
| `sensors` | `MCSensors`, `Sensors` | what is left in the variables was read in this round or reported as failed; the split is exact and of one sign |
| `signed_log` | `SignedLog` | a damaged line or failed signing spoils one verdict at most (`DamageIsLocal`) |
| `signature_generated` | `SignedLog`, `SignedLogGenerated` | violated: "Signature generated" is printed when none has been |
| `test_suite` | `EcdsaTestSuite` | PASSED may hide that the random generator gave no numbers, that `yarrowInit`, the reading of `r` or `addEntropy` failed, or, with a FAILED before it, hashing, and nothing else (`WhatPassedHides`) |

The violated properties are the findings of `PROJECT.json`, each with the line of the
repository that says otherwise.

**Bounds, and why they are enough.**

- `RecvThread`: two boards and no other bound. Nothing couples boards here; the
  second lets a boot overlap interrupts.
- `SigneccOnePan`: `MaxWork` = 4 commands and receptions with `SeqMod` = 4
  numbers: as many frames as numbers, so that the wrap is reached and the
  property is not weakened by it; four are enough for a request, its reception,
  another command into which the answer cuts, and a reception of the answer. The
  two boards are alike, so they may be exchanged (no liveness is checked there).
- `SigneccTwoPans`: four as well, with another device. An exchange (ask, receive,
  receive the answer) takes three; the fourth is an empty frame behind which the
  answer is read again, or a part of it taken for one. For that there are headers of two
  lengths, the shorter one for frames within a PAN. Boards differ, so there is no
  symmetry; only the first is given commands (`Users`), to the broadcast PAN,
  which is the one that reaches the other board and itself must not be taken for
  the asker's. `SigneccOnePan` has the commands of both boards and frames that go
  without a PAN of their own, with headers of one length.
- `ParseAddr`: three bytes, the smallest buffer with a byte left in place by the
  reversal, and eight characters, three bytes with colons. Digits only matter as zero, nonzero and none.
- `SerialNode`: keys of two bytes (the first, the last), two runs of the
  script, two faults of any kind: two resets, two bursts of lost bytes, a hash
  that fails and the signature after it, and so on. A node that boots while the script
  writes loses more bytes than that, so the case the zero byte does not make
  good is reached all the same. The counter wraps after two values, of one digit;
  signatures are of two words, so that one may be missing; the port has room for
  two lines of a round, enough to piece a line together from two.
  `SerialNodeDigest` has the code's base and 256 values, for the wrap it is
  about, and a key of one byte.
- `EcdsaTestSuite` has no parameters.
- `Sensors`: two values, one reading less than a unit below zero and one more
  than a unit above.
- `SignedLog`: two records, so that neighbours may be equal or differ; four
  rounds and four damages, enough for two damages in each of two records.

`CHECK_DEADLOCK FALSE` is set where the system really stops: a `main()` that has
returned, a function that has returned, a node that waits for a key nobody
sends, or work that is bounded. Each configuration says which.

**Fairness.** `RecvThread` assumes that the processor does not stop before it faults: the boot, a
pending interrupt and a runnable thread go on (weak fairness of `Boot`,
`EventCbIsr`, `Run` for each board); nothing is assumed of the radio.
`SerialNode` assumes that the script's writes and the node's program go on (weak
fairness of `Write`, `Boot` and `Poll`), which both do by themselves; runs of the
script, resets, losses and silences on the line do not have to happen. `ParseAddr` assumes that
the function runs. `Signecc`, `Sensors`, `SignedLog` and `EcdsaTestSuite` are checked
for safety only and assume nothing.

## 4. What TLAPS proves

All of it for every value of the constants (any number of boards, PANs, texts,
buffer sizes, records, keys, signatures, counters, bounds), from the `ASSUME`s of
the modules alone. They say that the bounds are numbers, that names which stand
for different things differ, that there is no more work than sequence numbers
(`MaxWork`, a bound of the model), and that a typed digit is one of the sixteen.
What a counter's text is, the value of the recursive function `Digits`, is not
assumed but proved.

| Theorem | Argument |
|---|---|
| `RecvThreadProofs!TypeCorrect`, `NoSilentLoss` | `UnservedIsAnnounced` with the types is inductive: what takes the interrupt away signals the thread or prints; what takes the signal away has read the status |
| `SignServiceProofs!Unasked`, `NoVerdictUnasked` | strengthened by: a request in flight was asked. Without it `Answer` could answer a request nobody made |
| `SigneccProofs!ThreadsAsSpecified`, `NoSilentLossInNetwork` | every step of the network is a step of `RecvThread` or leaves its variables alone, so its invariant carries over |
| `SigneccProofs!TypeCorrect`, `AnswersAddressed`, `VerdictsDeserved` | strengthened by `MemoryOK`, where the frames in memory come from: one in the radio or being handled that names a board was sent by it and reached this one (`RadioOK`, `BufferOK`); a signature anywhere in the static buffer is that of an answer sent to this board (`BehindOK`); and so is one that `recv()` goes by, unless what it goes by are stray bytes behind the header of another device (`ParsedOK`). That is what makes a second look at an old payload harmless and leaves a "FAILED" of stray bytes as the only harm |
| `SigneccProofs!NetworkImplementsService` | initial states map to initial states; `Transmit` is `Ask` or a stutter, `Answer` is the service's `Answer` or a stutter, `Judge` is its `Judge`, `Misjudge` its `Disturb`, all else stutters; rests on the invariant above, for the request that is answered and the answer that is judged must still be in flight |
| `SigneccProofs!NetworkAnswersAsked`, `NetworkVerdictsAsked` | the theorems of `SignServiceProofs`, carried through the refinement |
| `SigneccProofs!NumbersUnique` | strengthened by: the numbers used on a board and the work in hand that may still use one (`InHand`: a command loaded, a frame in the radio, a frame being handled) are no more than the work done, so the counter does not come round; frames already sent, answers of a raced board excepted, and the shell's frame in preparation lie below it (`NumbersOK`) |
| `ParseAddrProofs!TypeCorrect`, `StaysWithinBuffer` | strengthened by: a byte has been written before the text can end without error, so the reversal does not start on an empty buffer |
| `ParseAddrProofs!ShownIsTyped`, `PanSpelled` | strengthened by `ShownIsRead`: while the text is the one shown for an address, what has been written is the end of the address, backwards, and the scan is at a low digit or at the colon before one; the reversal then keeps what lies between its two ends the mirror image (`Swapped`) |
| `ParseAddrProofs!PansShownAreNotRead` | from `AcceptedIsTyped`: the six characters of `ifconfig` cannot be two bytes, as a third must account for the 0 in front; from `ShownCanBeTyped`: `send`'s text is read as the bytes it shows, which `PanValue` takes in the other order |
| `ParseAddrProofs!AcceptedWasTyped` | strengthened by `Explained`: for every text there are places of the low digits of the bytes written so far, each two characters before the next or three with a separator between, and `end` is where that chain of places leaves it (`Behind`). A separator after a separator would have no place in it |
| `ParseAddrProofs!StepsRunOut` | the characters not yet looked at, then the width of the reversal, get less with every step: `Terminates` but for fairness |
| `SensorsProofs!TypeCorrect`, `RecordsAreOfReadings` | the lemma `SplitSplits` about C's division, for every integer |
| `SignedLogProofs!TypeCorrect`, `DamageStaysLocal` | `DamageIsLocal` is not inductive: whatever is not of the record being printed must stand for a cause that no spoiled verdict accounts for yet (`Debts`); one such cause is enough because a record has one verdict |
| `SerialNodeProofs!TypeCorrect`, `SignedThen` | strengthened by: every digest that is printed or signed in the round in which it was computed is of a buffer that begins with the digits of that round (`Truthful`, `Genuine`), from which the round follows whatever is behind the digits |
| `SerialNodeProofs!DigitsFit` | counters print as digits, none longer than the largest and no two alike. The induction is over sets of numbers, from `WFMin` and `NatLessThanWellFounded`: first that the recursion of `Digits` has a solution (`DigitsEquation`, put together from partial ones), then that longer texts are of larger numbers (`DigitsGrow`) and that different numbers differ in their texts (`DigitsDiffer`) |
| `SerialNodeProofs!LongestHashedAlone` | how far the finding of `serial_digest` reaches: a text with as many digits as the largest counter's fills the buffer up to its terminator, so only shorter ones are hashed with what an earlier text has left |
| `SerialNodeProofs!WholeKey` | strengthened by `KeyOK`: when nothing is missing, what the node holds ends with all this run has written and has none of it before |
| `SerialNodeProofs!EnoughToStart` | strengthened by `Held`: what a waiting node holds and what is missing make up at least what this run has written, so that after all of it, with one byte missing, there is a key's length: `StartsDespiteOneLoss` but for the fairness of `Poll` |
| `SerialNodeProofs!MessagesBelong`, `RefusedOnlySo` | strengthened by `OrderOK`: every stretch of tokens without a gap, an end of line or a text in it is a part of one printed line, and begins with it when it begins a line. A line the script reads is such a stretch; one with its end is then a whole line of one round |
| `EcdsaTestSuiteProofs!TypeCorrect`, `PassedHidesLittle` | strengthened by: what is there has not failed (`NotFailed`), and FAILED has been printed for hashing only while the test can still pass (`Blames`) |

Every invariant and every action property of the passing runs is thus proved. Only model-checked: liveness (`Served`, `BackToReceive`,
`Terminates`, `StartsDespiteOneLoss`), which needs fairness and ENABLED and is out of
the prover's reach; `StepsRunOut` and `EnoughToStart` are what of the last two needs
neither.

## 5. What is left out, and simplified

- `ifconfig` but for the PAN it shows, the printing of headers and hex dumps,
  banners and start-up lines of the consoles: output only.
- The bytes of texts: a text is a value, and a tail stands for what followed it
  on the stack. Since the hash of a request is overwritten, its bytes reach
  nothing but the console, so the 8-bit `msgSize` of `recv.c:243` is left out.
- `driver->isr` and the `driver->recv` after it are one step, as is
  `driver->send`: what the driver does when preempted is not in the repository.
- Foreign frames are of two kinds: those without a header that can be read, or
  with fewer bytes than it takes, and those without a payload. A foreign frame
  with a payload of its own is not modelled, and `recv.c:290` asks nothing of
  where an answer comes from: that verdicts are asked for holds in a network
  where only boards send answers.
- What an old payload is when read from a wrong place is over-approximated: a
  stray byte may have any value, and what follows one is no valid signature
  unless it is the whole of one that was sent.
- A stray 0xFF makes a board answer a `Stranger`, who has not asked. Such answers
  concern no board and are outside `InFlight` and thus `AnswersAreAsked`.
- `MaxWork` is no more than `SeqMod`, so a network uses every sequence number at
  most once: the wrap is reached, but what a number means a cycle later is not.
- An overrun is taken to end in a fault; the bytes it prints until then, and how
  long that takes, are left open.
- `PrintfDmaGetData` is not in the repository; it is taken to return all that
  has been received since the reset, without which the loop that waits for 32
  bytes could not end when it looks in the middle of a transfer.
- How much of what has been received one call of `PrintfDmaGetData` copies into
  the 64 bytes of `buffer` (`node/src/main.c:85`): a transfer has 33 bytes, and what
  a second one adds is up to the driver.
- The seeding of the random generator in `node/src/main.c`: its errors are only
  traced, as lines of text like those of the boot, or not looked at, and then
  signing may fail.
- Which word of a signature is zero: `PrintMpi` leaves out the last, since any
  other gives a field that is as much too short. Two words that are zero at
  once are left out.
- Opening the port is taken to discard what has come before, as the operating
  systems' drivers do.
- The vectors and the times that `ecdsa_test_suite.c` prints.
- The start-up code, the interrupt handlers and the configuration headers under
  `node/`: templates of the vendor, endless loops or empty bodies but for the
  millisecond tick, clock tables, and macros that select code of libraries which
  are not in the repository. There is no state of this program in them.
- The sensors' values: which of them were read, not what they measure.

## 6. Order of the modules, and what could follow

First the hand-over (`RecvThread`) and the service (`SignService`), then the network
that composes them (`Signecc`), the parser, the serial node with its script, the
sensors with the captured log, the self test; then the theorems.

What could follow: the inner steps of `driver->send` and of `PrintfDmaGetData`, once
the drivers are in the repository; a request's bytes in `recv.c`, once the hash is
computed from them; foreign frames with a payload of their own.
