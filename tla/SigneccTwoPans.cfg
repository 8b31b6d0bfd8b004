\* Two boards in PANs of their own, headers of two lengths, another device's
\* empty frames, and four commands and receptions: enough to ask, to be
\* answered, and to read the answer again.
CONSTANTS
  a = a
  b = b
  Nodes = {a, b}
  Everyone = Everyone
  Stranger = Stranger
  Nobody = Nobody
  Foreigners = {Stranger}
  Pans = {0, 1, 2, 9}
  BcastPan = 9
  Pan <- TwoPans
  Users = {a}
  PanArgs = {9}
  Texts = {t}
  Tails = {""}
  HdrLens = {1, 2}
  HdrLen <- TwoHeaders
  PubPrefix = PubPrefix
  NoFrame = NoFrame
  NoBody = NoBody
  SeqMod = 4
  MaxWork = 4
SPECIFICATION Spec
INVARIANTS
  AnswersReachAsker
  VerdictIsOfAnswer
PROPERTIES
  ImplementsService
\* The work is bounded: the boards fall silent.
CHECK_DEADLOCK FALSE
