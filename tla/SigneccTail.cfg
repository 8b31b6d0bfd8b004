\* One PAN; the stack after the text holds a zero byte or does not.
CONSTANTS
  a = a
  b = b
  Nodes = {a, b}
  Everyone = Everyone
  Stranger = Stranger
  Nobody = Nobody
  Foreigners = {}
  Pans = {0, 1, 9}
  BcastPan = 9
  Pan <- OnePan
  Users = {a, b}
  PanArgs = {0}
  Texts = {t}
  Tails = {"", "junk"}
  HdrLens = {1}
  HdrLen <- OneHeader
  PubPrefix = PubPrefix
  NoFrame = NoFrame
  NoBody = NoBody
  SeqMod = 4
  MaxWork = 4
SPECIFICATION Spec
INVARIANT
  RequestCarriesText
\* The work is bounded: the boards fall silent.
CHECK_DEADLOCK FALSE
