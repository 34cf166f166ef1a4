SPECIFICATION FragmentsSpec
CONSTANTS
  Unit = 2
  MaxPayload = 4
  MaxCapture = 6
  Pools <- TwoProtocols
  Datagrams <- Sent
  Files <- TidyCaptures
  Rewrites <- Lengths
INVARIANTS
  FragmentInv
  CompleteDatagramsAreReassembled
  DropsAreRepeats
  NoOldFragments
  RewrittenPacketsAreReadable
  ClonesFollowInOrder
  EqualLengthsKeepShape
CHECK_DEADLOCK FALSE
