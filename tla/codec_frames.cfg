SPECIFICATION Spec
CONSTANTS
  Pdus <- AllPdus
  Values <- MCValues
  Params <- MCParams
  Edits = 2
  Numbers <- MCNumbers
  Statuses <- MCStatuses
  Damages = {"cut", "alter", "extend"}
  Octets = {65}
  Tails <- MCTails
INVARIANTS RoundTrip TruncationDetected ReceivedIsSendable
CHECK_DEADLOCK FALSE
