SPECIFICATION FairSpec
CONSTANTS
  MaxGates = 1
  MaxCalls = 2
  Answer = {yes, no, bad}
  Key = {k1}
  Invalid = {bad}
  Commit = {yes}
  NoAnswer = NoAnswer
  NoKey = NoKey
  Fault = {"not_committed", "uncertain"}
  MaxFaults = 1
  MaxStarts = 2
INVARIANTS DeliveredIsDurable AnswersAgree OldGatesQuarantined
PROPERTIES RecordsStand AcceptedSettles
CHECK_DEADLOCK FALSE
