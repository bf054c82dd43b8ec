SPECIFICATION MgtSpec
CONSTANTS
  HoldTime = 1
  DelayTime = 2
  ConfirmTime = 4
  GiveUpTime = 5
  CommasNeeded = 2
  MaxLosses = 1
INVARIANT TransmitterRuns
