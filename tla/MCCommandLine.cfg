SPECIFICATION CommandSpec
CONSTANTS
  MaxChanges = 6
  NoticePolls = 2
  KeepsTime = FALSE
  Invocations <- MCInvocations
CHECK_DEADLOCK FALSE
INVARIANTS PacksFollowChanges LocalStaysLocal VerdictIsTrue
PROPERTY ImageCatchesUp
