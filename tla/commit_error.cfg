SPECIFICATION CommitSpec
CONSTANTS
  Managers = {strict, lenient}
  Strict = {strict}
  Mails = {x1, x2, x3}
  Retry = 2
INVARIANT ErrorIsRolledBack
CHECK_DEADLOCK FALSE
