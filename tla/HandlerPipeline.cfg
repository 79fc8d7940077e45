\* One call of either kind of handler, every hook with every outcome.
CONSTANTS
  Handlers = {"writing", "compensating"}
  Codes = {"kNotFound", "kInternalError", "kSystemError"}
SPECIFICATION FairSpec
INVARIANTS TypeOK ErrorLeavesNothing AnswerMatchesHooks RollbackOnce
PROPERTY EveryCallAnswered
CHECK_DEADLOCK FALSE
