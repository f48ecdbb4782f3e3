SPECIFICATION CheckpointerSpec
CONSTANTS
  Files = {f1, f2}  Tries = 3  MaxChanges = 2  MaxJobs = 1
PROPERTY RemovalsArePushed
CHECK_DEADLOCK FALSE
