SPECIFICATION Spec
CONSTANTS
  Users <- MCUsers
  Lines <- MCLines
  Replies <- MCReplies
  Viewport = 2
  MaxCalls = 3
  MaxSubmits = 2
  MaxBatches = 1
INVARIANTS
  BoxAgrees
  EndInView
  
  Answered
