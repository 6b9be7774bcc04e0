\* The lives of a job that MCWMJob lists, with room for a resubmission and a
\* cancellation beside the submission.
SPECIFICATION Spec
CONSTANTS
  Limits <- Lives
  MaxReplans = 1
  Slots = {1, 2, 3}
INVARIANTS AtMostOneRunning RunsBounded OneToken NotForgotten
PROPERTIES AbortIsFinal
