SPECIFICATION Spec
CONSTANTS
  Block = 2
  LineCap = 2
  MaxChunk = 3
  None = None
  Queries <- MCQueries
  Downloads <- MCDownloads
CHECK_DEADLOCK FALSE
INVARIANT RecordsAsRead FindsWhatIsThere AnswersAsListed
