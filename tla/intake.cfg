\* Every file of up to six characters, pasted or linked, with one push.
SPECIFICATION Spec
CONSTANTS
  Files <- SomeFiles
  NewFile <- Pushed
  MAX_LINES = 3
  MAX_CHARS = 5
  STREAM_CHUNK_BYTES = 2
  NoCode = NoCode
  NoCommit = NoCommit
\* A submission is answered once.
CHECK_DEADLOCK FALSE
INVARIANTS
  CodeIsOfCommit
  LinkLikePaste
  CommentsChangeNothing
