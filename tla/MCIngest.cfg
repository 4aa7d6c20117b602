CONSTANTS
  x = x
  y = y
  plain = plain
  vector = vector
  refers = refers
  o1 = o1
  o2 = o2
  NullProps = NullProps
  NoOrigin = NoOrigin
  T_MAX = 9
  Names <- MCNames
  Kinds <- MCKinds
  Props <- MCProps
  Embedding <- MCEmbedding
  Scopes <- MCScopes
SPECIFICATION Spec
INVARIANTS WellFormed SnapshotIsTruth IndexesAgree RewriteIsExact
PROPERTY PastIsFixed
CHECK_DEADLOCK FALSE
