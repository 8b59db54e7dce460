SPECIFICATION DispatchSpec
CONSTANTS
  MaxDepth = 4
  MaxLen = 6
  MaxPiped = 4
  Sources <- MCSources
  Data <- MCData
  Usual <- MCUsual
  MaxOdd = 2
  Collection <- MCCollection
  Schemas <- MCSchemas
  Pipes <- MCPipes
INVARIANT PointersLive
INVARIANT PathsArePlaces
INVARIANT TreeMatchesHeights
INVARIANT HandedOverInOrder
INVARIANT UnnestedAsExecuted
INVARIANT NoFalseMatch
INVARIANT NoFalseMiss
CHECK_DEADLOCK FALSE
