SPECIFICATION GuestSpec
CONSTANTS
  Code <- MCCode
  Main = "start"
  Entry <- MCEntry
  VectorPS <- MCVectorPS
  Text = 3
  Keys <- MCKeys
  MaxResets = 1
INVARIANT NoSpuriousKey
