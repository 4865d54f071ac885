SPECIFICATION GuestSpec
CONSTANTS
  Capacity = 3
  ByteTicks = 1
  Letters = {"A"}
  SymbolLetters = {"["}
  ShiftImmune = {"["}
  OtherKeys = {"F1"}
  NoRepeat = {"F1"}
  StackDepth = 2
  HostBytes <- MCHostBytes
  UserKeys <- MCUserKeys
  MaxEvents = 4
  MaxCommands = 1
INVARIANTS TypeOK LineSignalsAgree HeldKeysAgree NoModifierSticks ShiftReachesGuest
PROPERTIES ImplementsLine BytesArrive
