SPECIFICATION Spec
CONSTANTS
  Text = Text
  Date = Date
  Day = Day
  Dated = Dated
  Kind = Kind
  MaxItems = 2
  MaxTuple = 1
  MaxMade = 3
  MaxCalls = 5
INVARIANTS TypeOK ItemsAreParsed HashIsOfContent AcceptedIffTree
PROPERTIES FrozenForGood
CHECK_DEADLOCK FALSE
