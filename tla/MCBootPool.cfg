SPECIFICATION Spec
CONSTANTS
  p1 = p1
  p2 = p2
  Stack = Stack
  Addresses <- MCAddresses
  HandleSize = 2
  DescriptorSize = 3
  Slack = 2
  MaxItems = 2
  MaxKey = 2
SYMMETRY Symmetry
CHECK_DEADLOCK FALSE
INVARIANTS TypeOK NothingElseLeaks BoxOwnsBuffer LocatedIsExact
