SPECIFICATION StoreSpec
CONSTANTS
  root = root
  first = first
  second = second
  number = number
  double = double
  flag = flag
  None = None
  JsonItem <- MCItem
  Root <- root
  mType <- MCType
  Key <- MCKey
  Texts <- MCText
  firstKey <- MCFirstKey
  firstValue <- MCFirstValue
  firstItems <- MCFirstItems
  Digits <- MCDigits
  toInteger <- MCToInteger
  toDouble <- MCToDouble
  Path <- MCPath
  MaxWaiting = 2
  MaxHandled = 3
CHECK_DEADLOCK FALSE
INVARIANT
  TreeKept
PROPERTY
  HandledAsNamed
