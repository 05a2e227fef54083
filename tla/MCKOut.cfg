\* Formats of up to four characters, in up to five steps of work.
CONSTANTS
  HexDigits <- MCHexDigits
  LeftByBios <- MCLeftByBios
  Columns = 3
  Rows = 3
  TabSize = 1
  BufferSize = 9
  FormatChars = {"a", "TAB", "%", "-", "*", "h", "b", "l", "c", "d", "s", "u", "x", "p", "O"}
  Integers = {0, 10, 2303}
  Characters = {"c", "LF"}
  Strings <- MCStrings
  Widths = {0, 4}
  Object <- MCObject
  LongTexts = {8, 9}
  MaxFormat = 4
  MaxWork = 5
SPECIFICATION Spec
INVARIANTS OutputAsDocumented ScreenShowsPaper ModeIsSet
PROPERTIES OffScreenOnlyIfLong BlankMeanwhile
\* The number of calls is bounded.
CHECK_DEADLOCK FALSE
