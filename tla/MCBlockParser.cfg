\* All documents of three lines over 28 shapes, of six lines over six, of five
\* over openers the parser's two recognisers tell apart.
SPECIFICATION Spec
CONSTANTS
  HeaderAt <- Header
  Sources <- Documents
CHECK_DEADLOCK FALSE
INVARIANTS EachLineOnce BlocksNest NumbersNotLate
PROPERTY Terminates
