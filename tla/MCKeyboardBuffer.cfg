SPECIFICATION Spec
CONSTANTS
  Size <- MCSize
  Chars <- MCChars
INVARIANT TypeOK
PROPERTY FifoSpec
