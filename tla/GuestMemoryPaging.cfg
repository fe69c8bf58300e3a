SPECIFICATION Spec
CONSTANTS
  Configs <- TwoPagingGuests
  BinarySizes <- Sizes
  BzImages <- Images
  Cmdlines <- Lengths
  Initrds <- Files
INVARIANT IsolatedMemory
