SPECIFICATION TSpec
CONSTANTS
  Threads = {t1, t2}
  NumBits = 5
  SuperBits = {0}
  Split <- TwoPaths
  MaxTokens = 3
  Uninit = Uninit
INVARIANT OneOwner
