CONSTANTS
  f = f
  g = g
  dev = dev
  old = old
  new = new
  nopath = nopath
  norequest = norequest
  MaxLen = 3
  Path <- MCPath
  Value <- MCValue
  Device <- dev
  NoRequest <- norequest
  NoPath <- nopath
  Plans <- MCPlans
SPECIFICATION FairSpec
INVARIANT TypeOK
INVARIANT NoSilentResidue
INVARIANT AppliedIsComplete
PROPERTY PreflightFirst
PROPERTY ImplementsPromise
