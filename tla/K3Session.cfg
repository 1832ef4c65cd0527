CONSTANTS
  t1 = t1
  t2 = t2
  Cfgs <- MCCfgs
  Toks <- MCToks
  Asks <- MCAsks
  Haves <- MCHaves
  Weights = 100
  MaxPos = 7
SPECIFICATION Spec
CONSTRAINT MCFreshFirst
SYMMETRY MCSymmetry
INVARIANT SweepsExact
INVARIANT ScratchFits
INVARIANT PlanHolds
