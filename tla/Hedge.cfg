CONSTANTS
  GPUCounts <- MCGPUCounts
  Utilizations <- MCUtilizations
  Prices <- MCPrices
SPECIFICATION Spec
INVARIANTS BasisRiskIdentity FullUseLocksTarget EffectiveUnlessLeaking OfferFitsBlock
PROPERTY MoreUseLessRisk
