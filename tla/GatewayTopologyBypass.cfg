SPECIFICATION Spec
CONSTANTS
    None = None
    GeneratedName <- RuleNames
    Clusters <- MCClusters
    RuleExpansions <- MCRuleExpansions
    MaxParents = 2
    MaxBackends = 1
INVARIANT NoSectionBypassed
CHECK_DEADLOCK FALSE
