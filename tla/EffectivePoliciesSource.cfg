SPECIFICATION Spec
CONSTANTS
    g1 = g1
    g2 = g2
    listener = listener
    route = route
    rule1 = rule1
    rule2 = rule2
    atGateway = atGateway
    atRoute = atRoute
    atRouteToo = atRouteToo
    atRule = atRule
    dnsGateway = dnsGateway
    dnsListener = dnsListener
    r = r
    deny = deny
    when = when
    None = None
    Policies = {atGateway, atRoute, atRouteToo, atRule, dnsGateway, dnsListener}
    Rules = {r, deny, when}
    Shared = {deny}
    Conditions = {when}
    Targetables = {g1, g2, listener, route, rule1, rule2}
    Gateways = {g1, g2}
    Kind <- MCKind
    Target <- MCTarget
    Name <- MCName
    Specs <- MCSpecs
    Times <- MCTimes
    Paths <- MCPaths
    IsRulePath <- MCIsRulePath
INVARIANT SourceIsOrigin
CHECK_DEADLOCK FALSE
