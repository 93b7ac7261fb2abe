SPECIFICATION CreateFairSpec
CONSTANTS
    c1 = c1
    c2 = c2
    c3 = c3
    p1 = p1
    p2 = p2
    ns1 = ns1
    None = None
    Calls = {c1, c2, c3}
    AdoptedCalls = {c2}
    Names = {"n", "bad name"}
    ValidNames = {"n"}
    Octets = {2}
    Processes = {p1, p2}
    Namespaces = {ns1}
    ProcessOf <- LastApart
    NamespaceOf <- OneNamespace
INVARIANTS BridgeIpUnique  AdoptedFailureLeavesNoSnapshot
PROPERTIES ImplementsRegistry EveryCallReturns
CHECK_DEADLOCK FALSE
