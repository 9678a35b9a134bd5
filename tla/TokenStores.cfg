SPECIFICATION Spec
CONSTANTS
    Replicas = {p1, p2}
    Namespaces = {None, "jira"}
    Dir <- MCDir
    Names = {"x"}
    Keys = {1, 2}
    Bad = 0
    Configs <- MCConfigs
    MaxStarts = 4
    None = None
SYMMETRY Symmetry
INVARIANTS TypeOK NamespacesIsolated NoLossWithoutRotation
