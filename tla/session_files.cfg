SPECIFICATION Spec
CONSTANTS
    Servers = {s1, s2}
    Names = {n1, n2}
    None = None
    Procs = {t1, t2}
    MaxTokens = 2
SYMMETRY AllSymmetry
INVARIANTS
    ServersStayApart
    CommandsDoWhatTheySay
