SPECIFICATION MCSpec
CONSTANTS
    Conns = {c1, c2}
    Exes = {e1}
    ConnOf <- MCConnOf
    Nothing = Nothing
    Retries = 1
    ConnCalls = 4
    Calls2 = 3
    Queries = {q1, q2}
    Command <- MCCommand
    Others = 1
    Apps = {a, b, c}
    Ours = {c}
    File <- MCFile
    PluginCalls = 4
    CallsBoth = 3
INVARIANTS
    ConnectionsAgree
    ExesTracked
    QueriesAnswered
    PluginsHeld
    DataReaches
CHECK_DEADLOCK FALSE
