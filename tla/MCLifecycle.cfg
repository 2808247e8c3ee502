CONSTANTS
    c1 = c1  c2 = c2  c3 = c3  a1 = a1  a2 = a2  a3 = a3  n1 = n1  n2 = n2
    ClientIds = {c1, c2}
    Addrs = {a1, a2}
    Names = {n1}
    Predefined <- MCPredefined
    ConnectFrom <- MCConnectFrom
    MaxClients = 2
    NoClient = NoClient
    NoAddr = NoAddr
    NoName = NoName
    Durations = {10}
    Elapsed = {20000}
    TopicIds = {1, 2}
    BrokerOk = {TRUE, FALSE}
    MaxPubs = 1
    MaxTimeout = 20040
    MaxCount = 3
    LinkEvents = {}
    ClientMsgs = {"CONNECT", "PINGREQ", "DISCONNECT"}

SPECIFICATION Spec

PROPERTY LifecycleRefined
