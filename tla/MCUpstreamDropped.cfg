CONSTANTS
    c1 = c1  c2 = c2  c3 = c3  a1 = a1  a2 = a2  a3 = a3  n1 = n1  n2 = n2
    ClientIds = {c1, c2}
    Addrs = {a1, a2}
    Predefined <- MCPredefined
    MaxClients = 2
    NoClient = NoClient
    NoAddr = NoAddr
    NoName = NoName
    Elapsed = {20000}
    MaxTimeout = 20040
    MaxCount = 3
    Names = {n1}
    TopicIds = {1, 2}
    ConnectFrom <- MCConnectFrom
    Durations = {10}
    BrokerOk = {TRUE}
    MaxPubs = 1
    LinkEvents = {}
    ClientMsgs = {"CONNECT", "SUBSCRIBE", "UNSUBSCRIBE"}

SPECIFICATION Spec
INVARIANT SubscribedIsUpstream
