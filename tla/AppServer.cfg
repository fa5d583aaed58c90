SPECIFICATION Spec
CONSTANTS
    old = old  new = new  hanging = hanging  client = client  other = other  post = post
    NoApp = NoApp
    Apps <- MCApps
    WsApps <- MCWsApps
    Hanging <- MCHanging
    Clients <- MCClients
    Posts <- MCPosts
    MaxMessages = 1
INVARIANTS TypeOK CalledAppIsUp
PROPERTIES DataFlows StopEnds
