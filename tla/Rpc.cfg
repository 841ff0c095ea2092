CONSTANTS
 Workers = {w1, w2}
 Clients <- MCClients
 Message <- MCMessage
 BufSize = 2
 Lines <- MCLines
 Handlers <- MCHandlers
 NotFoundHandler <- MCNotFound
 Descriptors = {1, 2}
SPECIFICATION Spec
INVARIANTS OwnRequest AnsweredRight
PROPERTY Served
CHECK_DEADLOCK FALSE
