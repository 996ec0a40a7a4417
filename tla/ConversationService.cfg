SPECIFICATION Spec
CONSTANTS
    Conversations = {c1, c2}
    Existing = {c1}
    Workspaces = {w1, w2}
    Keys = {k1}
    MaxCalls = 3
    NoConversation = noConversation
    NoWorkspace = noWorkspace
    NoKey = noKey
SYMMETRY Symmetry
VIEW LiveState
INVARIANT TypeOK
INVARIANT OneOpenerPerConversation
INVARIANT HandleIsBacked
INVARIANT NoStraySession
INVARIANT OneConversationPerKey
INVARIANT ContextsMatchTurns
INVARIANT NoCircularWait
PROPERTY RecordsKept
CHECK_DEADLOCK FALSE
