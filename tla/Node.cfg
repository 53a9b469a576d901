SPECIFICATION Spec
CONSTANTS
    None = None b1 = b1 b2 = b2 t1 = t1 r1 = r1 r2 = r2 c1 = c1 c2 = c2 a1 = a1 a2 = a2 s1 = s1 o1 = o1
CHECK_DEADLOCK FALSE
INVARIANTS
    TemplateIsMaximal TablesMatchChain  OneRequest PeersKnown
    ConnectionsInOrder  MinedSubmitted
PROPERTIES  PoolOfTop
