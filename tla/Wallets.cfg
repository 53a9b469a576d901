SPECIFICATION Spec
CONSTANTS
    o1 = o1 o2 = o2 o3 = o3 in1 = in1 in2 = in2 in3 = in3 out1 = out1 out2 = out2 pay1 = pay1 pay3 = pay3 k1 = k1 k2 = k2 adr1 = adr1 adr2 = adr2 c1 = c1 c2 = c2 p1 = p1 p2 = p2 NoBlock = NoBlock
CHECK_DEADLOCK FALSE
INVARIANTS  MatchesChain ConsumersOnChain  AddsUp Survives
