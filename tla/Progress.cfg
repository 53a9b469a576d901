SPECIFICATION Spec
CONSTANTS
    None = None o1 = o1 o2 = o2 o3 = o3 in1 = in1 in2 = in2 out1 = out1 out2 = out2 k1 = k1 c1 = c1 a1 = a1
CHECK_DEADLOCK FALSE
PROPERTIES Agree StopEnds CatchesUp
