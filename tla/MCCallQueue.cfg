CONSTANTS
    r1 = r1
    r2 = r2
    r3 = r3
    r4 = r4
    Records = {r1, r2, r3, r4}
    Nil = Nil
SPECIFICATION Spec
INVARIANTS ChainIsQueue
PROPERTIES ImplementsFifo
