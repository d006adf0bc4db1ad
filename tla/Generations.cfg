SPECIFICATION Spec
CONSTANTS
    Boot = g1
    Candidates = {g1, g2, g3}
    Turns = {t1, t2}
    Exempts = {x1}
    Bridge = bridge
    Exit = exit
    None = none
SYMMETRY Symmetry
INVARIANTS
    SharedCloseLast
    BridgeServesCurrent
    RetiredQuiescent
PROPERTIES
    ImplementsLifetimes
