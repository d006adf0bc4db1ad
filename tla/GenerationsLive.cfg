SPECIFICATION FairSpec
CONSTANTS
    Boot = g1
    Candidates = {g1, g2}
    Turns = {t1, t2}
    Exempts = {x1}
    Bridge = bridge
    Exit = exit
    None = none
PROPERTIES
    RetiredCloses
    AdmissionReopens
    ShutdownCompletes
