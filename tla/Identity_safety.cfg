CONSTANTS
    None = None
    Event = {e1, e2}
    Channel = {c1, c2, c3}
    Slug = {g1, g2, g3, g4, g5}
    Donation = {n1, n2}
SPECIFICATION Spec
SYMMETRY Sym
INVARIANTS TypeOK ActiveEventRoutable SlugsUnique AnnouncedOnce
PROPERTIES RoutedSoundly
