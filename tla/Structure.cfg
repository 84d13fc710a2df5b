SPECIFICATION Spec
CONSTANTS
    Root = Root
    NoFlow = NoFlow
    None = None
    Prefix <- SomePrefix
    Collecting = TRUE
    Device = {1, 2, 3, 4}
    Carrier = {1, 2}
    Figures = {0, 1, 2, 3, 4, 6}
    Signed <- Exchanged
    Tolerances <- ManyTolerances
    FewTolerances = {0, 50}
    InitialSetting <- Both
    LaterReading <- Later
INVARIANTS OneMeterAtRoot Contained NotOverdrawn AttachAgrees EdgesEnd
PROPERTIES OneCarrierPerBranch OnlyWindowsOverload
