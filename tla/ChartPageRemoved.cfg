SPECIFICATION Spec
CONSTANTS
    Names = {"volume", "signal", "score"}
    Removable = {"volume", "score"}
    Overlays = {"signal"}
    Symbols = {"a", "b"}
    MaxIndicators = 3
    MaxPanes = 3
    MaxChanges = 4
    MaxRounds = 3
    Main = 0
    None = None
INVARIANT RemovedStaysRemoved
