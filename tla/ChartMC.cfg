SPECIFICATION PartsSpec
CONSTANTS
    None = None
    MaxDrawings = 1
    MaxEdits = 3
    Places = {0, 1}
    Bars = 2
    UndoLimit = 1
    Names = {"volume", "signal", "score"}
    Removable = {"volume"}
    Overlays = {"signal"}
    Symbols = {"a", "b"}
    Main = 0
    MaxIndicators = 3
    MaxPanes = 3
    MaxChanges = 4
    MaxRounds = 3
    Charts = {1, 2}
    Tickers = {"a", "b"}
    Nobody = Nobody
    Window = 2
    Keep = 3
    LastTime = 4
    MaxSwitches = 3
    MaxRequests = 4
INVARIANTS PartsTypeOK HistoryBounded SelectionTold DragIsOneEdit
    PageAgrees
     
PROPERTIES OneLineOfDocuments LockedStaysPut
CHECK_DEADLOCK FALSE
