SPECIFICATION OcrFairSpec
CONSTANTS
    NoThread = NoThread
    u1 = u1
    u2 = u2
    w = w
    x = x
    Uploads <- MCUploads
    Workers <- MCWorkers
    Exports <- MCExports
    MaxPages = 2
    MaxCalls = 1
INVARIANTS PdfiumAlone ProgressIsTrue
PROPERTIES EveryCallEnds
CHECK_DEADLOCK FALSE
