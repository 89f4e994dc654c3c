\* Two requests about a file beside two captures of one operation.
SPECIFICATION FairSpec
CONSTANTS
    Task = {w1, w2}
    File = {f1}
    Capture = {x1, x2}
    Op = {o1}
    Content = {c1, c2}
    None = None
INVARIANTS  OneCapturePerOperation 
 
