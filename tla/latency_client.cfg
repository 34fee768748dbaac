CONSTANTS
    c1 = c1
    c2 = c2
    e1 = e1
    e2 = e2
    None = None
    Client = {c1, c2}
    Endpoint = {e1, e2}
    Strays = {e2}
    RTT_WARMUP_SAMPLES = 1
    MeasuredSamples = 3
    MaxUsize = 65535
    MaxTime = 2
SPECIFICATION Spec
INVARIANTS
    SamplesAreOwn
    ReportIsOfMeasured
CHECK_DEADLOCK FALSE
