SPECIFICATION Spec
CONSTANTS
    w1 = w1
    w2 = w2
    r1 = r1
    None = None
    Workers = {w1, w2}
    Requests = {r1}
    MaxDeliveries = 3
INVARIANTS TypeOK RunOnce OneAnswerPerDelivery BusyCoversWork
PROPERTY WorkerReleased
CHECK_DEADLOCK FALSE
