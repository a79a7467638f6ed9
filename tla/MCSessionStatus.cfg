\* What the status column is said to be, with one worker.
CONSTANTS
    s1 = s1  s2 = s2  s3 = s3
    k = k
    w1 = w1  w2 = w2
    Sock = {s1, s2, s3}
    Client = {k}
    Worker = {w1}
    ClientOf <- MCClientOf
    WorkerOf <- MCWorkerOf
SPECIFICATION Spec
PROPERTIES StatusFollowsSession
CHECK_DEADLOCK FALSE
