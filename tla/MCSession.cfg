\* Three logins over two workers.
CONSTANTS
    s1 = s1  s2 = s2  s3 = s3
    k = k
    w1 = w1  w2 = w2
    Sock = {s1, s2, s3}
    Client = {k}
    Worker = {w1, w2}
    ClientOf <- MCClientOf
    WorkerOf <- MCWorkerOf
SPECIFICATION FairSpec
INVARIANTS TypeOK OneSession
PROPERTIES LoginsAreDecided
CHECK_DEADLOCK FALSE
