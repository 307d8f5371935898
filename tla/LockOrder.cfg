SPECIFICATION LockSpec
CONSTANT Threads = {t1, t2, t3}
INVARIANT NoCircularWait
CHECK_DEADLOCK FALSE
