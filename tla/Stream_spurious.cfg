\* pthread_cond_timedwait may return 0 without a signal, as POSIX allows.
SPECIFICATION SpecSpurious
INVARIANT SenderLeavesOnlyWhenStopped
