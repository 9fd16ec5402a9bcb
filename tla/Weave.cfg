\* Five threads: two can contend for the mutex while another waits on the
\* semaphore and another is not yet created.
SPECIFICATION Spec
CONSTANT NumThreads = 5
INVARIANTS Barrier TokensBalance NothingUsedAfterReturn
PROPERTIES ImplementsRendezvous
