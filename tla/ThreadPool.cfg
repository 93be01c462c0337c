\* Three workers and four jobs: more jobs than workers, and fewer.
SPECIFICATION FairSpec
CONSTANTS
    Worker = {w1, w2, w3}
    Job = {j1, j2, j3, j4}
    Main = Main
    NoThread = NoThread
INVARIANTS TypeOK MutexHeld NoLostWakeup
PROPERTIES ImplementsWorkQueue JobsRun
