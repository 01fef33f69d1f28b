CONSTANTS
  Thread = {t1, t2, t3, t4}
  NoThread = NoThread
SPECIFICATION FairSpec
INVARIANTS Exclusion NeverStuck
PROPERTIES ImplementsRWLock WriterNotOvertaken GateHolderEnters
