\* Two threads calling every entry point; lock order, sleeping under a
\* spinlock and termination of every call under the fairness of FairSpec.
CONSTANTS
  Threads = {t1, t2}
  NoOwner = NoOwner
SPECIFICATION FairSpec
INVARIANT NoSleepInAtomic
PROPERTY CallsReturn
