\* Three threads and three references: two threads can use the object while
\* a third releases.  No symmetry, because of the temporal properties.
SPECIFICATION FairSpec
CONSTANTS
  Threads = {t1, t2, t3}
  Refs = {r1, r2, r3}
  NoThread = NoThread
  Modulus <- MCModulus
INVARIANTS
  TypeOK
  CountIsOwned
  OwnedIsLive
  OneDestroyer
  FreeAfterAccesses
PROPERTIES
  LastReleaseDestroys
  ImplementsLifetime
\* The behaviour ends when the object has been freed.
CHECK_DEADLOCK FALSE
