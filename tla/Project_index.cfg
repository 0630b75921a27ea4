CONSTANTS
  f1 = f1  f2 = f2  a = a  b = b  t1 = t1  p1 = p1
  Files = {f1, f2}  Contents = {a, b}  Absent = Absent  NoRecord = NoRecord  Nobody = Nobody
  Timers = {t1}  Pollers = {p1}  Main = Main  Gateway = Gateway
  Threads = {t1, p1, Main, Gateway}
  Disks <- BothThere  Renamed = {f2}
  MaxEdits = 2  MaxRequests = 1  MaxFailures = 1  MaxStarts = 2
SPECIFICATION FairSpec
INVARIANTS TypeOK PendingIsFlushed
  
CHECK_DEADLOCK FALSE
