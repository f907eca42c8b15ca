CONSTANTS
    w1 = w1  w2 = w2  c1 = c1  c2 = c2  c3 = c3  r1 = r1  r2 = r2  r3 = r3
    b1 = b1  b2 = b2  m1 = m1  m2 = m2  s1 = s1  s2 = s2
    Workers = {w1, w2}
    Connections = {c1, c2, c3}
    PoolOf <- Pool
    Runs = {r1, r2, r3}
    WorkerOf <- Firing
    FiresAt <- FiringHour
    LastHour = 2
    Agents = {b1, b2}
    Markets = {m1, m2}
    Calls = {s1, s2}
    CallAgent <- Callers
    CallItems <- Items
SPECIFICATION Spec
INVARIANTS  ResultIsComplete
  
CHECK_DEADLOCK FALSE
