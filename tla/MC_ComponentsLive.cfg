SPECIFICATION Spec
CONSTANTS p1 = p1  s1 = s1  w1 = w1  f1 = f1  f2 = f2  Nil = Nil
PROPERTIES
  StopsAreServed WorkIsFinished
CHECK_DEADLOCK FALSE
