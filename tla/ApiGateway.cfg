SPECIFICATION ApiSpec
CONSTANTS
  Absent = Absent
  Calls = {c1}
  Subjects = {u1}
INVARIANTS AnswerTellsEffect NamedRowIsWritten
CHECK_DEADLOCK FALSE
