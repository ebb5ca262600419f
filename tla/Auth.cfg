SPECIFICATION Spec
CONSTANTS
  NetCap = 2
INVARIANTS ClientNotRefused RefusalIsTold HelloAfterOK
PROPERTIES Decided KeepsTalking
\* Everything ends with the connection.
CHECK_DEADLOCK FALSE
