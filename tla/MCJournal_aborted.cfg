\* Two tasks, one of which is aborted at one of its awaits.
SPECIFICATION Spec
CONSTANTS
  Writers = {w1, w2}
  Abortable = {w1}
  Nobody = Nobody
PROPERTY
  NeverOlder
CHECK_DEADLOCK FALSE
