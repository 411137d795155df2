SPECIFICATION Spec
CONSTANTS
  Notices = {n1}
  Monitors = {m1, m2}
  First = m1
  Watchers = {w1, w2}
INVARIANTS
  NoticesOnce
PROPERTIES
  NoticeHandled
CHECK_DEADLOCK FALSE
