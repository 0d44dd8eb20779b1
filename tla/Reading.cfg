CONSTANTS
  me = me  a = a  c1 = c1  d1 = d1
  Me = me
  Other = {a}
  Chat = {c1, d1}
  Group = {c1}
  Earlier <- SomeRows
  Client = {"scroll", "offset", "list"}
  PageSize = 1
  MaxSteps = 3
SPECIFICATION Spec
INVARIANTS TypeOK UnreadAgrees LastMessageIsNewest ReadMarksAgree
           PlaceIsTrue JumpShowsTarget ScrollIsComplete ListIsComplete
CHECK_DEADLOCK FALSE
