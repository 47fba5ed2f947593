\* Two overlapping polls of two feeds, with dates that change, an abort, and a link that no poll can read.
SPECIFICATION FairSpec
CONSTANTS
  s1 = s1
  s2 = s2
  u1 = u1
  u2 = u2
  u3 = u3
  NoSource = NoSource
  Polls = {p1, p2}
  Sources = {s1, s2}
  Urls = {u1, u2, u3}
  Unreadable = {u3}
  DomainOf <- MCDomainOf
  Dates = {0}
  FirstFeeds <- MCFirstFeeds
  Top = 2
  MaxItems = 2
  Now = {1}
  MaxChanges = 2
  MaxFailures = 1
INVARIANTS NoOwnClash
PROPERTIES ListedIsStored
CHECK_DEADLOCK FALSE
