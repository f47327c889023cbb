\* Feeds, priority queue and crawl loop of the serve process.
CONSTANTS
  f1 = f1  f2 = f2  bad = bad  i1 = i1  i2 = i2  i3 = i3
  Absent = Absent  Never = Never
  Feeds = {f1, f2, bad}
  Malformed = {bad}
  Items = {i1, i2, i3}
  Interval = 2
  MaxFeeds = 2
  MaxSize = 2
  Batch = 2
SPECIFICATION FairSpec
INVARIANTS HeapIsExact
PROPERTIES Delivered FeedsPolledAgain
