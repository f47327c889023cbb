\* Both limits (hourly and per domain) and both evictions are reached: one
\* domain more than the thresholds, a queue that fills, an hour of two ticks.
CONSTANTS
  a1 = a1  a2 = a2  b1 = b1  da = da  db = db  p = p  None = None
  Urls <- MCUrls
  Domains <- MCDomains
  DomainOf <- MCDomainOf
  Depths = {0, 2}
  Callers = {p}
  PolitenessDelay = 1
  CrawlDelays = {3}
  MaxCrawlDelay = 2
  RateLimits = {0, 1}
  Hour = 2
  PendingPerDomain = 2
  MaxDepth = 1
  QueueSize = 2
  PruneThreshold = 1
  MaxTrackedDomains = 1
  StaleAfter = 2
SPECIFICATION ContractFairSpec
INVARIANTS PendingExact NothingEvictedInUse
PROPERTIES ContractPoliteness QueuedIsReturned
