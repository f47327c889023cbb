\* The serve process: the loop with a sitemap, a canonical link, a feed item and
\* a queue that fills.
CONSTANTS
  a1 = a1  a2 = a2  a3 = a3  b1 = b1  da = da  db = db  x = x  y = y
  loop = loop  None = None
  Loop = loop
  Callers = {loop}
  RunsLoop = TRUE
  Seeds = {a1}
  FeedUrls = {a2}
  Forces = {FALSE}
  Urls <- MCUrls
  Domains <- MCDomains
  DomainOf <- MCDomainOf
  LinksOf <- MCLinksOf
  PagesOf <- MCPages
  NormOf <- MCNormOf
  SitemapOf <- MCSitemap
  Depths = {0, 1}
  CallDepths = {}
  MaxDepth = 1
  PolitenessDelay = 1
  CrawlDelays = {4}
  MaxCrawlDelay = 3
  RateLimits = {0, 1}
  Hour = 2
  PendingPerDomain = 2
  QueueSize = 1
  PruneThreshold = 1
  MaxTrackedDomains = 1
  StaleAfter = 3
  GetTimeout = 2
SPECIFICATION FairSpec
INVARIANTS NeverAtLimit NoLeak
PROPERTIES Politeness LostOnlyWhenSlow LoopGoesOn
