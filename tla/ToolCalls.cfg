\* An MCP server process: two overlapping crawls, a search with a cache of one
\* answer, removals, and kills of the process.
CONSTANTS
  a1 = a1  b1 = b1  da = da  x = x  y = y
  loop = loop  t1 = t1  t2 = t2  s1 = s1  i1 = i1  q1 = q1  q2 = q2  None = None
  Loop = loop
  Callers = {loop, t1, t2}
  RunsLoop = FALSE
  Seeds = {}
  FeedUrls = {}
  Forces = {TRUE, FALSE}
  Urls <- MCUrls
  Domains = {da}
  DomainOf <- MCDomainOf
  LinksOf <- MCNoLinks
  PagesOf <- MCPages
  NormOf <- MCNormOf
  SitemapOf <- MCNoSitemap
  Depths = {0, 1}
  CallDepths = {0}
  MaxDepth = 1
  PolitenessDelay = 0
  CrawlDelays = {}
  MaxCrawlDelay = 0
  RateLimits = {0}
  Hour = 1
  PendingPerDomain = 1
  QueueSize = 1
  PruneThreshold = 1
  MaxTrackedDomains = 1
  StaleAfter = 1
  GetTimeout = 1
  Searchers = {s1}
  Importer = i1
  Clients <- MCClients
  Queries = {q1, q2}
  Matches <- MCMatches
  CacheSize = 1
  Ttl = 1
  MaxSearch = 1
  Imports <- MCImports
SPECIFICATION ToolSpec
SYMMETRY Symmetry
INVARIANTS OneSuccessPerText IndexedIsKnown ToolTypeOK RemovedSoonGone
PROPERTIES DuplicateIsExplained OnlyForcedReturns
