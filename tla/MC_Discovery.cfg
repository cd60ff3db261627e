SPECIFICATION Spec
CONSTANTS
  host = host pod = pod twin = twin link = link cloud = cloud
  x = x y = y z = z p1 = p1 p2 = p2 NoAsset = NoAsset
  Assets = {host, pod, twin, link, cloud}
  Providers = {p1, p2}
  PlatformIds = {x, y, z}
  Ids <- MCIds
  Preset = {link}
  ProviderOf <- MCProviderOf
  Flaky = {pod, cloud}
  Pinned = {}
  Slow = {cloud}
  MaxRuntimes = 3
  Roots <- MCRoots
  Children <- MCChildren
  Threads = {1, 2}
  Targets <- MCTargets
  MaxDepth = 5
INVARIANTS TypeOK NoLeak UniqueIds ConnectionIsKept OpenIsServed DedupHolds CachedIsOpen
PROPERTIES CloseReturns MuIsReleased
