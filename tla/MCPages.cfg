SPECIFICATION Spec
CONSTANTS
  None = None
  Ids = {a, b}
  Users = {u1, u2}
  Recorders = {ra, rb}
  NoRecorder = NoRecorder
  Cap = 2
  Chunks = {1, 2}
  Times = {0, 1, 2}
  Lengths = {0, 1, 2, 3}
  Empty = Empty
  MaxPanes = 2
  BufferMax = 2
  MaxOutput = 3
  Keep <- AuditKeep
  PageSize = 1
  Batch = 1
  Ranges = {1, 9}
  MaxEvents = 3
  MaxDay = 3
  Hosts = {h1, h2}
  Paths = {p1, p2}
  NoOne = NoOne
  Dirs = {f1, f2}
  Home = f1
  Names = {n1, n2}
  MaxReads = 2
  Windows = {w1, w2}
  Passwords = {pa, pb}
  Nothing = Nothing
  Texts = {x, y}
  NoText = NoText
  Slots = {s1, s2}
  Requests = {q1, q2}
  MaxSets = 3
  Sessions = {d1, d2}
  Members = {u1, u2}
  Absent = Absent
  RecordIds = {x1}
  MaxStamp = 4
  Default = 80
  Sizes = {80, 170}
  Links = {l1, l2}
  MaxViews = 2
  MaxOpened = 1
  Agents = {a1, a2}
  Accounts = {"x", "y"}
  Owner <- AgentOwner
  Envelopes = {e1}
  Ttl = 1
  Skew = 1
  Memory = 3
  Behind = 1
  MaxPerRun = 1
  MaxTime = 3
  Nobody = Nobody
  Checkouts = {t1, t2}
  Deliveries = {i1}
  MaxNow = 2
  MaxPending = 2
  MaxFaults = 1
  Payloads = {14, 15, 26, 42, 62, 84, 106, 122, 152, 180, 213, 214}
  Bytes = {1, 200}
  MaxBlock = 4
INVARIANTS
  NothingVanishes ScreenIsPlayhead OutputShown RangeComplete SaveGoesHome
   BarIsHonest NewKept
  TypedAsShown LinksHold RefreshIsCurrent
  CodesRight  StampedRight  CommandsOnce CodeIsReadable
CHECK_DEADLOCK FALSE
