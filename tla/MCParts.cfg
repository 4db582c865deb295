\* Every part by itself; each of them may stop.
CONSTANTS
  Candidates = {"Pluginloader", "Debugmutex", "LANNetworking", "Waitonaddress", "Console",
    "JSONAPI", "Statement", "Bytebuffer", "Base58", "Base85"}
  Threads = {t1, t2}
  Background = background
  Nothing = Nothing
  Packets = {p1, p2}
  Tries = 2
  Backlog = 1
  Addresses = {a1, a2}
  Plugins = {m1, m2}
  Timer = timer
  Wrappers = {w1, w2}
  MaxCallbacks = 3
  Names = {"Quit", "quit"}
  Upper <- MCUpper
  Lines = {2}
  Loglimit = 3
  Maxcount = 2
  MaxMessages = 3
  Responses = {"x", "y"}
  Empty = Empty
  Ringsize = 2
  MaxResponses = 4
  MaxArgs = 2
  MaxUses = 3
  Items = {2, 11, 111}
  MaxLength = 2
  MaxValues = 2
  Sizes = {0, 3}
  Keysize = 5
  Keys <- MCKeys
  Base = 16
  Radix = 10
  Pad = 13
  Payloads <- MCPayloads
SPECIFICATION PartsSpec
INVARIANTS TypeOK SentOnce OvertakenOnlyIfBlocked HostUndisturbed TrueAlarms NothingOverlooked
INVARIANTS ResponsesLive RunsOnce ReadsBack KeySurvives PayloadSurvives
PROPERTIES QueuedGetsSent PluginsNotified ImplementsMutex NobodyWaitsForever WriteNoticed
CHECK_DEADLOCK FALSE
