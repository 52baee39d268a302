SPECIFICATION Spec
CONSTANTS
  Peers = {p, q}
  Threads = {t}
  MaxInbox = 2
  MaxDml = 3
  MaxMoves = 3
INVARIANTS OnlyAgreedAreFriends
