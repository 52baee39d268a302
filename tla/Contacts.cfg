\* One peer, every order of four moves, two packets kept by the server.
SPECIFICATION FairSpec
CONSTANTS
  Peers = {p}
  Threads = {t}
  MaxInbox = 2
  MaxDml = 3
  MaxMoves = 4
INVARIANTS NoStrangerIsFriend ChatHasContact
PROPERTIES FriendIsKnown
