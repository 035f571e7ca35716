SPECIFICATION Spec
CONSTANTS
  setup = setup
  torrent = torrent
  notes = notes
  Downloads = Downloads
  Torrents = Torrents
  Desktop = Desktop
  NoFile = NoFile
  Files <- TheFiles
  Roots <- TheRoots
  AutoRoots <- TheAutoRoots
  Under <- TheUnder
  MaxSize = 2
  MaxAttempts = 3
  Scopes <- AllScopes
INVARIANTS
  DecisionsApplied
  TriesBounded
PROPERTIES
  DownloadsSettle
