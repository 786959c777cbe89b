SPECIFICATION Spec
CHECK_DEADLOCK FALSE
CONSTANTS
  Pieces <- Hyphenated
  MaxPieces = 3
  Payloads <- Payloads1
  Earlier <- SessionsBefore
  GithubLen = 1
  SlackMin = 1
  SlackMax = 3
  JwtMin = 1
  EntropyMin = 2
  Window = 6
  NoName = NoName
INVARIANT Hidden
