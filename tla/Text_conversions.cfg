\* Every channel of up to 6 bytes in every chunking, and samples for the pure functions.
SPECIFICATION TextSpec
CONSTANTS
  Octet = {"a", "b", "lf"}
  LineFeed = "lf"
  MaxLine = 2
  MaxChunk = 3
  Stream <- MCStream
  Utf8 <- MCUtf8
  SecretBlock = {"key", "tls-auth"}
  Block = {"key", "tls-auth", "ca"}
  UnsafeName <- MCUnsafeName
  DnsUpdown <- MCDnsUpdown
  SafeParam <- MCSafeParam
  Samples <- MCSamples
INVARIANTS
  TypeOK
  ReadsAsSent
  CredentialsArrive
  ChallengesAreRead
  VerdictIsByLine
  SpellingIsIrrelevant
  SanitizedOmitsSecrets
  MetadataIsRead
\* the channel is closed in the end
CHECK_DEADLOCK FALSE
