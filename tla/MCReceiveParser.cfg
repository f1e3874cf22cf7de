CONSTANTS
  Oid <- MCOid
  Update <- MCUpdate
  Value = {"ident", "nonce", "opt", "ctl"}
  Ident = {"ident"}
  Text = {"nonce"}
  Printable = {"nonce", "opt"}
  Envelope = {"pgp", "ssh"}
  CapList <- MCCapList
  Advertisements <- Providers
  ValidRef = {"main", "topic", "side"}
  PolicyRef = {"main", "topic", "side"}
  DenyRefs = {"main"}
  DenyDeletes = TRUE
  MaxRefUpdates = 2
  MaxCommands = 2
  MaxPrefixBytes = 447
  Payload <- MCPayload
SPECIFICATION ParserSpec
CHECK_DEADLOCK FALSE
INVARIANTS ForwardedCommandsObeyPolicy ReportedUpdatesAreForwarded PrefixIsExact CertificateIsWhole
