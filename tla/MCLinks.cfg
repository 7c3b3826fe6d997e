SPECIFICATION MCSpec
CONSTANTS
  CardKinds = {"discord", "slack", "telegram", "email", "whatsapp", "meta", "web", "irc", "matrix", "signal", "mattermost", "sms", "viber", "teams"}
  LinkKinds = {"slack", "irc", "matrix"}
  Requests = {"first", "second"}
  Payloads <- MCPayloads
  HasKey = TRUE
  MaxSwitches = 1
  MaxConnections = 2
  MaxFaults = 2
CHECK_DEADLOCK FALSE
INVARIANTS
  CardIsConsistent
  ServingIsRegistered
  
PROPERTIES
  CardTakesEffect
