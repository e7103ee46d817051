CONSTANTS
  Streams = {"out", "err"}
  Labels = {"sudo"}
  MaxConns = 2
  MaxOutput = 3
  None = "none"
  Ssh = "ssh"
SPECIFICATION Spec
INVARIANTS TypeOK PromptIsCurrent
PROPERTIES EndIsLast PageFollows
