\* Two concurrent calls, three authorizations, two messages of the gateway and two sent.
SPECIFICATION WorkspaceSpec
CONSTANTS
  Caller = {"socket", "submit"}
  MaxStarts = 3
  MaxFrames = 2
INVARIANTS AllTypeOK LoginMatches RedirectsClean LooksLikeWebSocket
PROPERTIES CallsEnd RefusalCloses
