SPECIFICATION SettingsSpec
CONSTANTS
  None = None  Unused = Unused  Gone = Gone
  Sections = {smtp, ai, branding}
  WithSecret = {smtp, ai}
  KeptIfBlank = {smtp}
  Plain = {1}
  Secrets = {secret, other}
INVARIANT BlankKeepsSecret
