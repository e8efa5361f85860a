\* Two tool calls on the drafts of one run at the same time.
SPECIFICATION DraftSpec
CONSTANTS
  DraftIds = {d1, d2}
  NoDraft = NoDraft
  Scopes <- DraftScopes
  Callers = {t1, t2}
  DraftTexts = {"text", "blank"}
  BlankTexts = {"blank"}
  MaxChunks = 2
INVARIANTS SealedMatchesHash
