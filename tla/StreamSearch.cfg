CONSTANTS
  s1 = s1
  s2 = s2
  Searches = {s1, s2}
  UserOf <- MCUserOf
  Questions <- MCQuestions
  Posts <- MCPosts
  Shows <- MCShows
  Pages <- MCPages
  LanguageOf <- MCLanguageOf
  MinBuffer = 2
SPECIFICATION Spec
INVARIANTS HeardRight LanguagesRespected BufferSuffices FallbacksComplete
CHECK_DEADLOCK FALSE
