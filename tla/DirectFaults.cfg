SPECIFICATION Spec
CONSTANTS
  Configs <- AllConfigs
  ChunkCount = 3
  ArticleSizes <- Articles
  Master = Master
  Nobody = Nobody
  LLMCanFail = TRUE
INVARIANTS TypeOK NoWorkAfterRequest EachParagraphOnce OrderOfTheText
PROPERTIES ImplementsMapReduce CrashDecides
