SPECIFICATION TtsSpec
CONSTANTS
    v1 = v1
    v2 = v2
    v3 = v3
    t1 = t1
    t2 = t2
    None = None
    Voices <- VoicesMC
    Texts <- TextsMC
    Prompts <- PromptsMC
    Clones = {v1, v2}
    RefText <- RefTextMC
    RefFrames <- RefFramesMC
    TextLen <- TextLenMC
    Slots = 2
    InitialFrames = 1
    MaxNews = {4}
    ChunkFrames = 2
    ContextFrames = 2
    MaxSegments = 2
    MaxGenerations = 4
INVARIANTS
    StepSeesItsRows
    HeardInOrder
    ResultIsWhole
CHECK_DEADLOCK FALSE
