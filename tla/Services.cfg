SPECIFICATION ServicesSpec
CONSTANTS
    Results <- MCResults
    VideoOf <- MCVideoOf
    KeyframesOf <- MCKeyframesOf
    MaxCrawls = 2
    MaxCrawlCrashes = 1
    MaxCrawlFaults = 1
    Asked <- MCAsked
    NoQuery = "e"
    UrlLike = {"u"}
    Answers <- MCAnswers
    WithDuration <- MCWithDuration
    IdOf <- MCIdOf
    TitleOf <- MCTitleOf
    NoValue = 0
    NumVideos = 2
    TiktokAttempts = 2
    YoutubeAttempts = 5
    Searches = {"q", "r"}
    StreamedBy <- MCStreamedBy
    Downloaders = {"d1", "d2"}
    Processors = {"p1"}
    DownloadCap = 2
    ProcessingCap = 1
    Batches = {1, 2}
    ClipsOf <- MCClipsOf
    Parallel = 2
    JobDir = "job"
    DefaultDir = "default"
    Titles = {"a", "b"}
    Downloads <- MCDownloads
    GlobMatches <- MCGlobMatches
    MaxRetries = 2
    MaxTubeStarts = 2
    Footage <- MCFootage
    MaxScenes = 50
    MaxFrames = 5
    FallBack = TRUE
    PyAVRouting = TRUE
    MaxExtractions = 2
    Queues = {p, q}
    Events = {e}
    Prefetch = 2
    Retries = 1
    MaxHalts = 1
    Runners = {1, 2}
    Latest = 2
    Tries = 2
    MaxRuns = 2
    MaxOutages = 2
    Items <- MCItems
    Shelves <- MCShelves
    Misshapen <- MCMisshapen
    Limits = {0, 2, 3}
    BrowseTries = 2
    MaxExpiries = 2
    Deliveries = {1, 2}
    ImageOf <- MCImageOf
    MaxStops = 1
INVARIANTS
    ServicesTypeOK
    AnnouncedHonest
    FrameTotalHonest
    SearchKeepsAll
    StreamAccounted
    DownloadsHonest
    LocalFileKept
    FolderMatches
    RunsBounded
    VerdictHonest
    CheapestReturned
    MaskWhole
PROPERTY DeliveryKept
CONSTRAINTS OneCrawlMishap FewDownloads TwoAtOnce LittleLitter
CHECK_DEADLOCK FALSE
