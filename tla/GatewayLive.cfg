CONSTANTS
    telegram = telegram
    wechat = wechat
    news = news
    NoChannel = NoChannel
    Capacity = 1
    Order <- WeChatOnly
    Writers = {wechat}
    CronJobs = {news}
    Target <- NobodyTarget
    MaxMsgs = 2
    Expiring = {wechat}
    Mute = {}
SPECIFICATION FairSpec
INVARIANTS
    NoDeadlock
PROPERTIES
    Answered
    ShutdownUnlessStuck
CHECK_DEADLOCK FALSE
