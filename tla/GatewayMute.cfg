CONSTANTS
    telegram = telegram
    wechat = wechat
    news = news
    NoChannel = NoChannel
    Capacity = 1
    Order <- TelegramWeChat
    Writers = {telegram, wechat}
    CronJobs = {}
    Target <- NobodyTarget
    MaxMsgs = 1
    Expiring = {}
    Mute = {wechat}
SPECIFICATION Spec
INVARIANTS
    NoMessageKills
CHECK_DEADLOCK FALSE
