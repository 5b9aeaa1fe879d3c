CONSTANTS
    telegram = telegram
    wechat = wechat
    news = news
    NoChannel = NoChannel
    Capacity = 2
    Order <- TelegramWeChat
    Writers = {telegram}
    CronJobs = {news}
    Target <- NewsTarget
    MaxMsgs = 2
    Expiring = {wechat}
    Mute = {}
SPECIFICATION Spec
INVARIANTS
    TypeOK
    AnswersInOrder
    StoppedIsSilent
PROPERTIES
    ImplementsChatQueue
CHECK_DEADLOCK FALSE
