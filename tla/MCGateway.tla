----------------------------- MODULE MCGateway -----------------------------
(***************************************************************************)
(* Gateway with two chat channels and a cron job.                          *)
(***************************************************************************)
EXTENDS Gateway

CONSTANTS telegram, wechat, news

(* The channels, in the order of their start. *)
WeChatOnly == <<wechat>>
TelegramWeChat == <<telegram, wechat>>

(* A job that broadcasts, and one that names no channel. *)
NewsTarget == [c \in CronJobs |-> All]
NobodyTarget == [c \in CronJobs |-> "cron"]
=============================================================================
