------------------------- MODULE MCNotificationRouting -------------------------
(* Model values for NotificationRouting. *)
EXTENDS NotificationRouting

CONSTANTS l1, l2

Both == [channels |-> Channels, primary |-> None, fallback |-> FALSE]
TelegramFirst == [channels |-> Channels, primary |-> "telegram", fallback |-> TRUE]
BrowserFirst == [channels |-> Channels, primary |-> "browser", fallback |-> TRUE]

FallbackModes == {TelegramFirst, BrowserFirst, Both}
=============================================================================
