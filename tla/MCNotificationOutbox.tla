------------------------ MODULE MCNotificationOutbox ------------------------
(* TLC instances of NotificationOutbox. *)
EXTENDS NotificationOutbox, TLC

CONSTANTS hook, ntfy, c1, c2

=============================================================================
