------------------------------- MODULE MCWebhook -------------------------------
(* A small instance of the webhook dispatcher for TLC. *)
EXTENDS WebhookDispatcher, TLC

CONSTANTS e1, s1, u1, u2

On(u, es) == [url |-> u, active |-> TRUE, events |-> es]
Off(u, es) == [On(u, es) EXCEPT !.active = FALSE]
As(s, v) == [id |-> s, url |-> v.url, active |-> v.active, events |-> v.events]

(* One receiver, which may be paused, and may move and want nothing any more. *)
OneReceiver(s) == {On(u1, Events), Off(u1, Events), On(u2, {})}
BootOne == <<As(s1, On(u1, Events))>>
===============================================================================
