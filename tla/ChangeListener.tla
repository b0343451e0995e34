---------------------------- MODULE ChangeListener ----------------------------
(* One subscription of an API instance to a PostgreSQL notification channel   *)
(* (db/change-listener.ts over PgStore.listen).  The module that uses it says *)
(* what onChange and onLost do, by conjoining them to Ready, Notified and     *)
(* Lost, and conjoins Announced to every commit whose trigger notifies.       *)
EXTENDS Naturals

VARIABLE link

(* at: what the listener believes; wire: the connection; due: notifications   *)
(* sent to it and not yet handled.  A quiet wire delivers nothing although    *)
(* the connection has not failed.                                             *)
LinkType == [at : {"off", "dialing", "live", "closed"},
             wire : {"none", "up", "quiet", "lost"}, due : Nat]

Off == [at |-> "off", wire |-> "none", due |-> 0]

Live == link.at = "live"

(* The listener is live, has not been silenced and has handled all it was sent. *)
CaughtUp == Live /\ link.wire # "quiet" /\ link.due = 0

ListenerInit == link = Off

(* start(), called once and then by the retry timer. *)
Start ==
  /\ link.at = "off"
  /\ link' = [link EXCEPT !.at = "dialing"]

(* LISTEN takes effect; from here on commits notify this connection. *)
Attach ==
  /\ link.at = "dialing" /\ link.wire = "none"
  /\ link' = [link EXCEPT !.wire = "up"]

(* The connection is refused, or was lost before listen() answered. *)
Refused ==
  /\ link.at = "dialing" /\ link.wire \in {"none", "lost"}
  /\ link' = Off

\* Faulty: a connection lost before listen() answered is taken for a live one.
ReadyRegardless ==
  /\ link.at = "dialing" /\ link.wire # "none"
  /\ link' = [link EXCEPT !.at = "live"]

(* listen() answers; onChange follows, for what was missed until now. *)
Ready ==
  /\ link.at = "dialing" /\ link.wire \in {"up", "quiet"}
  /\ link' = [link EXCEPT !.at = "live"]

(* A notification is handled; it may come before listen() has answered. *)
Notified ==
  /\ link.due > 0 /\ link.at \in {"dialing", "live"}
  /\ link' = [link EXCEPT !.due = @ - 1]

(* The connection fails: before listen() answers it is only remembered, *)
LostEarly ==
  /\ link.at = "dialing" /\ link.wire \in {"up", "quiet"}
  /\ link' = [link EXCEPT !.wire = "lost", !.due = 0]

(* and afterwards onLost follows and a retry is scheduled. *)
Lost ==
  /\ Live
  /\ link' = Off

(* Notifications stop arriving although the connection stands. *)
Silenced ==
  /\ link.wire = "up"
  /\ link' = [link EXCEPT !.wire = "quiet", !.due = 0]

(* stop(), or the store is closed: the listener never starts again. *)
Closed ==
  /\ link.at # "closed"
  /\ link' = [Off EXCEPT !.at = "closed"]

(* A transaction that notifies the channel commits. *)
Announced ==
  link' = IF link.wire = "up" THEN [link EXCEPT !.due = @ + 1] ELSE link
=============================================================================
