------------------------------ MODULE Delivery ------------------------------
(***************************************************************************)
(* What the outbox promises, without tables, passes or retries. A          *)
(* notification is filed, and then it is withdrawn (the family changed     *)
(* something), skipped (a decision, kept on record) or sent. It is sent    *)
(* only once every channel has settled its share of it, and neither record *)
(* is ever taken back. Crashes, database errors and refusals by providers  *)
(* are all the same here: the notification stays filed.                    *)
(***************************************************************************)
CONSTANTS
    Notification,    \* everything that could be announced
    Channel          \* the channels that owe an answer

VARIABLES
    filed,           \* waiting to be delivered
    skipped,         \* retired by a decision
    sent,            \* retired by a delivery
    settled          \* <<notification, channel>>: the channel's share is done

dvars == <<filed, skipped, sent, settled>>

DInit ==
    /\ filed = {} /\ skipped = {} /\ sent = {}
    /\ settled = {}

File ==
    /\ \E n \in Notification \ (filed \cup skipped \cup sent) :
          filed' = filed \cup {n}
    /\ UNCHANGED <<skipped, sent, settled>>

(* One edit withdraws everything it invalidates. *)
Withdraw ==
    /\ \E gone \in SUBSET filed : gone # {} /\ filed' = filed \ gone
    /\ UNCHANGED <<skipped, sent, settled>>

(* A channel may settle for a notification withdrawn a moment earlier. *)
Settle ==
    /\ \E n \in Notification, c \in Channel : settled' = settled \cup {<<n, c>>}
    /\ UNCHANGED <<filed, skipped, sent>>

Skip ==
    /\ \E n \in filed : filed' = filed \ {n} /\ skipped' = skipped \cup {n}
    /\ UNCHANGED <<sent, settled>>

Deliver ==
    /\ \E n \in filed :
          /\ \A c \in Channel : <<n, c>> \in settled
          /\ filed' = filed \ {n}
          /\ sent' = sent \cup {n}
    /\ UNCHANGED <<skipped, settled>>

DNext == File \/ Withdraw \/ Settle \/ Skip \/ Deliver

DSpec == DInit /\ [][DNext]_dvars
=============================================================================
