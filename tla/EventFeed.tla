----------------------------- MODULE EventFeed -----------------------------
(***************************************************************************)
(* What the events of the browser voice sessions are to their readers: one *)
(* feed of numbered events per session.  A feed keeps the newest events,   *)
(* forgets an old one only to make room, hands out all it has to whoever   *)
(* asks, each event once, and is over only when nothing will follow.       *)
(***************************************************************************)
EXTENDS Naturals

CONSTANTS
    Feeds,
    Cap             \* how many events a feed keeps for a reader

VARIABLES
    sent,           \* events sent so far
    oldest,         \* the oldest event still kept; sent + 1 if there is none
    over            \* no more events will be sent

feedVars == <<sent, oldest, over>>

FeedInit ==
    /\ sent = [f \in Feeds |-> 0]
    /\ oldest = [f \in Feeds |-> 1]
    /\ over = [f \in Feeds |-> FALSE]

Send(f) ==
    /\ ~ over[f]
    /\ sent' = [sent EXCEPT ![f] = @ + 1]
    /\ oldest' = IF sent[f] + 1 - oldest[f] < Cap THEN oldest
                 ELSE [oldest EXCEPT ![f] = @ + 1]
    /\ UNCHANGED over

Take(f) ==
    /\ oldest' = [oldest EXCEPT ![f] = sent[f] + 1]
    /\ UNCHANGED <<sent, over>>

Close(f) ==
    /\ over' = [over EXCEPT ![f] = TRUE]
    /\ UNCHANGED <<sent, oldest>>

FeedNext == \E f \in Feeds : Send(f) \/ Take(f) \/ Close(f)

FeedSpec == FeedInit /\ [][FeedNext]_feedVars

=============================================================================
