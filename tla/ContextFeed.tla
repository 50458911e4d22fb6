----------------------------- MODULE ContextFeed -----------------------------
(***************************************************************************)
(* What the connection manager promises its clients about the scanner's    *)
(* context updates: a client never gets an update that was not published,  *)
(* and those it gets come in the order of publication.  Updates may be     *)
(* skipped (a client that connects late, a message that is never taken).   *)
(***************************************************************************)
EXTENDS Naturals

CONSTANTS Clients

VARIABLES
  published,   \* how many contexts the scanner has published
  fed          \* the last one each client was sent

feedVars == <<published, fed>>

FeedInit == published = 0 /\ fed = [c \in Clients |-> 0]

Publish == published' = published + 1 /\ UNCHANGED fed

Feed(c) ==
  \E n \in (fed[c] + 1)..published :
    /\ fed' = [fed EXCEPT ![c] = n]
    /\ UNCHANGED published

FeedNext == Publish \/ \E c \in Clients : Feed(c)

FeedSpec == FeedInit /\ [][FeedNext]_feedVars
=============================================================================
