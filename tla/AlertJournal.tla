---------------------------- MODULE AlertJournal ----------------------------
(***************************************************************************)
(* The chat under one entry of an alert's operational journal, as one      *)
(* reader's tab shows it (AlertOperationalJournal over                     *)
(* .../messages/[messageId]/replies): loaded when the thread is opened,    *)
(* loaded again for every event of the alert, and extended by the reader's *)
(* own reply when its POST is answered.  Replies are numbered as stored; an*)
(* event may be lost: its publication is best-effort, and the tab's stream *)
(* has gaps while it reconnects.                                           *)
(***************************************************************************)
EXTENDS Integers, Sequences

CONSTANTS
    MaxReplies,     \* bound: replies stored
    MaxThreadLoads  \* bound: GETs of the tab

ASSUME RepliesAreCounted == MaxReplies \in Nat \ {0} /\ MaxThreadLoads \in Nat

VARIABLES
    thread,     \* replies stored so far: 1 .. thread
    heralds,    \* the replies whose 'alert-messages' event is on its way to the tab
    unheardReplies,    \* history: the replies whose event was lost
    open,       \* openEntryId is this entry
    replies,    \* repliesByEntry[entry]: numbers of replies, or NotLoaded
    gets,       \* GETs under way: the number of the request and what it read
    sent,       \* the reader's POST: NoPost, Unserved, or the number it stored
    lastGet,    \* history: number of the last request
    applied,    \* history: number of the last request whose answer was applied
    excuseThread    \* history: what the list may be wrong for

journalVars == <<thread, heralds, unheardReplies, open, replies, gets, sent, lastGet, applied,
                 excuseThread>>

NotLoaded == <<0>>
Unserved == MaxReplies + 1
NoPost == 0
Upto(n) == [k \in 1 .. n |-> k]

-----------------------------------------------------------------------------
JournalTypeOK ==
    /\ thread \in 0 .. MaxReplies
    /\ heralds \subseteq 1 .. MaxReplies /\ unheardReplies \subseteq 1 .. MaxReplies
    /\ open \in BOOLEAN
    /\ replies \in Seq(0 .. MaxReplies)
    /\ gets \subseteq [number : 1 .. MaxThreadLoads, read : 0 .. Unserved]
    /\ sent \in 0 .. Unserved
    /\ lastGet \in 0 .. MaxThreadLoads /\ applied \in 0 .. MaxThreadLoads
    /\ excuseThread \in BOOLEAN

JournalInit ==
    /\ thread \in 0 .. 1 /\ heralds = {} /\ unheardReplies = {}
    /\ open = FALSE /\ replies = NotLoaded
    /\ gets = {} /\ sent = NoPost
    /\ lastGet = 0 /\ applied = 0
    /\ excuseThread = FALSE

-----------------------------------------------------------------------------
\* POST .../replies of anyone who may write (canReplyToAlertForum): the reply
\* is stored, then its event is published, and reaches the tab unless it is
\* lost (publishAdminEvent swallows its failures).
Store ==
    /\ thread < MaxReplies
    /\ thread' = thread + 1
    /\ \/ heralds' = heralds \cup {thread'} /\ UNCHANGED unheardReplies
       \/ unheardReplies' = unheardReplies \cup {thread'} /\ UNCHANGED heralds

OtherReplies ==
    /\ Store
    /\ UNCHANGED <<open, replies, gets, sent, lastGet, applied, excuseThread>>

\* loadReplies, up to its await.
LoadReplies ==
    /\ lastGet < MaxThreadLoads
    /\ lastGet' = lastGet + 1
    /\ gets' = gets \cup {[number |-> lastGet', read |-> Unserved]}

\* toggleEntry: a thread that was loaded before is not loaded again.
OpenOrClose ==
    \/ open /\ open' = FALSE /\ UNCHANGED <<gets, lastGet>>
    \/ /\ ~open /\ open' = TRUE
       /\ IF replies = NotLoaded THEN LoadReplies ELSE UNCHANGED <<gets, lastGet>>

ToggleEntry ==
    /\ OpenOrClose
    /\ UNCHANGED <<thread, heralds, unheardReplies, replies, sent, applied, excuseThread>>

\* Mutant: only the first event of a burst reloads it.
HearReplyOnce ==
    /\ heralds # {}
    /\ heralds' = {}
    /\ IF open /\ gets = {} THEN LoadReplies ELSE UNCHANGED <<gets, lastGet>>
    /\ UNCHANGED <<thread, unheardReplies, open, replies, sent, applied, excuseThread>>

\* The event reloads the thread that is open; the closed one stays as it is.
HearReply ==
    /\ \E k \in heralds : heralds' = heralds \ {k}
    /\ IF open
       THEN LoadReplies /\ UNCHANGED excuseThread
       ELSE /\ excuseThread' = (excuseThread \/ replies # NotLoaded \/ gets # {})
            /\ UNCHANGED <<gets, lastGet>>
    /\ UNCHANGED <<thread, unheardReplies, open, replies, sent, applied>>

\* GET .../replies.
ServeReplies ==
    /\ \E g \in gets :
        /\ g.read = Unserved
        /\ gets' = (gets \ {g}) \cup {[g EXCEPT !.read = thread]}
    /\ UNCHANGED <<thread, heralds, unheardReplies, open, replies, sent, lastGet, applied,
                   excuseThread>>

\* loadReplies after its await: no request number tells an older answer from
\* a newer one.  A failure leaves the list as it is.
AnswerReplies ==
    /\ \E g \in gets :
        /\ gets' = gets \ {g}
        /\ \/ /\ g.read # Unserved
              /\ replies' = Upto(g.read)
              /\ applied' = g.number
              /\ excuseThread' = (excuseThread \/ g.number < applied)
           \/ excuseThread' = TRUE /\ UNCHANGED <<replies, applied>>
    /\ UNCHANGED <<thread, heralds, unheardReplies, open, sent, lastGet>>

\* sendReply, its POST, and its answer: the reply goes to the end of what the
\* list is by then, or of an empty list when none was loaded.
SendReply ==
    /\ open /\ sent = NoPost
    /\ sent' = Unserved
    /\ UNCHANGED <<thread, heralds, unheardReplies, open, replies, gets, lastGet, applied,
                   excuseThread>>

StoreReply ==
    /\ sent = Unserved
    /\ \/ Store /\ sent' = thread'
       \/ sent' = NoPost /\ UNCHANGED <<thread, heralds, unheardReplies>>      \* refused
    /\ UNCHANGED <<open, replies, gets, lastGet, applied, excuseThread>>

AnswerReply ==
    /\ sent \in 1 .. MaxReplies
    /\ LET before == IF replies = NotLoaded THEN <<>> ELSE replies IN
        /\ replies' = Append(before, sent)
        /\ excuseThread' = (excuseThread \/ before # Upto(sent - 1) \/ gets # {})
    /\ sent' = NoPost
    /\ UNCHANGED <<thread, heralds, unheardReplies, open, gets, lastGet, applied>>

JournalNext ==
    \/ OtherReplies \/ ToggleEntry \/ HearReply \/ ServeReplies \/ AnswerReplies
    \/ SendReply \/ StoreReply \/ AnswerReply

JournalSpec == JournalInit /\ [][JournalNext]_journalVars

-----------------------------------------------------------------------------
\* An open thread with nothing under way shows the replies stored, each once
\* and in order, up to the last whose event was not lost.  Excepted
\* (excuseThread): an answer that came after a later one's or not at all, an
\* own reply appended to a list it did not continue or while a load was under
\* way, and a reply the tab heard of while the thread was closed: nothing
\* loads such a thread again until the next event.
OpenThreadIsComplete ==
    open /\ heralds = {} /\ gets = {} /\ sent = NoPost /\ ~excuseThread =>
        \E n \in 0 .. thread : replies = Upto(n) /\ n + 1 .. thread \subseteq unheardReplies
=============================================================================
