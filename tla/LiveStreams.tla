----------------------------- MODULE LiveStreams -----------------------------
(***************************************************************************)
(* The server's end of the live-refresh streams: api/events and            *)
(* api/admin/events over lib/sseConnectionLimit.ts and lib/adminEvents.ts. *)
(* A stream takes one of its user's slots, beats, and is cleaned up when   *)
(* the platform reports that the client is gone.  Every stream listens to  *)
(* one Redis subscription, made with the first stream of the process.      *)
(* A tick is one heartbeat period.                                         *)
(***************************************************************************)
EXTENDS Integers, FiniteSets

CONSTANTS
    StreamUsers,    \* signed-in users
    Streams,        \* streams the process can serve at once
    Cap,            \* MAX_CONNECTIONS_PER_USER
    SlotTTL,        \* SLOT_TTL_MS, in ticks, rounded down
    MaxDrops        \* bound: outages of Redis, and of the process

\* A slot outlives two beats (SLOT_TTL_MS, HEARTBEAT_MS): a late one finds it.
ASSUME StreamsAssumption ==
    /\ IsFiniteSet(Streams) /\ StreamUsers # {}
    /\ Cap \in Nat /\ SlotTTL \in Nat /\ SlotTTL >= 2
    /\ MaxDrops \in Nat

VARIABLES
    stream,     \* what is at the other end: "free", "live" or "gone"
    owner,      \* whose stream it is (Nobody's when it is free)
    refused,    \* the user's page was answered 429 and holds no stream any more
    slot,       \* ticks since the slot was last touched, or NoSlot
    link,       \* the subscriber's connection to Redis
    drops       \* bounded: outages so far

streamsVars == <<stream, owner, refused, slot, link, drops>>

Nobody == CHOOSE u \in StreamUsers : TRUE
NoSlot == -1
Ages == 0 .. SlotTTL + 1
Older(age) == IF age <= SlotTTL THEN age + 1 ELSE age

StreamsTypeOK ==
    /\ stream \in [Streams -> {"free", "live", "gone"}]
    /\ owner \in [Streams -> StreamUsers]
    /\ refused \in [StreamUsers -> BOOLEAN]
    /\ slot \in [Streams -> Ages \cup {NoSlot}]
    /\ link \in {"none", "down", "ready", "subscribed"}
    /\ drops \in 0 .. MaxDrops

StreamsInit ==
    /\ stream = [s \in Streams |-> "free"]
    /\ owner = [s \in Streams |-> Nobody]
    /\ refused = [u \in StreamUsers |-> FALSE]
    /\ slot = [s \in Streams |-> NoSlot]
    /\ link = "none"
    /\ drops = 0

-----------------------------------------------------------------------------
(* sseConnectionLimit.ts *)

\* sweepExpired
SweepExpired == [s \in Streams |-> IF slot[s] > SlotTTL THEN NoSlot ELSE slot[s]]

Held(slots, u) == {s \in Streams : slots[s] # NoSlot /\ owner[s] = u}

\* acquireSseSlot grants a slot.
UnderCap(slots, u) == Cardinality(Held(slots, u)) < Cap

-----------------------------------------------------------------------------
(* The two routes. *)

\* A stream is opened: the first one creates the subscriber.
Open(u) ==
    /\ ~refused[u]
    /\ UnderCap(SweepExpired, u)
    /\ \E s \in Streams :
        /\ stream[s] = "free"
        /\ stream' = [stream EXCEPT ![s] = "live"]
        /\ owner' = [owner EXCEPT ![s] = u]
        /\ slot' = [SweepExpired EXCEPT ![s] = 0]
    /\ link' = IF link = "none" THEN "down" ELSE link
    /\ UNCHANGED <<refused, drops>>

\* 429: the browser does not try again.
Refuse(u) ==
    /\ ~refused[u]
    /\ ~UnderCap(SweepExpired, u)
    /\ refused' = [refused EXCEPT ![u] = TRUE]
    /\ slot' = SweepExpired
    /\ UNCHANGED <<stream, owner, link, drops>>

\* The user reloads the page, which tries again.
Reload(u) ==
    /\ refused[u]
    /\ refused' = [refused EXCEPT ![u] = FALSE]
    /\ UNCHANGED <<stream, owner, slot, link, drops>>

\* The interval of a stream that has not been cleaned up, client or no client.
Heartbeat(s) ==
    /\ stream[s] # "free"
    /\ slot' = [slot EXCEPT ![s] = IF @ = NoSlot THEN NoSlot ELSE 0]
    /\ UNCHANGED <<stream, owner, refused, link, drops>>

\* The client is gone, and nothing has told the server yet.
Vanish(s) ==
    /\ stream[s] = "live"
    /\ stream' = [stream EXCEPT ![s] = "gone"]
    /\ UNCHANGED <<owner, refused, slot, link, drops>>

\* Mutant: the listener and the interval go, the slot stays.
CleanupKeepsSlot(s) ==
    /\ stream[s] # "free"
    /\ stream' = [stream EXCEPT ![s] = "free"]
    /\ UNCHANGED <<owner, refused, slot, link, drops>>

\* cleanup: the abort signal, or the stream's cancel.
Cleanup(s) ==
    /\ stream[s] # "free"
    /\ stream' = [stream EXCEPT ![s] = "free"]
    /\ owner' = [owner EXCEPT ![s] = Nobody]
    /\ slot' = [slot EXCEPT ![s] = NoSlot]
    /\ UNCHANGED <<refused, link, drops>>

\* Time passes; an interval is late by less than a period.
StreamsTick ==
    /\ \A s \in Streams : stream[s] # "free" => slot[s] < 2
    /\ slot' = [s \in Streams |-> IF slot[s] = NoSlot THEN NoSlot ELSE Older(slot[s])]
    /\ UNCHANGED <<stream, owner, refused, link, drops>>

\* The process restarts: slots, listeners and the subscriber were in memory.
Restart ==
    /\ drops < MaxDrops
    /\ drops' = drops + 1
    /\ stream' = [s \in Streams |-> "free"]
    /\ slot' = [s \in Streams |-> NoSlot]
    /\ owner' = [s \in Streams |-> Nobody]
    /\ link' = "none"
    /\ UNCHANGED refused

-----------------------------------------------------------------------------
(* The subscriber: getSubscriber. *)

LinkReady ==
    /\ link = "down"
    /\ link' = "ready"
    /\ UNCHANGED <<stream, owner, refused, slot, drops>>

\* Mutant: it subscribes when it is created, not whenever it is ready.
SubscribeOnce ==
    /\ link = "ready" /\ drops = 0
    /\ link' = "subscribed"
    /\ UNCHANGED <<stream, owner, refused, slot, drops>>

\* on('ready'), at the first connection and at every later one.
Subscribe ==
    /\ link = "ready"
    /\ link' = "subscribed"
    /\ UNCHANGED <<stream, owner, refused, slot, drops>>

\* Redis goes away, perhaps before the subscription was made.
LinkLost ==
    /\ link \in {"ready", "subscribed"}
    /\ drops < MaxDrops
    /\ drops' = drops + 1
    /\ link' = "down"
    /\ UNCHANGED <<stream, owner, refused, slot>>

StreamsNext ==
    \/ \E u \in StreamUsers : Open(u) \/ Refuse(u) \/ Reload(u)
    \/ \E s \in Streams : Heartbeat(s) \/ Vanish(s) \/ Cleanup(s)
    \/ StreamsTick \/ Restart
    \/ LinkReady \/ Subscribe \/ LinkLost

StreamsSpec == StreamsInit /\ [][StreamsNext]_streamsVars

-----------------------------------------------------------------------------
(* Properties. *)

\* A user never holds more streams than the cap, those counted whose clients
\* are gone: every stream being served has its slot, however late its beats
\* (sseConnectionLimit.ts:34-39, 48-52).
StreamsWithinCap ==
    \A u \in StreamUsers :
        Cardinality({s \in Streams : stream[s] # "free" /\ owner[s] = u}) <= Cap

\* A slot is held exactly while its stream is served: nothing leaks it, and
\* the sweep takes none away from a stream that beats (sseConnectionLimit.ts:41-52).
SlotsMatchStreams == \A s \in Streams : (slot[s] # NoSlot) = (stream[s] # "free")

\* An open stream is subscribed again after every outage of Redis, also when
\* the outage came before the first subscription (adminEvents.ts:118-133).
StreamsHear ==
    (\E s \in Streams : stream[s] # "free") ~>
        (link = "subscribed" \/ \A s \in Streams : stream[s] = "free")

\* The count of slots can be trusted: it counts what is served, and the cap
\* holds for that.
SlotsHold == StreamsWithinCap /\ SlotsMatchStreams
=============================================================================
