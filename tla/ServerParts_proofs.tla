-------------------------- MODULE ServerParts_proofs --------------------------
(***************************************************************************)
(* Theorems about the parts of the server beside the ledger, signing in    *)
(* and the accounts: one section for each component, first its inductive   *)
(* invariant, then the three facts about it and the theorem.               *)
(***************************************************************************)
EXTENDS AlertAccess, AuditRevert, LiveStreams, PasswordReset, ProfileUpdate, RetentionCleanup,
        ScopeNotice, FiniteSetTheorems, TLAPS

-----------------------------------------------------------------------------
(* The access copy of an alert. *)

\* A row that was read is the row as it is, unless it changed since.
ReadsAreFresh ==
    \A l \in Lookups :
        lookup[l].phase = "fill" =>
            /\ lookup[l].read # NoCopy
            /\ lookup[l].outdated \/ lookup[l].read = alertRow

AccessInv == AccessTypeOK /\ ReadsAreFresh /\ CopyTellsRow

LEMMA AtRestTyped ==
    /\ AtRest \in [phase : {"idle", "fill", "write"}, read : RowStatuses \cup {NoCopy},
                   outdated : BOOLEAN]
    /\ AtRest.phase = "idle"
BY DEF AtRest

LEMMA AccessInitInv == AccessInit => AccessInv
<1> SUFFICES ASSUME AccessInit
             PROVE  AccessInv
  OBVIOUS
<1>1. AccessTypeOK
  <2>1. lookup \in [Lookups -> [phase : {"idle", "fill", "write"},
                                 read : RowStatuses \cup {NoCopy}, outdated : BOOLEAN]]
    BY AtRestTyped DEF AccessInit
  <2>2. /\ alertRow \in RowStatuses /\ alertCopy = NoCopy
        /\ change \in [Changes -> {"idle", "drop"}]
        /\ entries \in 0 .. MaxEntries
    BY EntriesAreCounted DEF AccessInit, RowStatuses
  <2>3. excused \in BOOLEAN
    BY DEF AccessInit
  <2>4. QED
    BY <2>1, <2>2, <2>3 DEF AccessTypeOK
<1>2. ReadsAreFresh /\ CopyTellsRow
  BY AtRestTyped DEF ReadsAreFresh, CopyTellsRow, AccessInit
<1>3. QED
  BY <1>1, <1>2 DEF AccessInv

LEMMA AccessNextInv == AccessInv /\ [AccessNext]_accessVars => AccessInv'
<1> SUFFICES ASSUME AccessInv, [AccessNext]_accessVars
             PROVE  AccessInv'
  OBVIOUS
<1> USE EntriesAreCounted DEF AccessInv, AccessTypeOK, ReadsAreFresh, CopyTellsRow, AtRest, NoCopy, RowStatuses
<1>1. ASSUME NEW l \in Lookups, CopyHit(l)
      PROVE  AccessInv'
  BY <1>1 DEF CopyHit
<1>2. ASSUME NEW l \in Lookups, CopyMiss(l)
      PROVE  AccessInv'
  BY <1>2 DEF CopyMiss
<1>3. ASSUME NEW l \in Lookups, Fill(l)
      PROVE  AccessInv'
  BY <1>3 DEF Fill
<1>4. ASSUME NEW l \in Lookups, ReadEntries(l) \/ PostEntry(l)
      PROVE  AccessInv'
  <2>1. /\ lookup' = [lookup EXCEPT ![l] = AtRest]
        /\ UNCHANGED <<alertRow, alertCopy, change, excused>>
    BY <1>4 DEF ReadEntries, PostEntry
  <2>2. entries' \in 0 .. MaxEntries
    BY <1>4 DEF ReadEntries, PostEntry
  <2>3. QED
    BY <2>1, <2>2, AtRestTyped
<1>5. ASSUME NEW c \in Changes, ChangeRow(c)
      PROVE  AccessInv'
  <2>1. /\ lookup' = [l \in Lookups |-> [lookup[l] EXCEPT !.outdated = (lookup[l].phase = "fill")]]
        /\ change' = [change EXCEPT ![c] = "drop"]
        /\ alertRow' \in RowStatuses \cup {"gone"} /\ entries' \in {0, entries}
        /\ UNCHANGED <<alertCopy, excused>>
    BY <1>5 DEF ChangeRow, Outdated
  <2>2. \A l \in Lookups :
           /\ lookup'[l].phase = lookup[l].phase /\ lookup'[l].read = lookup[l].read
           /\ lookup'[l].outdated = (lookup[l].phase = "fill")
           /\ lookup'[l] \in [phase : {"idle", "fill", "write"}, read : RowStatuses \cup {NoCopy},
                               outdated : BOOLEAN]
    BY <2>1
  <2>3. AccessTypeOK'
    <3>1. lookup' \in [Lookups -> [phase : {"idle", "fill", "write"},
                                   read : RowStatuses \cup {NoCopy}, outdated : BOOLEAN]]
      BY <2>1, <2>2
    <3> HIDE DEF ReadsAreFresh, CopyTellsRow
    <3>2. QED
      BY <2>1, <3>1
  <2>4. change'[c] = "drop"
    BY <2>1
  <2>5. QED
    BY <2>1, <2>2, <2>3, <2>4
<1>6. ASSUME NEW c \in Changes, DropCopy(c)
      PROVE  AccessInv'
  BY <1>6 DEF DropCopy
<1>7. CASE ExpireCopy
  BY <1>7 DEF ExpireCopy
<1>8. CASE UNCHANGED accessVars
  BY <1>8 DEF accessVars
<1>9. QED
  BY <1>1, <1>2, <1>3, <1>4, <1>5, <1>6, <1>7, <1>8 DEF AccessNext

\* Whatever the order of the awaits, and whatever call to Redis fails: a wrong
\* copy is about to be dropped, or excused (alertAccessCache.ts:16-62).
THEOREM CopyAlwaysTellsRow == AccessSpec => []CopyTellsRow
<1>1. AccessInv => CopyTellsRow
  BY DEF AccessInv
<1>2. QED
  BY AccessInitInv, AccessNextInv, <1>1, PTL DEF AccessSpec

-----------------------------------------------------------------------------
(* The slots of the event streams. *)

\* No slot is old enough for the sweep: only the streams' own ends free it.
SlotsAreYoung == \A s \in Streams : slot[s] <= SlotTTL

StreamsInv == StreamsTypeOK /\ SlotsMatchStreams /\ SlotsAreYoung /\ StreamsWithinCap

LEMMA NobodyIsAUser == Nobody \in StreamUsers
BY StreamsAssumption DEF Nobody

LEMMA SweepTakesNothing ==
    ASSUME StreamsTypeOK, SlotsAreYoung
    PROVE  SweepExpired = slot
BY StreamsAssumption DEF StreamsTypeOK, SlotsAreYoung, SweepExpired, NoSlot, Ages

\* What is served for a user is what the slots count for it.
LEMMA HeldIsServed ==
    ASSUME SlotsMatchStreams, NEW u \in StreamUsers
    PROVE  Held(slot, u) = {s \in Streams : stream[s] # "free" /\ owner[s] = u}
BY DEF SlotsMatchStreams, Held

\* The streams of a user, after a step that opened none for it.
LEMMA CapKept ==
    ASSUME StreamsWithinCap,
           \A s \in Streams : stream'[s] # "free" =>
                stream[s] # "free" /\ owner'[s] = owner[s]
    PROVE  StreamsWithinCap'
<1> SUFFICES ASSUME NEW u \in StreamUsers
             PROVE  Cardinality({s \in Streams : stream'[s] # "free" /\ owner'[s] = u}) <= Cap
  BY DEF StreamsWithinCap
<1> DEFINE before == {s \in Streams : stream[s] # "free" /\ owner[s] = u}
           after == {s \in Streams : stream'[s] # "free" /\ owner'[s] = u}
<1>1. after \subseteq before /\ before \subseteq Streams
  OBVIOUS
<1>2. IsFiniteSet(before)
  BY <1>1, StreamsAssumption, FS_Subset
<1>3. Cardinality(after) <= Cardinality(before)
  BY <1>1, <1>2, FS_Subset
<1>4. Cardinality(after) \in Nat /\ Cardinality(before) \in Nat
  BY <1>1, <1>2, FS_Subset, FS_CardinalityType
<1>5. Cardinality(before) <= Cap
  BY DEF StreamsWithinCap
<1>6. QED
  BY <1>3, <1>4, <1>5, StreamsAssumption

LEMMA StreamsInitInv == StreamsInit => StreamsInv
<1> SUFFICES ASSUME StreamsInit
             PROVE  StreamsInv
  OBVIOUS
<1>1. StreamsTypeOK
  BY StreamsAssumption, NobodyIsAUser DEF StreamsInit, StreamsTypeOK, NoSlot
<1>2. SlotsMatchStreams /\ SlotsAreYoung
  BY StreamsAssumption DEF StreamsInit, SlotsMatchStreams, SlotsAreYoung, NoSlot
<1>3. StreamsWithinCap
  <2>1. \A u \in StreamUsers : {s \in Streams : stream[s] # "free" /\ owner[s] = u} = {}
    BY DEF StreamsInit
  <2>2. QED
    BY <2>1, FS_EmptySet, StreamsAssumption DEF StreamsWithinCap
<1>4. QED
  BY <1>1, <1>2, <1>3 DEF StreamsInv

LEMMA OpenKeepsInv ==
    ASSUME StreamsInv, NEW u \in StreamUsers, Open(u)
    PROVE  StreamsInv'
<1> USE StreamsAssumption DEF StreamsInv
<1>1. PICK s \in Streams :
        /\ stream[s] = "free"
        /\ stream' = [stream EXCEPT ![s] = "live"]
        /\ owner' = [owner EXCEPT ![s] = u]
        /\ slot' = [slot EXCEPT ![s] = 0]
  BY SweepTakesNothing DEF Open
<1>2. StreamsTypeOK'
  <2>1. 0 \in Ages
    BY DEF Ages
  <2>2. /\ stream' \in [Streams -> {"free", "live", "gone"}]
        /\ owner' \in [Streams -> StreamUsers]
        /\ slot' \in [Streams -> Ages \cup {NoSlot}]
    BY <1>1, <2>1 DEF StreamsTypeOK
  <2>3. /\ UNCHANGED <<refused, drops>>
        /\ link' \in {"none", "down", "ready", "subscribed"}
    BY DEF Open, StreamsTypeOK
  <2>4. QED
    BY <2>2, <2>3 DEF StreamsTypeOK
<1>3. SlotsMatchStreams' /\ SlotsAreYoung'
  BY <1>1 DEF StreamsTypeOK, SlotsMatchStreams, SlotsAreYoung, NoSlot
<1>4. StreamsWithinCap'
  <2> SUFFICES ASSUME NEW v \in StreamUsers
               PROVE  Cardinality({x \in Streams : stream'[x] # "free" /\ owner'[x] = v}) <= Cap
    BY DEF StreamsWithinCap
  <2> DEFINE before == {x \in Streams : stream[x] # "free" /\ owner[x] = v}
             after == {x \in Streams : stream'[x] # "free" /\ owner'[x] = v}
  <2>1. IsFiniteSet(before) /\ Cardinality(before) \in Nat /\ Cardinality(before) <= Cap
    BY FS_Subset, FS_CardinalityType DEF StreamsWithinCap
  <2>2. CASE v # u
    <3>1. after = before
      BY <1>1, <2>2 DEF StreamsTypeOK
    <3>2. QED
      BY <2>1, <3>1
  <2>3. CASE v = u
    <3>1. Held(slot, u) = before
      BY <2>3, HeldIsServed
    <3>2. UnderCap(slot, u)
      BY SweepTakesNothing DEF Open
    <3>3. Cardinality(before) < Cap
      BY <3>1, <3>2 DEF UnderCap
    <3>4. after = before \cup {s} /\ s \notin before
      BY <1>1, <2>3 DEF StreamsTypeOK
    <3>5. Cardinality(after) = Cardinality(before) + 1
      BY <2>1, <3>4, FS_AddElement
    <3>6. QED
      BY <2>1, <3>3, <3>5
  <2>4. QED
    BY <2>2, <2>3
<1>5. QED
  BY <1>2, <1>3, <1>4

LEMMA StreamsNextInv == StreamsInv /\ [StreamsNext]_streamsVars => StreamsInv'
<1> SUFFICES ASSUME StreamsInv, [StreamsNext]_streamsVars
             PROVE  StreamsInv'
  OBVIOUS
<1> USE StreamsAssumption DEF StreamsInv
<1>1. ASSUME NEW u \in StreamUsers, Refuse(u) \/ Reload(u)
      PROVE  StreamsInv'
  <2>1. /\ UNCHANGED <<stream, owner, slot, link, drops>>
        /\ refused' \in [StreamUsers -> BOOLEAN]
    BY <1>1, SweepTakesNothing DEF Refuse, Reload, StreamsTypeOK
  <2>2. QED
    BY <2>1, CapKept DEF StreamsTypeOK, SlotsMatchStreams, SlotsAreYoung
<1>2. ASSUME NEW s \in Streams, Heartbeat(s)
      PROVE  StreamsInv'
  <2>1. /\ slot' = [slot EXCEPT ![s] = IF slot[s] = NoSlot THEN NoSlot ELSE 0]
        /\ UNCHANGED <<stream, owner, refused, link, drops>>
    BY <1>2 DEF Heartbeat
  <2>2. StreamsTypeOK'
    BY <2>1 DEF StreamsTypeOK, Ages
  <2>3. SlotsMatchStreams' /\ SlotsAreYoung'
    BY <2>1 DEF StreamsTypeOK, SlotsMatchStreams, SlotsAreYoung, NoSlot
  <2>4. QED
    BY <2>1, <2>2, <2>3, CapKept
<1>3. ASSUME NEW s \in Streams, Vanish(s)
      PROVE  StreamsInv'
  <2>1. StreamsTypeOK'
    BY <1>3 DEF Vanish, StreamsTypeOK
  <2>2. SlotsMatchStreams' /\ SlotsAreYoung'
    BY <1>3 DEF Vanish, StreamsTypeOK, SlotsMatchStreams, SlotsAreYoung
  <2>3. StreamsWithinCap'
    BY <1>3, CapKept DEF Vanish, StreamsTypeOK
  <2>4. QED
    BY <2>1, <2>2, <2>3
<1>4. ASSUME NEW s \in Streams, Cleanup(s)
      PROVE  StreamsInv'
  <2>1. StreamsTypeOK'
    BY <1>4, NobodyIsAUser DEF Cleanup, StreamsTypeOK
  <2>2. SlotsMatchStreams' /\ SlotsAreYoung'
    BY <1>4 DEF Cleanup, StreamsTypeOK, SlotsMatchStreams, SlotsAreYoung, NoSlot
  <2>3. StreamsWithinCap'
    BY <1>4, CapKept DEF Cleanup, StreamsTypeOK
  <2>4. QED
    BY <2>1, <2>2, <2>3
<1>5. CASE StreamsTick
  <2>1. \A s \in Streams :
           /\ slot[s] # NoSlot => slot[s] < 2
           /\ slot'[s] = IF slot[s] = NoSlot THEN NoSlot ELSE Older(slot[s])
    BY <1>5 DEF StreamsTick, SlotsMatchStreams
  <2>2. \A s \in Streams :
           /\ slot'[s] \in Ages \cup {NoSlot} /\ slot'[s] <= SlotTTL
           /\ (slot'[s] # NoSlot) = (slot[s] # NoSlot)
    BY <2>1 DEF StreamsTypeOK, Older, NoSlot, Ages
  <2>3. StreamsTypeOK'
    BY <1>5, <2>2 DEF StreamsTick, StreamsTypeOK
  <2>4. SlotsMatchStreams' /\ SlotsAreYoung'
    BY <1>5, <2>2 DEF StreamsTick, SlotsMatchStreams, SlotsAreYoung
  <2>5. QED
    BY <1>5, <2>3, <2>4, CapKept DEF StreamsTick
<1>6. CASE Restart
  <2>1. StreamsTypeOK'
    BY <1>6, NobodyIsAUser DEF Restart, StreamsTypeOK, NoSlot
  <2>2. SlotsMatchStreams' /\ SlotsAreYoung'
    BY <1>6 DEF Restart, SlotsMatchStreams, SlotsAreYoung, NoSlot
  <2>3. QED
    BY <1>6, <2>1, <2>2, CapKept DEF Restart
<1>7. CASE LinkReady \/ Subscribe \/ LinkLost
  <2>1. /\ UNCHANGED <<stream, owner, refused, slot>>
        /\ link' \in {"down", "ready", "subscribed"} /\ drops' \in 0 .. MaxDrops
    BY <1>7 DEF LinkReady, Subscribe, LinkLost, StreamsTypeOK
  <2>2. QED
    BY <2>1, CapKept DEF StreamsTypeOK, SlotsMatchStreams, SlotsAreYoung
<1>8. CASE UNCHANGED streamsVars
  BY <1>8, CapKept DEF streamsVars, StreamsTypeOK, SlotsMatchStreams, SlotsAreYoung
<1>9. QED
  BY <1>1, <1>2, <1>3, <1>4, <1>5, <1>6, <1>7, <1>8, OpenKeepsInv DEF StreamsNext

\* For any number of users and streams: as long as a slot outlives two beats,
\* the count of slots is the count of streams, and neither exceeds the cap
\* (sseConnectionLimit.ts:34-94).
THEOREM SlotsAlwaysHold == StreamsSpec => []SlotsHold
<1>1. StreamsInv => SlotsHold
  BY DEF StreamsInv, SlotsHold
<1>2. QED
  BY StreamsInitInv, StreamsNextInv, <1>1, PTL DEF StreamsSpec

-----------------------------------------------------------------------------
(* Links for a forgotten password. *)

\* A link that changed a password is used up, by one form; a form that is told
\* so is that one.
LinkSpentOnce ==
    /\ \A u \in Uses, l \in Links : <<u, l>> \in changedBy => resetLink[l] = "used"
    /\ \A u, v \in Uses, l \in Links : <<u, l>> \in changedBy /\ <<v, l>> \in changedBy => u = v
    /\ \A u \in Uses : use[u].told = "changed" => <<u, use[u].link>> \in changedBy

LinkTypeOK ==
    /\ resetLink \in [Links -> {"unsent", "open", "used"}]
    /\ use \in [Uses -> [phase : {"idle", "hashing", "answer"}, link : Links,
                         told : {"nothing", "changed", "invalid"}]]
    /\ changedBy \subseteq Uses \X Links

LinkInv == LinkTypeOK /\ LinkSpentOnce

LEMMA LinkInitInv == ResetInit => LinkInv
<1> SUFFICES ASSUME ResetInit
             PROVE  LinkInv
  OBVIOUS
<1>1. NotUsing.link \in Links /\ NotUsing.phase = "idle" /\ NotUsing.told = "nothing"
  BY ResetAssumption DEF NotUsing
<1>2. NotUsing \in [phase : {"idle", "hashing", "answer"}, link : Links,
                    told : {"nothing", "changed", "invalid"}]
  BY ResetAssumption DEF NotUsing
<1>3. LinkTypeOK
  BY <1>2 DEF ResetInit, LinkTypeOK
<1>4. LinkSpentOnce
  BY <1>1 DEF ResetInit, LinkSpentOnce
<1>5. QED
  BY <1>3, <1>4 DEF LinkInv

\* Asking for a link only sends one that was not sent before.
LEMMA ForgotKeepsLinks ==
    ASSUME LinkInv, ForgotNext
    PROVE  LinkInv'
<1>1. UNCHANGED <<use, changedBy>>
  BY DEF ForgotNext, Ask, Increment, SetExpiry, ExpireAttempts, Gate, SendLink, Told, Solve,
         useVars
<1>2. resetLink' = resetLink
        \/ \E l \in Links : resetLink[l] = "unsent" /\ resetLink' = [resetLink EXCEPT ![l] = "open"]
  BY DEF ForgotNext, Ask, Increment, SetExpiry, ExpireAttempts, Gate, SendLink, Told, Solve
<1>3. CASE resetLink' = resetLink
  BY <1>1, <1>3 DEF LinkInv, LinkTypeOK, LinkSpentOnce
<1>4. ASSUME NEW l \in Links, resetLink[l] = "unsent",
             resetLink' = [resetLink EXCEPT ![l] = "open"]
      PROVE  LinkInv'
  <2>1. LinkTypeOK'
    BY <1>1, <1>4 DEF LinkInv, LinkTypeOK
  <2>2. \A k \in Links : resetLink[k] = "used" => resetLink'[k] = "used"
    BY <1>4 DEF LinkInv, LinkTypeOK
  <2>3. LinkSpentOnce'
    BY <1>1, <2>2 DEF LinkInv, LinkSpentOnce
  <2>4. QED
    BY <2>1, <2>3 DEF LinkInv
<1>5. QED
  BY <1>2, <1>3, <1>4

\* A form that leaves the record of changes alone and is told nothing new.
LEMMA UseKeepsLinks ==
    ASSUME LinkInv, NEW u \in Uses, UNCHANGED <<resetLink, changedBy>>,
           use' \in [Uses -> [phase : {"idle", "hashing", "answer"}, link : Links,
                              told : {"nothing", "changed", "invalid"}]],
           \A v \in Uses \ {u} : use'[v] = use[v],
           use'[u].told = "changed" =>
                use[u].told = "changed" /\ use'[u].link = use[u].link
    PROVE  LinkInv'
<1>1. LinkTypeOK'
  BY DEF LinkInv, LinkTypeOK
<1>2. \A v \in Uses : use'[v].told = "changed" => <<v, use'[v].link>> \in changedBy'
  BY DEF LinkInv, LinkSpentOnce
<1>3. LinkSpentOnce'
  BY <1>2 DEF LinkInv, LinkSpentOnce
<1>4. QED
  BY <1>1, <1>3 DEF LinkInv

LEMMA ChangeKeepsLinks ==
    ASSUME LinkInv, NEW u \in Uses, Change(u)
    PROVE  LinkInv'
<1> DEFINE l == use[u].link
<1> USE DEF LinkInv
<1>1. use[u] \in [phase : {"idle", "hashing", "answer"}, link : Links,
                  told : {"nothing", "changed", "invalid"}]
  BY DEF LinkTypeOK
<1>2. l \in Links
  BY <1>1
<1>3. CASE /\ resetLink[l] = "open"
           /\ resetLink' = [resetLink EXCEPT ![l] = "used"]
           /\ changedBy' = changedBy \cup {<<u, l>>}
           /\ use' = [use EXCEPT ![u].phase = "answer", ![u].told = "changed"]
  <2>1. LinkTypeOK'
    <3>1. resetLink' \in [Links -> {"unsent", "open", "used"}]
      BY <1>3 DEF LinkTypeOK
    <3>2. use' \in [Uses -> [phase : {"idle", "hashing", "answer"}, link : Links,
                             told : {"nothing", "changed", "invalid"}]]
      BY <1>3, <1>1 DEF LinkTypeOK
    <3>3. changedBy' \subseteq Uses \X Links
      BY <1>3, <1>2 DEF LinkTypeOK
    <3>4. QED
      BY <3>1, <3>2, <3>3 DEF LinkTypeOK
  <2>2. \A v \in Uses : <<v, l>> \notin changedBy
    BY <1>3, <1>2 DEF LinkSpentOnce
  <2>3. \A k \in Links : resetLink'[k] = IF k = l THEN "used" ELSE resetLink[k]
    BY <1>3, <1>2 DEF LinkTypeOK
  <2>4. \A v \in Uses, k \in Links : <<v, k>> \in changedBy' =>
            <<v, k>> \in changedBy \/ (v = u /\ k = l)
    BY <1>3
  <2>5. \A v \in Uses : /\ use'[v].link = use[v].link
                        /\ v # u => use'[v] = use[v]
    BY <1>3 DEF LinkTypeOK
  <2>6. \A v \in Uses, k \in Links : <<v, k>> \in changedBy' => resetLink'[k] = "used"
    BY <2>3, <2>4 DEF LinkSpentOnce
  <2>7. \A v, w \in Uses, k \in Links :
            <<v, k>> \in changedBy' /\ <<w, k>> \in changedBy' => v = w
    BY <2>2, <2>4 DEF LinkSpentOnce
  <2>8. \A v \in Uses : use'[v].told = "changed" => <<v, use'[v].link>> \in changedBy'
    <3>1. changedBy \subseteq changedBy' /\ <<u, use[u].link>> \in changedBy'
      BY <1>3
    <3>2. QED
      BY <2>5, <3>1 DEF LinkSpentOnce
  <2>9. QED
    BY <2>1, <2>6, <2>7, <2>8 DEF LinkSpentOnce
<1>4. CASE /\ use' = [use EXCEPT ![u].phase = "answer", ![u].told = "invalid"]
           /\ UNCHANGED <<resetLink, changedBy>>
  BY <1>4, UseKeepsLinks DEF LinkTypeOK
<1>5. CASE use' = [use EXCEPT ![u].phase = "answer"] /\ UNCHANGED <<resetLink, changedBy>>
  BY <1>5, UseKeepsLinks DEF LinkTypeOK
<1>6. QED
  BY <1>3, <1>4, <1>5 DEF Change

LEMMA LinkNextInv == LinkInv /\ [ForgotNext \/ UseNext]_resetVars => LinkInv'
<1> SUFFICES ASSUME LinkInv, [ForgotNext \/ UseNext]_resetVars
             PROVE  LinkInv'
  OBVIOUS
<1>1. ASSUME NEW u \in Uses, Check(u)
      PROVE  LinkInv'
  <2>1. PICK l \in Links, phase \in {"hashing", "answer"}, said \in {"nothing", "invalid"} :
           use' = [use EXCEPT ![u] = [phase |-> phase, link |-> l, told |-> said]]
    BY <1>1 DEF Check
  <2>2. UNCHANGED <<resetLink, changedBy>>
    BY <1>1 DEF Check
  <2>3. QED
    BY <2>1, <2>2, UseKeepsLinks DEF LinkInv, LinkTypeOK
<1>2. ASSUME NEW u \in Uses, AnswerUse(u)
      PROVE  LinkInv'
  BY <1>2, UseKeepsLinks DEF AnswerUse, LinkInv, LinkTypeOK
<1>3. CASE LinkExpires
  BY <1>3 DEF LinkExpires, LinkInv, LinkTypeOK, LinkSpentOnce
<1>4. CASE UNCHANGED resetVars
  BY <1>4 DEF resetVars, LinkInv, LinkTypeOK, LinkSpentOnce
<1>5. QED
  BY <1>1, <1>2, <1>3, <1>4, ForgotKeepsLinks, ChangeKeepsLinks DEF UseNext

\* Any number of links and of forms that use them: a link changes the password
\* once (reset-password/route.ts:22-83).
THEOREM LinkChangesOnce == ResetSpec => []OneChangePerLink
<1>1. LinkInv => OneChangePerLink
  <2> SUFFICES ASSUME LinkInv
               PROVE  OneChangePerLink
    OBVIOUS
  <2>1. ASSUME NEW l \in Links
        PROVE  Cardinality({u \in Uses : <<u, l>> \in changedBy}) <= 1
    <3> DEFINE U == {u \in Uses : <<u, l>> \in changedBy}
    <3>1. CASE U = {}
      <4>1. Cardinality(U) = 0
        BY <3>1, FS_EmptySet
      <4>2. QED
        BY <4>1
    <3>2. ASSUME NEW u \in U
          PROVE  Cardinality(U) <= 1
      <4>1. U = {u}
        BY DEF LinkInv, LinkSpentOnce
      <4>2. Cardinality(U) = 1
        BY <4>1, FS_Singleton
      <4>3. QED
        BY <4>2
    <3>3. QED
      BY <3>1, <3>2
  <2>2. QED
    BY <2>1 DEF OneChangePerLink, LinkInv, LinkSpentOnce
<1>2. QED
  BY LinkInitInv, LinkNextInv, <1>1, PTL DEF ResetSpec

-----------------------------------------------------------------------------
(* The captcha of the forgotten password. *)

AskRecord == [phase : {"idle", "record", "expire", "gate", "send", "passed", "challenged"},
              saw : 0 .. MaxAttempts, token : 0 .. MaxSolves]

ForgotTypeOK ==
    /\ attempts \in 0 .. MaxAttempts /\ expires \in BOOLEAN
    /\ ask \in [Askers -> AskRecord]
    /\ required \in BOOLEAN
    /\ widget \in 0 .. MaxSolves /\ solves \in 0 .. MaxSolves
    /\ spent \subseteq 1 .. MaxSolves
    /\ unchallenged \in 0 .. MaxAttempts
    /\ blind \in BOOLEAN /\ lostReply \in BOOLEAN

\* Requests that read the counter below the threshold and have yet to raise it.
Early == {a \in Askers : ask[a].phase = "record" /\ ~NeedsCaptcha(ask[a].saw)}

\* Below the threshold every attempt may have gone unchallenged; from then on
\* only those may that read the counter before.
EarlyOnesOnly ==
    /\ unchallenged <= attempts
    /\ ~blind /\ attempts >= Threshold =>
            unchallenged + Cardinality(Early) < Threshold + Cardinality(Askers)

\* Tokens are numbered as they are solved, and only the form sends one of them.
TokensInOrder ==
    /\ spent \subseteq 1 .. solves
    /\ widget <= solves
    /\ \A a \in Askers : ask[a].token <= solves /\ (a # Form => ask[a].token = 0)

\* A widget holds a token that was verified only while the request that sent
\* it is on its way back.
SpentTokenTravels ==
    ~lostReply /\ widget \in spent =>
        ask[Form].phase \in {"send", "passed", "challenged"} /\ ask[Form].token = widget

CaptchaInv ==
    /\ ForgotTypeOK /\ EarlyOnesOnly /\ CountersExpire
    /\ TokensInOrder /\ SpentTokenTravels

LEMMA AskersAreFinite ==
    /\ Cardinality(Askers) \in Nat
    /\ \A A \in SUBSET Askers : /\ IsFiniteSet(A) /\ Cardinality(A) \in Nat
                                /\ Cardinality(A) <= Cardinality(Askers)
BY ResetAssumption, FS_Subset, FS_CardinalityType

LEMMA EarlyIsFinite == IsFiniteSet(Early) /\ Cardinality(Early) \in Nat
BY AskersAreFinite DEF Early

\* A step that raises nothing, and after which no other request is early.
LEMMA NoMoreEarly ==
    ASSUME CaptchaInv, unchallenged' = unchallenged, attempts' = attempts, ~blind' => ~blind,
           ~blind' /\ attempts >= Threshold => Early' \subseteq Early
    PROVE  EarlyOnesOnly'
<1> SUFFICES ASSUME ~blind', attempts >= Threshold
             PROVE  unchallenged + Cardinality(Early') < Threshold + Cardinality(Askers)
  BY DEF EarlyOnesOnly, CaptchaInv
<1>1. Cardinality(Early') <= Cardinality(Early) /\ Cardinality(Early') \in Nat
  BY EarlyIsFinite, FS_Subset, FS_CardinalityType
<1>2. unchallenged + Cardinality(Early) < Threshold + Cardinality(Askers)
  BY DEF CaptchaInv, EarlyOnesOnly
<1>3. unchallenged \in Nat /\ Threshold \in Nat
  BY ResetAssumption DEF CaptchaInv, ForgotTypeOK
<1>4. QED
  BY <1>1, <1>2, <1>3, EarlyIsFinite, AskersAreFinite

LEMMA CaptchaInitInv == ResetInit => CaptchaInv
<1> SUFFICES ASSUME ResetInit
             PROVE  CaptchaInv
  OBVIOUS
<1> USE ResetAssumption, FormAsks
<1>1. /\ NotAsking \in AskRecord
      /\ NotAsking.phase = "idle" /\ NotAsking.token = 0
  BY DEF NotAsking, AskRecord
<1>2. ForgotTypeOK
  <2>1. ask \in [Askers -> AskRecord]
    BY <1>1 DEF ResetInit
  <2>2. required \in BOOLEAN /\ blind \in BOOLEAN /\ lostReply \in BOOLEAN /\ expires \in BOOLEAN
    BY DEF ResetInit
  <2>3. QED
    BY <2>1, <2>2 DEF ResetInit, ForgotTypeOK
<1>3. EarlyOnesOnly /\ CountersExpire
  BY DEF ResetInit, EarlyOnesOnly, CountersExpire
<1>4. TokensInOrder /\ SpentTokenTravels
  BY <1>1 DEF ResetInit, TokensInOrder, SpentTokenTravels
<1>5. QED
  BY <1>2, <1>3, <1>4 DEF CaptchaInv

LEMMA AskKeepsCaptcha ==
    ASSUME CaptchaInv, NEW a \in Askers, Ask(a)
    PROVE  CaptchaInv'
<1> USE ResetAssumption, FormAsks
<1>1. PICK saw \in Counted, phase \in {"record", "passed"} :
        /\ ask' = [ask EXCEPT ![a] = [phase |-> phase, saw |-> saw,
                                      token |-> IF a = Form THEN widget ELSE 0]]
        /\ blind' = (blind \/ saw # attempts)
  BY DEF Ask
<1>2. ask[a].phase = "idle"
  BY DEF Ask
<1>3. UNCHANGED <<attempts, expires, required, widget, solves, spent, unchallenged, lostReply>>
  BY DEF Ask
<1>4. saw \in 0 .. MaxAttempts
  BY DEF Counted, CaptchaInv, ForgotTypeOK
<1>5. \A b \in Askers : ask'[b] = IF b = a
            THEN [phase |-> phase, saw |-> saw, token |-> IF a = Form THEN widget ELSE 0]
            ELSE ask[b]
  BY <1>1 DEF CaptchaInv, ForgotTypeOK
<1>6. ForgotTypeOK'
  <2>1. ask' \in [Askers -> AskRecord]
    BY <1>1, <1>4 DEF CaptchaInv, ForgotTypeOK, AskRecord
  <2>2. blind' \in BOOLEAN
    BY <1>1
  <2>3. QED
    BY <1>3, <2>1, <2>2 DEF CaptchaInv, ForgotTypeOK
<1>7. EarlyOnesOnly'
  <2>1. ~blind' => ~blind /\ saw = attempts
    BY <1>1
  <2>2. ~blind' /\ attempts >= Threshold => Early' \subseteq Early
    BY <1>3, <1>5, <2>1 DEF Early, NeedsCaptcha
  <2>3. QED
    BY <1>3, <2>1, <2>2, NoMoreEarly
<1>8. CountersExpire'
  BY <1>1, <1>2, <1>3, <1>5 DEF CaptchaInv, CountersExpire
<1>9. TokensInOrder'
  BY <1>3, <1>5 DEF CaptchaInv, TokensInOrder, ForgotTypeOK
<1>10. SpentTokenTravels'
  BY <1>2, <1>3, <1>5 DEF CaptchaInv, SpentTokenTravels
<1>11. QED
  BY <1>6, <1>7, <1>8, <1>9, <1>10 DEF CaptchaInv

\* A request that moves on to another phase keeps what it saw and sent.
LEMMA GoesOn ==
    ASSUME CaptchaInv, NEW a \in Askers,
           NEW phase \in {"idle", "record", "expire", "gate", "send", "passed", "challenged"},
           Goes(a, phase)
    PROVE  /\ ask' \in [Askers -> AskRecord]
           /\ \A b \in Askers \ {a} : ask'[b] = ask[b]
           /\ ask'[a].phase = phase /\ ask'[a].saw = ask[a].saw /\ ask'[a].token = ask[a].token
BY DEF Goes, CaptchaInv, ForgotTypeOK, AskRecord

\* One attempt more: either an early request has become a counted one, or the
\* count has just reached the threshold and this request is behind it.
LEMMA IncrementKeepsEarly ==
    ASSUME CaptchaInv, NEW a \in Askers, ask[a].phase = "record",
           attempts' = attempts + 1, blind' = blind,
           unchallenged' = unchallenged + (IF NeedsCaptcha(ask[a].saw) THEN 0 ELSE 1),
           Early' \subseteq Early \ {a}
    PROVE  EarlyOnesOnly'
<1> USE ResetAssumption
<1>1. attempts \in Nat /\ unchallenged \in Nat /\ unchallenged <= attempts /\ Threshold \in Nat
  BY DEF CaptchaInv, ForgotTypeOK, EarlyOnesOnly
<1>2. unchallenged' <= attempts' /\ unchallenged' \in Nat /\ unchallenged' <= unchallenged + 1
  BY <1>1
<1> SUFFICES ASSUME ~blind, attempts + 1 >= Threshold
             PROVE  unchallenged' + Cardinality(Early') < Threshold + Cardinality(Askers)
  BY <1>2 DEF EarlyOnesOnly
<1>3. CASE attempts < Threshold
  <2>1. Early' \subseteq Askers \ {a}
    BY DEF Early
  <2>2. Cardinality(Askers \ {a}) = Cardinality(Askers) - 1 /\ IsFiniteSet(Askers \ {a})
    BY FS_RemoveElement
  <2>3. Cardinality(Early') <= Cardinality(Askers) - 1 /\ Cardinality(Early') \in Nat
    BY <2>1, <2>2, FS_Subset, FS_CardinalityType
  <2>4. unchallenged' <= Threshold
    BY <1>1, <1>2, <1>3
  <2>5. QED
    BY <1>1, <1>2, <2>3, <2>4, AskersAreFinite
<1>4. CASE attempts >= Threshold
  <2>1. unchallenged + Cardinality(Early) < Threshold + Cardinality(Askers)
    BY <1>4 DEF CaptchaInv, EarlyOnesOnly
  <2>2. CASE NeedsCaptcha(ask[a].saw)
    <3>1. Cardinality(Early') <= Cardinality(Early) /\ Cardinality(Early') \in Nat
      BY EarlyIsFinite, FS_Subset, FS_CardinalityType
    <3>2. unchallenged' = unchallenged
      BY <1>1, <2>2
    <3>3. QED
      BY <1>1, <2>1, <3>1, <3>2, EarlyIsFinite, AskersAreFinite
  <2>3. CASE ~NeedsCaptcha(ask[a].saw)
    <3>1. a \in Early
      BY <2>3 DEF Early
    <3>2. Cardinality(Early \ {a}) = Cardinality(Early) - 1 /\ IsFiniteSet(Early \ {a})
      BY <3>1, EarlyIsFinite, FS_RemoveElement
    <3>3. Cardinality(Early') <= Cardinality(Early) - 1 /\ Cardinality(Early') \in Nat
      BY <3>2, FS_Subset, FS_CardinalityType
    <3>4. unchallenged' = unchallenged + 1
      BY <2>3
    <3>5. QED
      BY <1>1, <2>1, <3>3, <3>4, EarlyIsFinite, AskersAreFinite
  <2>4. QED
    BY <2>2, <2>3
<1>5. QED
  BY <1>1, <1>3, <1>4

LEMMA IncrementKeepsCaptcha ==
    ASSUME CaptchaInv, NEW a \in Askers, Increment(a)
    PROVE  CaptchaInv'
<1> USE ResetAssumption, FormAsks
<1>1. /\ UNCHANGED <<expires, required, widget, solves, spent, lostReply>>
      /\ ask[a].phase = "record" /\ attempts < MaxAttempts
  BY DEF Increment
<1>2. PICK phase \in {"expire", "gate"} : Goes(a, phase)
  BY DEF Increment
<1>3. /\ ask' \in [Askers -> AskRecord]
      /\ \A b \in Askers \ {a} : ask'[b] = ask[b]
      /\ ask'[a].phase = phase /\ ask'[a].saw = ask[a].saw /\ ask'[a].token = ask[a].token
  BY <1>2, GoesOn
<1>4. Early' \subseteq Early \ {a}
  BY <1>1, <1>3 DEF Early, NeedsCaptcha
<1>5. CASE /\ attempts' = attempts + 1 /\ blind' = blind
           /\ unchallenged' = unchallenged + (IF NeedsCaptcha(ask[a].saw) THEN 0 ELSE 1)
           /\ Goes(a, IF attempts' = 1 THEN "expire" ELSE "gate")
  <2>1. EarlyOnesOnly'
    BY <1>1, <1>4, <1>5, IncrementKeepsEarly
  <2>2. unchallenged' \in 0 .. MaxAttempts /\ attempts' \in 0 .. MaxAttempts
    BY <1>1, <1>5 DEF CaptchaInv, ForgotTypeOK, EarlyOnesOnly
  <2>3. ForgotTypeOK'
    BY <1>1, <1>3, <1>5, <2>2 DEF CaptchaInv, ForgotTypeOK
  <2>4. CountersExpire'
    <3>1. CASE attempts' = 1
      <4>1. ask'[a].phase = "expire"
        BY <1>5, <3>1, GoesOn
      <4>2. QED
        BY <4>1 DEF CountersExpire
    <3>2. CASE attempts' # 1
      <4>1. attempts > 0
        BY <1>5, <3>2 DEF CaptchaInv, ForgotTypeOK
      <4>2. QED
        BY <1>1, <1>3, <1>5, <4>1 DEF CaptchaInv, CountersExpire
    <3>3. QED
      BY <3>1, <3>2
  <2>5. TokensInOrder' /\ SpentTokenTravels'
    BY <1>1, <1>3 DEF CaptchaInv, TokensInOrder, SpentTokenTravels
  <2>6. QED
    BY <2>1, <2>3, <2>4, <2>5 DEF CaptchaInv
<1>6. CASE blind' = TRUE /\ UNCHANGED <<attempts, unchallenged>>
  <2>1. ForgotTypeOK'
    <3>1. blind' \in BOOLEAN
      BY <1>6
    <3>2. QED
      BY <1>1, <1>3, <1>6, <3>1 DEF CaptchaInv, ForgotTypeOK
  <2>2. EarlyOnesOnly' /\ CountersExpire'
    BY <1>6 DEF CaptchaInv, EarlyOnesOnly, CountersExpire
  <2>3. TokensInOrder' /\ SpentTokenTravels'
    BY <1>1, <1>3 DEF CaptchaInv, TokensInOrder, SpentTokenTravels
  <2>4. QED
    BY <2>1, <2>2, <2>3 DEF CaptchaInv
<1>7. QED
  BY <1>5, <1>6 DEF Increment

\* A request beside the counter: it neither was nor becomes early, and if it
\* was to set the expiry it has, or the counter is excused.
LEMMA BesideTheCounter ==
    ASSUME CaptchaInv, NEW a \in Askers,
           UNCHANGED <<attempts, required, solves, unchallenged>>,
           \A b \in Askers \ {a} : ask'[b] = ask[b],
           ask' \in [Askers -> AskRecord],
           ask'[a].phase # "record",
           expires' \in BOOLEAN, blind' \in BOOLEAN, ~blind' => ~blind,
           ~expires' /\ ~blind' => ~expires /\ ask[a].phase # "expire"
    PROVE  EarlyOnesOnly' /\ CountersExpire'
<1>1. Early' \subseteq Early
  BY DEF Early, NeedsCaptcha
<1>2. EarlyOnesOnly'
  BY <1>1, NoMoreEarly
<1>3. CountersExpire'
  BY DEF CaptchaInv, CountersExpire
<1>4. QED
  BY <1>2, <1>3

LEMMA SetExpiryKeepsCaptcha ==
    ASSUME CaptchaInv, NEW a \in Askers, SetExpiry(a)
    PROVE  CaptchaInv'
<1> USE ResetAssumption, FormAsks
<1>1. /\ UNCHANGED <<attempts, required, widget, solves, spent, unchallenged, lostReply>>
      /\ ask[a].phase = "expire"
  BY DEF SetExpiry
<1>2. /\ ask' \in [Askers -> AskRecord]
      /\ \A b \in Askers \ {a} : ask'[b] = ask[b]
      /\ ask'[a].phase \in {"gate", "idle"} /\ ask'[a].token \in {ask[a].token, 0}
  <2>1. CASE Goes(a, "gate")
    BY <2>1, GoesOn
  <2>2. CASE ask' = [ask EXCEPT ![a] = NotAsking]
    BY <2>2 DEF CaptchaInv, ForgotTypeOK, NotAsking, AskRecord
  <2>3. QED
    BY <2>1, <2>2 DEF SetExpiry
<1>3. expires' \in BOOLEAN /\ blind' \in BOOLEAN /\ (~blind' => ~blind /\ expires')
  BY DEF SetExpiry, CaptchaInv, ForgotTypeOK
<1>4. EarlyOnesOnly' /\ CountersExpire'
  BY <1>1, <1>2, <1>3, BesideTheCounter
<1>5. ForgotTypeOK'
  BY <1>1, <1>2, <1>3 DEF CaptchaInv, ForgotTypeOK
<1>6. TokensInOrder'
  BY <1>1, <1>2 DEF CaptchaInv, TokensInOrder, ForgotTypeOK
<1>7. SpentTokenTravels'
  BY <1>1, <1>2 DEF CaptchaInv, SpentTokenTravels
<1>8. QED
  BY <1>4, <1>5, <1>6, <1>7 DEF CaptchaInv

LEMMA GateKeepsCaptcha ==
    ASSUME CaptchaInv, NEW a \in Askers, Gate(a)
    PROVE  CaptchaInv'
<1> USE ResetAssumption, FormAsks
<1> DEFINE token == ask[a].token
<1>1. /\ UNCHANGED <<attempts, expires, required, widget, solves, unchallenged, blind, lostReply>>
      /\ ask[a].phase = "gate"
  BY DEF Gate
<1>2. PICK phase \in {"send", "challenged"} : Goes(a, phase)
  BY DEF Gate
<1>3. /\ ask' \in [Askers -> AskRecord]
      /\ \A b \in Askers \ {a} : ask'[b] = ask[b]
      /\ ask'[a].phase = phase /\ ask'[a].token = token
  BY <1>2, GoesOn
<1>4. EarlyOnesOnly' /\ CountersExpire'
  BY <1>1, <1>3, BesideTheCounter DEF CaptchaInv, ForgotTypeOK
<1>5. token \in 0 .. MaxSolves /\ token <= solves /\ (a # Form => token = 0)
  BY DEF CaptchaInv, ForgotTypeOK, AskRecord, TokensInOrder
<1>6. /\ spent' \subseteq spent \cup ({token} \ {0})
      /\ spent \subseteq spent'
  BY <1>5 DEF Gate
<1>7. ForgotTypeOK'
  <2>1. spent' \subseteq 1 .. MaxSolves
    BY <1>5, <1>6 DEF CaptchaInv, ForgotTypeOK
  <2>2. QED
    BY <1>1, <1>3, <2>1 DEF CaptchaInv, ForgotTypeOK
<1>8. TokensInOrder'
  <2>1. spent' \subseteq 1 .. solves
    BY <1>5, <1>6 DEF CaptchaInv, ForgotTypeOK, TokensInOrder
  <2>2. QED
    BY <1>1, <1>3, <2>1 DEF CaptchaInv, TokensInOrder
<1>9. SpentTokenTravels'
  <2> SUFFICES ASSUME ~lostReply, widget \in spent'
               PROVE  /\ ask'[Form].phase \in {"send", "passed", "challenged"}
                      /\ ask'[Form].token = widget
    BY <1>1 DEF SpentTokenTravels
  <2>1. CASE widget \in spent
    BY <1>1, <1>3, <2>1 DEF CaptchaInv, SpentTokenTravels
  <2>2. CASE widget \notin spent
    <3>1. widget = token /\ token # 0
      BY <1>6, <2>2
    <3>2. a = Form
      BY <1>5, <3>1
    <3>3. QED
      BY <1>3, <3>1, <3>2
  <2>3. QED
    BY <2>1, <2>2
<1>10. QED
  BY <1>4, <1>7, <1>8, <1>9 DEF CaptchaInv

LEMMA ToldKeepsCaptcha ==
    ASSUME CaptchaInv, NEW a \in Askers, Told(a)
    PROVE  CaptchaInv'
<1> USE ResetAssumption, FormAsks
<1>1. /\ UNCHANGED <<attempts, expires, solves, spent, unchallenged, blind>>
      /\ ask[a].phase \in {"passed", "challenged"}
      /\ ask' = [ask EXCEPT ![a] = NotAsking]
  BY DEF Told
<1>2. /\ ask' \in [Askers -> AskRecord]
      /\ \A b \in Askers \ {a} : ask'[b] = ask[b]
      /\ ask'[a].phase = "idle" /\ ask'[a].token = 0
  BY <1>1 DEF CaptchaInv, ForgotTypeOK, NotAsking, AskRecord
<1>3. Early' \subseteq Early
  BY <1>2 DEF Early, NeedsCaptcha
<1>4. EarlyOnesOnly'
  BY <1>1, <1>3, NoMoreEarly
<1>5. CountersExpire'
  BY <1>1, <1>2 DEF CaptchaInv, CountersExpire
<1>6. /\ widget' \in {widget, 0}
      /\ required' \in BOOLEAN /\ lostReply' \in BOOLEAN
  BY DEF Told, TokenAfter, RequiredAfter, CaptchaInv, ForgotTypeOK
<1>7. ForgotTypeOK' /\ TokensInOrder'
  BY <1>1, <1>2, <1>6 DEF CaptchaInv, ForgotTypeOK, TokensInOrder
<1>8. SpentTokenTravels'
  <2>1. 0 \notin spent
    BY DEF CaptchaInv, ForgotTypeOK
  <2>2. CASE a = Form /\ widget' = TokenAfter(a)
    <3>1. CASE ask[a].token # 0
      BY <1>1, <2>1, <2>2, <3>1 DEF TokenAfter, SpentTokenTravels
    <3>2. CASE ask[a].token = 0
      <4>1. lostReply => lostReply'
        BY DEF Told
      <4>2. QED
        BY <1>1, <1>6, <2>1, <2>2, <3>2, <4>1 DEF CaptchaInv, SpentTokenTravels
    <3>3. QED
      BY <3>1, <3>2
  <2>3. CASE lostReply'
    BY <2>3 DEF SpentTokenTravels
  <2>4. CASE a # Form
    <3>1. UNCHANGED <<widget, lostReply>>
      BY <2>4 DEF Told
    <3>2. QED
      BY <1>1, <1>2, <2>4, <3>1 DEF CaptchaInv, SpentTokenTravels
  <2>5. QED
    BY <2>2, <2>3, <2>4 DEF Told
<1>9. QED
  BY <1>4, <1>5, <1>7, <1>8 DEF CaptchaInv

LEMMA CaptchaNextInv == CaptchaInv /\ [ForgotNext \/ UseNext]_resetVars => CaptchaInv'
<1> SUFFICES ASSUME CaptchaInv, [ForgotNext \/ UseNext]_resetVars
             PROVE  CaptchaInv'
  OBVIOUS
<1> USE ResetAssumption, FormAsks
<1>1. ASSUME NEW a \in Askers, SendLink(a)
      PROVE  CaptchaInv'
  <2>1. /\ UNCHANGED <<attempts, expires, required, widget, solves, spent, unchallenged, blind,
                       lostReply>>
        /\ ask[a].phase = "send" /\ Goes(a, "passed")
    BY <1>1 DEF SendLink
  <2>2. /\ ask' \in [Askers -> AskRecord]
        /\ \A b \in Askers \ {a} : ask'[b] = ask[b]
        /\ ask'[a].phase = "passed" /\ ask'[a].token = ask[a].token
    BY <2>1, GoesOn
  <2>3. EarlyOnesOnly' /\ CountersExpire'
    BY <2>1, <2>2, BesideTheCounter DEF CaptchaInv, ForgotTypeOK
  <2>4. ForgotTypeOK'
    BY <2>1, <2>2 DEF CaptchaInv, ForgotTypeOK
  <2>5. TokensInOrder' /\ SpentTokenTravels'
    BY <2>1, <2>2 DEF CaptchaInv, TokensInOrder, SpentTokenTravels
  <2>6. QED
    BY <2>3, <2>4, <2>5 DEF CaptchaInv
<1>2. CASE ExpireAttempts
  <2>1. ForgotTypeOK'
    <3>1. expires' \in BOOLEAN
      BY <1>2 DEF ExpireAttempts
    <3>2. QED
      BY <1>2, <3>1 DEF ExpireAttempts, CaptchaInv, ForgotTypeOK
  <2>2. EarlyOnesOnly' /\ CountersExpire'
    BY <1>2 DEF ExpireAttempts, EarlyOnesOnly, CountersExpire
  <2>3. TokensInOrder' /\ SpentTokenTravels'
    BY <1>2 DEF ExpireAttempts, CaptchaInv, TokensInOrder, SpentTokenTravels
  <2>4. QED
    BY <2>1, <2>2, <2>3 DEF CaptchaInv
<1>3. CASE Solve
  <2>1. UNCHANGED <<attempts, expires, ask, required, spent, unchallenged, blind, lostReply>>
    BY <1>3 DEF Solve
  <2>2. /\ solves' \in 0 .. MaxSolves /\ solves <= solves'
        /\ widget' = 0 \/ widget' = solves + 1
        /\ widget' <= solves'
    BY <1>3 DEF Solve, CaptchaInv, ForgotTypeOK
  <2>3. ForgotTypeOK'
    BY <2>1, <2>2 DEF CaptchaInv, ForgotTypeOK
  <2>4. EarlyOnesOnly' /\ CountersExpire'
    BY <2>1 DEF CaptchaInv, EarlyOnesOnly, CountersExpire, Early
  <2>5. TokensInOrder'
    BY <2>1, <2>2 DEF CaptchaInv, ForgotTypeOK, TokensInOrder, AskRecord
  <2>6. widget' \notin spent'
    BY <2>1, <2>2 DEF CaptchaInv, ForgotTypeOK, TokensInOrder
  <2>7. QED
    BY <2>3, <2>4, <2>5, <2>6 DEF CaptchaInv, SpentTokenTravels
<1>4. CASE UseNext \/ UNCHANGED resetVars
  <2>1. UNCHANGED askVars
    BY <1>4 DEF UseNext, Check, Change, AnswerUse, LinkExpires, resetVars, askVars
  <2>2. QED
    BY <2>1 DEF askVars, CaptchaInv, ForgotTypeOK, EarlyOnesOnly, Early, CountersExpire,
                TokensInOrder, SpentTokenTravels
<1>5. QED
  BY <1>1, <1>2, <1>3, <1>4, AskKeepsCaptcha, IncrementKeepsCaptcha, SetExpiryKeepsCaptcha,
     GateKeepsCaptcha, ToldKeepsCaptcha DEF ForgotNext

\* For any threshold and any number of clients: the captcha comes due in time,
\* the count ends, and no form is left with a token that was used up
\* (forgot-password/route.ts, attemptTracker.ts, ForgotPasswordForm.tsx).
THEOREM CaptchaAlwaysHolds == ResetSpec => []CaptchaHolds
<1>1. CaptchaInv => CaptchaHolds
  <2> SUFFICES ASSUME CaptchaInv
               PROVE  CaptchaHolds
    OBVIOUS
  <2>1. CaptchaComesDue
    <3> SUFFICES ASSUME ~blind
                 PROVE  unchallenged < Threshold + Cardinality(Askers)
      BY DEF CaptchaComesDue
    <3>1. attempts \in Nat /\ unchallenged \in Nat /\ Threshold \in Nat /\ unchallenged <= attempts
      BY ResetAssumption DEF CaptchaInv, ForgotTypeOK, EarlyOnesOnly
    <3>2. CASE attempts < Threshold
      BY <3>1, <3>2, AskersAreFinite
    <3>3. CASE attempts >= Threshold
      <4>1. unchallenged + Cardinality(Early) < Threshold + Cardinality(Askers)
        BY <3>3 DEF CaptchaInv, EarlyOnesOnly
      <4>2. QED
        BY <3>1, <4>1, EarlyIsFinite, AskersAreFinite
    <3>4. QED
      BY <3>1, <3>2, <3>3
  <2>2. SpentTokenNotSent
    BY DEF CaptchaInv, SpentTokenTravels, SpentTokenNotSent
  <2>3. QED
    BY <2>1, <2>2 DEF CaptchaHolds, CaptchaInv
<1>2. QED
  BY CaptchaInitInv, CaptchaNextInv, <1>1, PTL DEF ResetSpec

-----------------------------------------------------------------------------
(* The captcha of the profile. *)

\* Requests that were not challenged and have yet to be counted, and requests
\* that are to turn the requirement on.
Unchallenged == {e \in Editors : editor[e].phase = "record" /\ ~editor[e].challenged}
Marking == {e \in Editors : editor[e].phase = "mark" \/ (editor[e].phase = "expire" /\ TurnsOn(1))}
LimitComes == \E e \in Editors : editor[e].phase = "expire"

\* From the threshold on: each attempt more is of a request that is about to
\* turn the requirement on, or was under way before that.
FewUnchallenged ==
    tries >= ProfileThreshold =>
        IF latch = 0 THEN unasked < ProfileThreshold + Cardinality(Marking)
        ELSE unasked + Cardinality(Unchallenged) < ProfileThreshold + Cardinality(Editors)

\* A requirement some ticks old met every attempt of a counter that started
\* after it, so that the counter may outlive it.
OldLatchMetAll ==
    0 < latch /\ latch < Sticky =>
        /\ Unchallenged = {}
        /\ LimitComes \/ triesLeft > latch => unasked = 0

ProfileInv ==
    /\ ProfileTypeOK
    /\ unasked <= tries
    /\ RequirementLastsAnHour
    /\ ~faulty => /\ FewUnchallenged /\ OldLatchMetAll
                  /\ tries > 0 /\ triesLeft = 0 => LimitComes

EditorRecord == [phase : {"idle", "record", "expire", "mark", "decide"}, challenged : BOOLEAN]

LEMMA EditorsAreFinite ==
    /\ Cardinality(Editors) \in Nat
    /\ \A E \in SUBSET Editors : /\ IsFiniteSet(E) /\ Cardinality(E) \in Nat
                                 /\ Cardinality(E) <= Cardinality(Editors)
BY ProfileAssumption, FS_Subset, FS_CardinalityType

\* Cardinalities are monotonic on sets of requests.
LEMMA FewerEditors ==
    ASSUME NEW E \in SUBSET Editors, NEW F \in SUBSET E
    PROVE  Cardinality(F) <= Cardinality(E)
BY EditorsAreFinite, FS_Subset

LEMMA ProfileInitInv == ProfileInit => ProfileInv
<1> SUFFICES ASSUME ProfileInit
             PROVE  ProfileInv
  OBVIOUS
<1> USE ProfileAssumption
<1>1. AtEase \in EditorRecord /\ AtEase.phase = "idle"
  BY DEF AtEase, EditorRecord
<1>2. editor \in [Editors -> EditorRecord]
  BY <1>1 DEF ProfileInit
<1>3. faulty \in BOOLEAN
  BY DEF ProfileInit
<1>4. ProfileTypeOK
  BY <1>2, <1>3 DEF ProfileInit, ProfileTypeOK, EditorRecord
<1>5. QED
  BY <1>4 DEF ProfileInit, ProfileInv, RequirementLastsAnHour, FewUnchallenged, OldLatchMetAll

LEMMA AskWhetherKeeps ==
    ASSUME ProfileInv, NEW e \in Editors, AskWhetherRequired(e)
    PROVE  ProfileInv'
<1> USE ProfileAssumption
<1>1. PICK challenged \in {latch > 0, FALSE} :
        /\ editor' = [editor EXCEPT ![e] = [phase |-> "record", challenged |-> challenged]]
        /\ faulty' = (faulty \/ challenged # (latch > 0))
  BY DEF AskWhetherRequired
<1>2. UNCHANGED <<tries, triesLeft, latch, latchAge, unasked>> /\ editor[e].phase = "idle"
  BY DEF AskWhetherRequired
<1>3. challenged \in BOOLEAN /\ faulty' \in BOOLEAN
  <2>1. faulty' \in BOOLEAN
    BY <1>1
  <2>2. (latch > 0) \in BOOLEAN
    OBVIOUS
  <2>3. challenged \in BOOLEAN
    BY <2>2
  <2>4. QED
    BY <2>1, <2>3
<1>4. /\ editor' \in [Editors -> EditorRecord]
      /\ \A f \in Editors \ {e} : editor'[f] = editor[f]
      /\ editor'[e].phase = "record" /\ editor'[e].challenged = challenged
  BY <1>1, <1>3 DEF ProfileInv, ProfileTypeOK, EditorRecord
<1>5. ProfileTypeOK'
  BY <1>2, <1>3, <1>4 DEF ProfileInv, ProfileTypeOK, EditorRecord
<1> SUFFICES ASSUME ~faulty'
             PROVE  /\ FewUnchallenged' /\ OldLatchMetAll'
                    /\ (tries > 0 /\ triesLeft = 0 => LimitComes)'
  BY <1>2, <1>5 DEF ProfileInv, RequirementLastsAnHour
<1>6. ~faulty /\ challenged = (latch > 0)
  BY <1>1
<1>7. Marking' = Marking /\ LimitComes' = LimitComes
  BY <1>2, <1>4 DEF Marking, LimitComes, TurnsOn
<1>8. latch > 0 => Unchallenged' \subseteq Unchallenged
  BY <1>4, <1>6 DEF Unchallenged
<1>9. FewUnchallenged'
  <2>1. CASE latch = 0
    BY <1>2, <1>6, <1>7, <2>1 DEF ProfileInv, FewUnchallenged
  <2>2. CASE latch # 0
    <3>1. latch > 0
      BY <2>2 DEF ProfileInv, ProfileTypeOK
    <3>2. /\ Cardinality(Unchallenged') <= Cardinality(Unchallenged)
          /\ Cardinality(Unchallenged') \in Nat /\ Cardinality(Unchallenged) \in Nat
      BY <1>8, <3>1, FewerEditors, EditorsAreFinite DEF Unchallenged
    <3>3. QED
      BY <1>2, <1>6, <2>2, <3>2, EditorsAreFinite DEF ProfileInv, FewUnchallenged, ProfileTypeOK
  <2>3. QED
    BY <2>1, <2>2
<1>10. OldLatchMetAll'
  BY <1>2, <1>6, <1>7, <1>8 DEF ProfileInv, OldLatchMetAll
<1>11. QED
  BY <1>2, <1>6, <1>7, <1>9, <1>10 DEF ProfileInv

LEMMA CountTryKeeps ==
    ASSUME ProfileInv, NEW e \in Editors, CountTry(e)
    PROVE  ProfileInv'
<1> USE ProfileAssumption
<1>1. /\ UNCHANGED <<triesLeft, latch, latchAge>>
      /\ editor[e].phase = "record" /\ tries < MaxTries
  BY DEF CountTry
<1>2. PICK phase \in {"expire", "mark", "decide"} : editor' = [editor EXCEPT ![e].phase = phase]
  BY DEF CountTry, Proceeds
<1>3. /\ editor' \in [Editors -> EditorRecord]
      /\ \A f \in Editors \ {e} : editor'[f] = editor[f]
      /\ editor'[e].phase = phase /\ editor'[e].challenged = editor[e].challenged
  BY <1>2 DEF ProfileInv, ProfileTypeOK, EditorRecord
<1>4. Unchallenged' \subseteq Unchallenged \ {e}
  BY <1>1, <1>3 DEF Unchallenged
<1>5. CASE faulty' = TRUE /\ UNCHANGED <<tries, unasked>>
  <2>1. faulty' \in BOOLEAN
    BY <1>5
  <2>2. ProfileTypeOK'
    BY <1>1, <1>3, <1>5, <2>1 DEF ProfileInv, ProfileTypeOK, EditorRecord
  <2>3. QED
    BY <1>1, <1>5, <2>2 DEF ProfileInv, RequirementLastsAnHour
<1>6. CASE /\ tries' = tries + 1 /\ faulty' = faulty
           /\ unasked' = unasked + (IF editor[e].challenged THEN 0 ELSE 1)
           /\ Proceeds(e, IF tries' = 1 THEN "expire"
                          ELSE IF TurnsOn(tries') THEN "mark" ELSE "decide")
  <2>1. /\ tries \in Nat /\ unasked \in Nat /\ unasked <= tries
        /\ latch \in Nat /\ triesLeft \in Nat /\ Sticky \in Nat /\ triesLeft <= Sticky
        /\ ProfileThreshold \in Nat /\ ProfileThreshold > 0
    BY DEF ProfileInv, ProfileTypeOK
  <2>2. unasked' \in Nat /\ unasked' <= unasked + 1 /\ unasked' <= tries'
    BY <1>6, <2>1
  <2>3. editor'[e].phase = IF tries' = 1 THEN "expire"
                           ELSE IF TurnsOn(tries') THEN "mark" ELSE "decide"
    BY <1>6 DEF Proceeds, ProfileInv, ProfileTypeOK
  <2>4. ProfileTypeOK'
    BY <1>1, <1>3, <1>6, <2>1, <2>2 DEF ProfileInv, ProfileTypeOK, EditorRecord
  <2> SUFFICES ASSUME ~faulty
               PROVE  /\ FewUnchallenged' /\ OldLatchMetAll'
                      /\ (tries > 0 /\ triesLeft = 0 => LimitComes)'
    BY <1>1, <1>6, <2>2, <2>4 DEF ProfileInv, RequirementLastsAnHour
  <2>5. Unchallenged = {} => unasked' = unasked
    BY <1>1, <1>6, <2>1 DEF Unchallenged
  <2>6. FewUnchallenged'
    <3> SUFFICES ASSUME tries' >= ProfileThreshold
                 PROVE  IF latch = 0 THEN unasked' < ProfileThreshold + Cardinality(Marking')
                        ELSE unasked' + Cardinality(Unchallenged')
                                < ProfileThreshold + Cardinality(Editors)
      BY <1>1 DEF FewUnchallenged
    <3>1. e \in Marking' /\ Marking' = Marking \cup {e} /\ e \notin Marking
      BY <1>1, <1>3, <2>1, <2>3 DEF Marking, TurnsOn
    <3>2. /\ IsFiniteSet(Marking) /\ Cardinality(Marking) \in Nat
          /\ Cardinality(Marking') = Cardinality(Marking) + 1
      BY <3>1, EditorsAreFinite, FS_AddElement DEF Marking
    <3>3. CASE tries < ProfileThreshold
      <4>1. unasked' <= ProfileThreshold
        BY <1>6, <2>1, <2>2, <3>3
      <4>2. Unchallenged' \subseteq Editors \ {e}
        BY <1>4 DEF Unchallenged
      <4>3. Cardinality(Editors \ {e}) = Cardinality(Editors) - 1 /\ IsFiniteSet(Editors \ {e})
        BY FS_RemoveElement
      <4>4. Cardinality(Unchallenged') <= Cardinality(Editors) - 1
            /\ Cardinality(Unchallenged') \in Nat
        BY <4>2, <4>3, FS_Subset, FS_CardinalityType
      <4>5. QED
        BY <2>1, <2>2, <3>2, <4>1, <4>4, EditorsAreFinite
    <3>4. CASE tries >= ProfileThreshold /\ latch = 0
      BY <2>1, <2>2, <3>2, <3>4 DEF ProfileInv, FewUnchallenged
    <3>5. CASE tries >= ProfileThreshold /\ latch # 0
      <4>1. unasked + Cardinality(Unchallenged) < ProfileThreshold + Cardinality(Editors)
        BY <3>5 DEF ProfileInv, FewUnchallenged
      <4>2. IsFiniteSet(Unchallenged) /\ Cardinality(Unchallenged) \in Nat
        BY EditorsAreFinite DEF Unchallenged
      <4>3. CASE e \in Unchallenged
        <5>1. /\ Cardinality(Unchallenged \ {e}) = Cardinality(Unchallenged) - 1
              /\ IsFiniteSet(Unchallenged \ {e})
          BY <4>2, <4>3, FS_RemoveElement
        <5>2. Cardinality(Unchallenged') <= Cardinality(Unchallenged) - 1
              /\ Cardinality(Unchallenged') \in Nat
          BY <1>4, <5>1, FS_Subset, FS_CardinalityType
        <5>3. QED
          BY <2>1, <2>2, <3>5, <4>1, <4>2, <5>2, EditorsAreFinite
      <4>4. CASE e \notin Unchallenged
        <5>1. unasked' = unasked
          BY <1>1, <1>6, <2>1, <4>4 DEF Unchallenged
        <5>2. Cardinality(Unchallenged') <= Cardinality(Unchallenged)
              /\ Cardinality(Unchallenged') \in Nat
          BY <1>4, <4>2, FS_Subset, FS_CardinalityType
        <5>3. QED
          BY <2>1, <3>5, <4>1, <4>2, <5>1, <5>2, EditorsAreFinite
      <4>5. QED
        BY <4>3, <4>4
    <3>6. QED
      BY <2>1, <3>3, <3>4, <3>5
  <2>7. OldLatchMetAll'
    <3> SUFFICES ASSUME 0 < latch, latch < Sticky
                 PROVE  /\ Unchallenged' = {}
                        /\ LimitComes' \/ triesLeft > latch => unasked' = 0
      BY <1>1 DEF OldLatchMetAll
    <3>1. Unchallenged = {} /\ (LimitComes \/ triesLeft > latch => unasked = 0)
      BY DEF ProfileInv, OldLatchMetAll
    <3>2. tries' = 1 => unasked = 0
      BY <1>6, <2>1
    <3>3. tries' # 1 /\ LimitComes' => LimitComes
      BY <1>3, <2>3 DEF LimitComes
    <3>4. QED
      BY <1>4, <2>5, <3>1, <3>2, <3>3
  <2>8. tries' > 0 /\ triesLeft' = 0 => LimitComes'
    <3>1. tries' = 1 => LimitComes'
      BY <2>3 DEF LimitComes
    <3>2. LimitComes => LimitComes'
      BY <1>1, <1>3 DEF LimitComes
    <3>3. tries' # 1 => tries > 0
      BY <1>6, <2>1
    <3>4. QED
      BY <1>1, <3>1, <3>2, <3>3 DEF ProfileInv
  <2>9. QED
    BY <2>6, <2>7, <2>8
<1>7. QED
  BY <1>5, <1>6 DEF CountTry

\* A step that neither counts nor asks, and that moves one request.
LEMMA MovesOn ==
    ASSUME ProfileInv, NEW e \in Editors, NEW phase \in {"idle", "mark", "decide"},
           Proceeds(e, phase), editor[e].phase # "record"
    PROVE  /\ editor' \in [Editors -> EditorRecord]
           /\ \A f \in Editors \ {e} : editor'[f] = editor[f]
           /\ editor'[e].phase = phase
           /\ Unchallenged' = Unchallenged
<1>1. /\ editor' \in [Editors -> EditorRecord]
      /\ \A f \in Editors \ {e} : editor'[f] = editor[f]
      /\ editor'[e].phase = phase
  BY DEF Proceeds, ProfileInv, ProfileTypeOK, EditorRecord
<1>2. QED
  BY <1>1 DEF Unchallenged

LEMMA LimitLifeKeeps ==
    ASSUME ProfileInv, NEW e \in Editors, LimitLife(e)
    PROVE  ProfileInv'
<1> USE ProfileAssumption
<1>1. UNCHANGED <<tries, latch, latchAge, unasked>> /\ editor[e].phase = "expire"
  BY DEF LimitLife
<1>2. CASE /\ triesLeft' = Sticky /\ faulty' = faulty
           /\ Proceeds(e, IF TurnsOn(1) THEN "mark" ELSE "decide")
  <2> DEFINE phase == IF TurnsOn(1) THEN "mark" ELSE "decide"
  <2>1. /\ editor' \in [Editors -> EditorRecord]
        /\ \A f \in Editors \ {e} : editor'[f] = editor[f]
        /\ editor'[e].phase = phase
        /\ Unchallenged' = Unchallenged
    BY <1>1, <1>2, MovesOn
  <2>2. Marking' = Marking
    BY <1>1, <2>1 DEF Marking, TurnsOn
  <2>3. LimitComes /\ (LimitComes' => LimitComes)
    BY <1>1 DEF LimitComes
  <2>4. ProfileTypeOK'
    BY <1>1, <1>2, <2>1 DEF ProfileInv, ProfileTypeOK, EditorRecord
  <2>5. RequirementLastsAnHour'
    BY <1>1 DEF ProfileInv, RequirementLastsAnHour
  <2>6. ~faulty => FewUnchallenged'
    BY <1>1, <2>1, <2>2 DEF ProfileInv, FewUnchallenged
  <2>7. ~faulty => OldLatchMetAll'
    BY <1>1, <2>1, <2>3 DEF ProfileInv, OldLatchMetAll
  <2>8. QED
    BY <1>1, <1>2, <2>4, <2>5, <2>6, <2>7 DEF ProfileInv
<1>3. CASE /\ Proceeds(e, "decide") \/ editor' = [editor EXCEPT ![e] = AtEase]
           /\ faulty' = TRUE /\ UNCHANGED triesLeft
  <2>1. editor' \in [Editors -> EditorRecord]
    <3>1. CASE Proceeds(e, "decide")
      BY <1>1, <3>1, MovesOn
    <3>2. CASE editor' = [editor EXCEPT ![e] = AtEase]
      BY <3>2 DEF AtEase, ProfileInv, ProfileTypeOK, EditorRecord
    <3>3. QED
      BY <1>3, <3>1, <3>2
  <2>2. faulty' \in BOOLEAN
    BY <1>3
  <2>3. ProfileTypeOK'
    BY <1>1, <1>3, <2>1, <2>2 DEF ProfileInv, ProfileTypeOK, EditorRecord
  <2>4. QED
    BY <1>1, <1>3, <2>3 DEF ProfileInv, RequirementLastsAnHour
<1>4. QED
  BY <1>2, <1>3 DEF LimitLife

LEMMA MarkKeeps ==
    ASSUME ProfileInv, NEW e \in Editors, Mark(e)
    PROVE  ProfileInv'
<1> USE ProfileAssumption
<1>1. UNCHANGED <<tries, triesLeft, unasked>> /\ editor[e].phase = "mark" /\ Proceeds(e, "decide")
  BY DEF Mark
<1>2. /\ editor' \in [Editors -> EditorRecord]
      /\ \A f \in Editors \ {e} : editor'[f] = editor[f]
      /\ editor'[e].phase = "decide"
      /\ Unchallenged' = Unchallenged
  BY <1>1, MovesOn
<1>3. LimitComes' = LimitComes
  BY <1>1, <1>2 DEF LimitComes
<1>4. CASE faulty' = TRUE /\ UNCHANGED <<latch, latchAge>>
  <2>1. faulty' \in BOOLEAN
    BY <1>4
  <2>2. ProfileTypeOK'
    BY <1>1, <1>2, <1>4, <2>1 DEF ProfileInv, ProfileTypeOK, EditorRecord
  <2>3. QED
    BY <1>1, <1>4, <2>2 DEF ProfileInv, RequirementLastsAnHour
<1>5. CASE /\ latch' = IF latch = 0 THEN Sticky ELSE latch
           /\ latchAge' = IF latch = 0 THEN 0 ELSE latchAge
           /\ faulty' = faulty
  <2>1. ProfileTypeOK'
    BY <1>1, <1>2, <1>5 DEF ProfileInv, ProfileTypeOK, EditorRecord
  <2>2. RequirementLastsAnHour'
    BY <1>5 DEF ProfileInv, RequirementLastsAnHour, ProfileTypeOK
  <2>3. ~faulty => FewUnchallenged'
    <3> SUFFICES ASSUME ~faulty, tries >= ProfileThreshold
                 PROVE  unasked + Cardinality(Unchallenged)
                            < ProfileThreshold + Cardinality(Editors)
      BY <1>1, <1>2, <1>5 DEF FewUnchallenged
    <3>1. CASE latch = 0
      <4>1. unasked < ProfileThreshold + Cardinality(Marking)
        BY <3>1 DEF ProfileInv, FewUnchallenged
      <4>2. Marking \cap Unchallenged = {} /\ Marking \cup Unchallenged \subseteq Editors
        BY DEF Marking, Unchallenged
      <4>3. /\ IsFiniteSet(Marking) /\ IsFiniteSet(Unchallenged)
            /\ Cardinality(Marking) \in Nat /\ Cardinality(Unchallenged) \in Nat
            /\ Cardinality(Marking \cup Unchallenged) <= Cardinality(Editors)
        BY <4>2, EditorsAreFinite DEF Marking, Unchallenged
      <4>4. Cardinality(Marking \cup Unchallenged)
              = Cardinality(Marking) + Cardinality(Unchallenged) - Cardinality(Marking \cap Unchallenged)
        BY <4>3, FS_Union
      <4>5. Cardinality(Marking \cap Unchallenged) = 0
        BY <4>2, FS_EmptySet
      <4>6. unasked \in Nat /\ ProfileThreshold \in Nat
        BY DEF ProfileInv, ProfileTypeOK
      <4>7. Cardinality(Marking) + Cardinality(Unchallenged) <= Cardinality(Editors)
        BY <4>3, <4>4, <4>5
      <4>8. QED
        BY <4>1, <4>3, <4>6, <4>7, EditorsAreFinite
    <3>2. CASE latch # 0
      BY <3>2 DEF ProfileInv, FewUnchallenged
    <3>3. QED
      BY <3>1, <3>2
  <2>4. ~faulty => OldLatchMetAll'
    <3>1. 0 < latch' /\ latch' < Sticky => latch' = latch
      BY <1>5
    <3>2. QED
      BY <1>1, <1>2, <1>3, <3>1 DEF ProfileInv, OldLatchMetAll
  <2>5. QED
    BY <1>1, <1>3, <1>5, <2>1, <2>2, <2>3, <2>4 DEF ProfileInv
<1>6. QED
  BY <1>4, <1>5 DEF Mark

LEMMA DecideKeeps ==
    ASSUME ProfileInv, NEW e \in Editors, Decide(e)
    PROVE  ProfileInv'
<1> USE ProfileAssumption
<1>1. /\ UNCHANGED <<tries, triesLeft, latch, latchAge, unasked, faulty>>
      /\ editor[e].phase = "decide" /\ editor' = [editor EXCEPT ![e] = AtEase]
  BY DEF Decide
<1>2. /\ editor' \in [Editors -> EditorRecord]
      /\ \A f \in Editors \ {e} : editor'[f] = editor[f]
      /\ editor'[e].phase = "idle"
  BY <1>1 DEF AtEase, ProfileInv, ProfileTypeOK, EditorRecord
<1>3. Marking' = Marking /\ Unchallenged' = Unchallenged /\ LimitComes' = LimitComes
  BY <1>1, <1>2 DEF Marking, Unchallenged, LimitComes, TurnsOn
<1>4. ProfileTypeOK'
  BY <1>1, <1>2 DEF ProfileInv, ProfileTypeOK, EditorRecord
<1>5. FewUnchallenged' = FewUnchallenged /\ OldLatchMetAll' = OldLatchMetAll
  BY <1>1, <1>3 DEF FewUnchallenged, OldLatchMetAll
<1>6. QED
  BY <1>1, <1>3, <1>4, <1>5 DEF ProfileInv, RequirementLastsAnHour

LEMMA PassTimeKeeps ==
    ASSUME ProfileInv, PassTime
    PROVE  ProfileInv'
<1> USE ProfileAssumption
<1>1. /\ UNCHANGED <<editor, faulty>>
      /\ \A e \in Editors : editor[e].phase \in {"idle", "decide"}
      /\ triesLeft' = IF triesLeft = 0 THEN 0 ELSE triesLeft - 1
      /\ tries' = IF triesLeft = 1 THEN 0 ELSE tries
      /\ unasked' = IF triesLeft = 1 THEN 0 ELSE unasked
      /\ latch' = IF latch = 0 THEN 0 ELSE latch - 1
      /\ latchAge' = IF latch <= 1 THEN 0 ELSE latchAge + 1
  BY DEF PassTime
<1>2. /\ tries \in 0 .. MaxTries /\ unasked \in 0 .. MaxTries /\ unasked <= tries
      /\ triesLeft \in 0 .. Sticky /\ latch \in 0 .. Sticky /\ latchAge \in 0 .. Sticky
      /\ latch > 0 => latch + latchAge = Sticky
  BY DEF ProfileInv, ProfileTypeOK, RequirementLastsAnHour
<1>3. Unchallenged = {} /\ ~LimitComes
  BY <1>1 DEF Unchallenged, LimitComes
<1>4. Unchallenged' = {} /\ ~LimitComes' /\ Marking' = Marking
  BY <1>1 DEF Unchallenged, LimitComes, Marking, TurnsOn
<1>5. Cardinality(Marking) \in Nat /\ Cardinality(Editors) \in Nat /\ Cardinality({}) = 0
  BY EditorsAreFinite, FS_EmptySet DEF Marking
<1>6. ProfileTypeOK'
  <2>1. /\ tries' \in 0 .. MaxTries /\ unasked' \in 0 .. MaxTries
        /\ triesLeft' \in 0 .. Sticky /\ latch' \in 0 .. Sticky /\ latchAge' \in 0 .. Sticky
    BY <1>1, <1>2
  <2>2. QED
    BY <1>1, <2>1 DEF ProfileInv, ProfileTypeOK
<1>7. unasked' <= tries' /\ RequirementLastsAnHour'
  BY <1>1, <1>2 DEF RequirementLastsAnHour
<1> SUFFICES ASSUME ~faulty
             PROVE  /\ FewUnchallenged' /\ OldLatchMetAll'
                    /\ (tries > 0 /\ triesLeft = 0 => LimitComes)'
  BY <1>1, <1>6, <1>7 DEF ProfileInv
<1>8. tries > 0 => triesLeft > 0
  BY <1>2, <1>3 DEF ProfileInv
<1>9. 0 < latch /\ triesLeft > latch => unasked = 0
  BY <1>2 DEF ProfileInv, OldLatchMetAll
<1>10. FewUnchallenged'
  <2> SUFFICES ASSUME tries' >= ProfileThreshold
               PROVE  IF latch' = 0 THEN unasked' < ProfileThreshold + Cardinality(Marking)
                      ELSE unasked' + 0 < ProfileThreshold + Cardinality(Editors)
    BY <1>4, <1>5 DEF FewUnchallenged
  <2>1. /\ tries' = tries /\ unasked' = unasked /\ tries >= ProfileThreshold
        /\ triesLeft > 1
    BY <1>1, <1>2, <1>8
  <2>2. CASE latch = 0
    BY <1>1, <2>1, <2>2 DEF ProfileInv, FewUnchallenged
  <2>3. CASE latch = 1
    BY <1>1, <1>5, <1>9, <2>1, <2>3
  <2>4. CASE latch > 1
    <3>1. unasked + Cardinality(Unchallenged) < ProfileThreshold + Cardinality(Editors)
      BY <1>2, <2>1, <2>4 DEF ProfileInv, FewUnchallenged
    <3>2. QED
      BY <1>1, <1>2, <1>3, <1>5, <2>1, <2>4, <3>1
  <2>5. QED
    BY <1>2, <2>2, <2>3, <2>4
<1>11. OldLatchMetAll'
  <2>1. triesLeft' > latch' /\ 0 < latch' => triesLeft > latch /\ latch > 0
    BY <1>1, <1>2
  <2>2. unasked' \in {unasked, 0}
    BY <1>1
  <2>3. QED
    BY <1>4, <1>9, <2>1, <2>2 DEF OldLatchMetAll
<1>12. ~(tries' > 0 /\ triesLeft' = 0)
  BY <1>1, <1>2, <1>8
<1>13. QED
  BY <1>10, <1>11, <1>12

\* For any threshold, duration and number of requests of an account at once:
\* the captcha of the profile bites in time and is never pushed further out
\* (user/me/route.ts:57-116, attemptTracker.ts).
THEOREM ChallengeAlwaysHolds == ProfileSpec => []ChallengeHolds
<1>1. ProfileInv /\ [ProfileNext]_profileVars => ProfileInv'
  <2>1. ProfileInv /\ UNCHANGED profileVars => ProfileInv'
    BY DEF profileVars, ProfileInv, ProfileTypeOK, RequirementLastsAnHour, FewUnchallenged,
           OldLatchMetAll, Unchallenged, Marking, LimitComes
  <2>2. QED
    BY <2>1, AskWhetherKeeps, CountTryKeeps, LimitLifeKeeps, MarkKeeps, DecideKeeps,
       PassTimeKeeps DEF ProfileNext
<1>2. ProfileInv => ChallengeHolds
  <2> SUFFICES ASSUME ProfileInv
               PROVE  ChallengeHolds
    OBVIOUS
  <2>1. /\ Cardinality(Marking) \in Nat /\ Cardinality(Marking) <= Cardinality(Editors)
        /\ Cardinality(Unchallenged) \in Nat /\ Cardinality(Editors) \in Nat
    BY EditorsAreFinite DEF Marking, Unchallenged
  <2>2. tries \in Nat /\ unasked \in Nat /\ unasked <= tries /\ ProfileThreshold \in Nat
    BY ProfileAssumption DEF ProfileInv, ProfileTypeOK
  <2>3. ChallengeLatches
    <3> SUFFICES ASSUME ~faulty
                 PROVE  unasked < ProfileThreshold + Cardinality(Editors)
      BY DEF ChallengeLatches
    <3>1. CASE tries < ProfileThreshold
      BY <2>1, <2>2, <3>1
    <3>2. CASE tries >= ProfileThreshold
      <4>1. IF latch = 0 THEN unasked < ProfileThreshold + Cardinality(Marking)
            ELSE unasked + Cardinality(Unchallenged) < ProfileThreshold + Cardinality(Editors)
        BY <3>2 DEF ProfileInv, FewUnchallenged
      <4>2. QED
        BY <2>1, <2>2, <4>1
    <3>3. QED
      BY <2>2, <3>1, <3>2
  <2>4. QED
    BY <2>3 DEF ChallengeHolds, ProfileInv
<1>3. QED
  BY ProfileInitInv, <1>1, <1>2, PTL DEF ProfileSpec

-----------------------------------------------------------------------------
(* The nightly cleanup. *)

\* One connection of one process holds the lock, however often.
LockIsExclusive ==
    \A p, q \in Processes, c, d \in PoolConnections :
        advisory[p][c] > 0 /\ advisory[q][d] > 0 => p = q /\ c = d

\* A run that was not cut short deletes under the lock, and has nothing left
\* to delete when it unlocks.
WorkIsLocked ==
    ~cutShort => \A p \in Processes :
        /\ cleanup[p] # "idle" => advisory[p] # NoLocks
        /\ deleting[p] # {} => cleanup[p] = "working"

\* A process that unlocks where it locked holds the lock once, and only at work.
HeldOnce ==
    \A p \in Processes \ astrayUnlock :
        /\ \A c \in PoolConnections : advisory[p][c] <= 1
        /\ cleanup[p] = "idle" => advisory[p] = NoLocks

HoldsAreCounted == \A p \in Processes, c \in PoolConnections : advisory[p][c] <= nights[p]

CleanupInv ==
    /\ CleanupTypeOK
    /\ LockIsExclusive /\ WorkIsLocked /\ HeldOnce /\ HoldsAreCounted

LEMMA CleanupInitInv == CleanupInit => CleanupInv
<1> SUFFICES ASSUME CleanupInit
             PROVE  CleanupInv
  OBVIOUS
<1>1. NoLocks \in [PoolConnections -> 0 .. MaxRuns] /\ \A c \in PoolConnections : NoLocks[c] = 0
  BY RunsAreCounted DEF NoLocks
<1>2. CleanupTypeOK
  <2>1. advisory \in [Processes -> [PoolConnections -> 0 .. MaxRuns]]
    BY <1>1 DEF CleanupInit
  <2>2. cutShort \in BOOLEAN
    BY DEF CleanupInit
  <2>3. QED
    BY <2>1, <2>2, RunsAreCounted DEF CleanupInit, CleanupTypeOK
<1>3. LockIsExclusive /\ HoldsAreCounted
  BY <1>1 DEF CleanupInit, LockIsExclusive, HoldsAreCounted
<1>4. WorkIsLocked /\ HeldOnce
  BY <1>1 DEF CleanupInit, WorkIsLocked, HeldOnce
<1>5. QED
  BY <1>2, <1>3, <1>4 DEF CleanupInv

LEMMA TryLockKeeps ==
    ASSUME CleanupInv, NEW p \in Processes, TryLock(p)
    PROVE  CleanupInv'
<1> USE RunsAreCounted
<1>1. /\ cleanup[p] = "idle" /\ nights[p] < MaxRuns
      /\ nights' = [nights EXCEPT ![p] = @ + 1]
      /\ UNCHANGED <<astrayUnlock, cutShort>>
  BY DEF TryLock
<1>2. /\ nights' \in [Processes -> 0 .. MaxRuns]
      /\ \A q \in Processes : nights'[q] >= nights[q]
      /\ nights'[p] = nights[p] + 1
  BY <1>1 DEF CleanupInv, CleanupTypeOK
<1>3. CASE UNCHANGED <<advisory, cleanup, deleting>>
  <2>1. CleanupTypeOK'
    BY <1>1, <1>2, <1>3 DEF CleanupInv, CleanupTypeOK
  <2>2. LockIsExclusive' /\ WorkIsLocked' /\ HeldOnce'
    BY <1>1, <1>3 DEF CleanupInv, LockIsExclusive, WorkIsLocked, HeldOnce
  <2>3. HoldsAreCounted'
    BY <1>2, <1>3 DEF CleanupInv, CleanupTypeOK, HoldsAreCounted
  <2>4. QED
    BY <2>1, <2>2, <2>3 DEF CleanupInv
<1>4. ASSUME NEW c \in PoolConnections, Granted(p, c),
             advisory' = [advisory EXCEPT ![p][c] = @ + 1],
             cleanup' = [cleanup EXCEPT ![p] = "working"],
             deleting' = [deleting EXCEPT ![p] = PurgedTables]
      PROVE  CleanupInv'
  <2>1. \A q \in Processes, d \in PoolConnections :
           advisory'[q][d] = IF q = p /\ d = c THEN advisory[p][c] + 1 ELSE advisory[q][d]
    BY <1>4 DEF CleanupInv, CleanupTypeOK
  <2>2. \A q \in Processes, d \in PoolConnections :
           /\ advisory[q][d] \in 0 .. MaxRuns /\ nights[q] \in 0 .. MaxRuns
           /\ advisory[q][d] <= nights[q]
           /\ advisory[q][d] > 0 => q = p /\ d = c
    BY <1>4 DEF CleanupInv, CleanupTypeOK, HoldsAreCounted, Granted
  <2>3. HoldsAreCounted'
    BY <1>2, <2>1, <2>2 DEF HoldsAreCounted
  <2>4. CleanupTypeOK'
    <3>1. advisory[p][c] + 1 \in 0 .. MaxRuns
      BY <1>1, <2>2
    <3>2. advisory' \in [Processes -> [PoolConnections -> 0 .. MaxRuns]]
      BY <1>4, <3>1 DEF CleanupInv, CleanupTypeOK
    <3>3. QED
      BY <1>1, <1>2, <1>4, <3>2 DEF CleanupInv, CleanupTypeOK
  <2>5. LockIsExclusive'
    BY <2>1, <2>2 DEF LockIsExclusive
  <2>6. advisory'[p][c] > 0 /\ advisory'[p] # NoLocks
    BY <2>1, <2>2 DEF NoLocks
  <2>7. \A q \in Processes : q # p => /\ advisory'[q] = advisory[q]
                                      /\ cleanup'[q] = cleanup[q] /\ deleting'[q] = deleting[q]
    BY <1>4 DEF CleanupInv, CleanupTypeOK
  <2>8. cleanup'[p] = "working"
    BY <1>4 DEF CleanupInv, CleanupTypeOK
  <2>9. WorkIsLocked'
    BY <1>1, <2>6, <2>7, <2>8 DEF CleanupInv, WorkIsLocked
  <2>10. HeldOnce'
    <3>1. p \notin astrayUnlock => \A d \in PoolConnections : advisory'[p][d] <= 1
      <4>1. p \notin astrayUnlock => advisory[p] = NoLocks
        BY <1>1 DEF CleanupInv, HeldOnce
      <4>2. QED
        BY <2>1, <4>1 DEF NoLocks
    <3>2. QED
      BY <1>1, <2>7, <2>8, <3>1 DEF CleanupInv, HeldOnce
  <2>11. QED
    BY <2>3, <2>4, <2>5, <2>9, <2>10 DEF CleanupInv
<1>5. QED
  BY <1>3, <1>4 DEF TryLock

LEMMA DeleteKeeps ==
    ASSUME CleanupInv, NEW p \in Processes, Delete(p)
    PROVE  CleanupInv'
<1>1. PICK t \in deleting[p] : deleting' = [deleting EXCEPT ![p] = @ \ {t}]
  BY DEF Delete
<1>2. UNCHANGED <<advisory, nights, astrayUnlock>>
  BY DEF Delete
<1>3. /\ \A q \in Processes \ {p} : deleting'[q] = deleting[q]
      /\ deleting'[p] = deleting[p] \ {t}
      /\ deleting' \in [Processes -> SUBSET PurgedTables]
  BY <1>1 DEF CleanupInv, CleanupTypeOK
<1>4. PICK status \in {"unlock", cleanup[p]} :
        /\ cleanup' = [cleanup EXCEPT ![p] = status]
        /\ cleanup[p] # "working" => status = cleanup[p]
        /\ cutShort' = TRUE
             \/ (cutShort' = cutShort /\ (cleanup[p] = "working" =>
                    (status = "unlock") = (deleting'[p] = {})))
  BY DEF Delete, Failed, CleanupInv, CleanupTypeOK
<1>5. /\ cleanup' \in [Processes -> {"idle", "working", "unlock"}]
      /\ \A q \in Processes \ {p} : cleanup'[q] = cleanup[q]
      /\ cleanup'[p] = status
      /\ cleanup'[p] = "idle" <=> cleanup[p] = "idle"
  BY <1>4 DEF CleanupInv, CleanupTypeOK
<1>6. cutShort' \in BOOLEAN
  BY <1>4 DEF CleanupInv, CleanupTypeOK
<1>7. CleanupTypeOK'
  BY <1>2, <1>3, <1>5, <1>6 DEF CleanupInv, CleanupTypeOK
<1>8. LockIsExclusive' /\ HoldsAreCounted' /\ HeldOnce'
  BY <1>2, <1>5 DEF CleanupInv, LockIsExclusive, HoldsAreCounted, HeldOnce
<1>9. WorkIsLocked'
  BY <1>2, <1>3, <1>4, <1>5 DEF CleanupInv, WorkIsLocked
<1>10. QED
  BY <1>7, <1>8, <1>9 DEF CleanupInv

LEMMA UnlockKeeps ==
    ASSUME CleanupInv, NEW p \in Processes, Unlock(p)
    PROVE  CleanupInv'
<1>1. PICK c \in PoolConnections :
        /\ advisory' = [advisory EXCEPT ![p][c] = IF @ > 0 THEN @ - 1 ELSE 0]
        /\ astrayUnlock' = IF advisory[p][c] = 0 THEN astrayUnlock \cup {p} ELSE astrayUnlock
  BY DEF Unlock
<1>2. /\ UNCHANGED <<deleting, nights, cutShort>>
      /\ cleanup[p] = "unlock" /\ cleanup' = [cleanup EXCEPT ![p] = "idle"]
  BY DEF Unlock
<1>3. \A q \in Processes, d \in PoolConnections :
         /\ advisory[q][d] \in 0 .. MaxRuns
         /\ advisory'[q][d] = IF q = p /\ d = c
                THEN IF advisory[p][c] > 0 THEN advisory[p][c] - 1 ELSE 0
                ELSE advisory[q][d]
  BY <1>1 DEF CleanupInv, CleanupTypeOK
<1>4. \A q \in Processes, d \in PoolConnections :
         advisory'[q][d] \in 0 .. MaxRuns /\ advisory'[q][d] <= advisory[q][d]
  <2> TAKE q \in Processes, d \in PoolConnections
  <2>1. advisory[q][d] \in 0 .. MaxRuns
    BY <1>3
  <2>2. CASE q = p /\ d = c
    <3>1. advisory'[q][d] = IF advisory[q][d] > 0 THEN advisory[q][d] - 1 ELSE 0
      BY <1>3, <2>2
    <3>2. QED
      BY <2>1, <3>1, RunsAreCounted
  <2>3. CASE ~(q = p /\ d = c)
    <3>1. advisory'[q][d] = advisory[q][d]
      BY <1>3, <2>3
    <3>2. QED
      BY <2>1, <3>1
  <2>4. QED
    BY <2>2, <2>3
<1>5. /\ \A q \in Processes \ {p} : cleanup'[q] = cleanup[q] /\ advisory'[q] = advisory[q]
      /\ cleanup'[p] = "idle"
      /\ cleanup' \in [Processes -> {"idle", "working", "unlock"}]
  BY <1>1, <1>2 DEF CleanupInv, CleanupTypeOK
<1>6. advisory' \in [Processes -> [PoolConnections -> 0 .. MaxRuns]]
  <2>1. advisory' \in [Processes -> [PoolConnections -> Int]]
    BY <1>1 DEF CleanupInv, CleanupTypeOK
  <2>2. QED
    BY <1>4, <2>1
<1>7. CleanupTypeOK'
  BY <1>1, <1>2, <1>5, <1>6 DEF CleanupInv, CleanupTypeOK
<1>8. LockIsExclusive'
  BY <1>3, <1>4 DEF CleanupInv, LockIsExclusive
<1>9. HoldsAreCounted'
  <2>1. \A q \in Processes : nights[q] \in 0 .. MaxRuns
    BY DEF CleanupInv, CleanupTypeOK
  <2>2. QED
    BY <1>2, <1>3, <1>4, <2>1 DEF CleanupInv, HoldsAreCounted
<1>10. WorkIsLocked'
  BY <1>2, <1>5 DEF CleanupInv, WorkIsLocked
<1>11. HeldOnce'
  <2>1. ASSUME p \notin astrayUnlock'
        PROVE  advisory'[p] = NoLocks
    <3>1. advisory[p][c] # 0 /\ p \notin astrayUnlock
      BY <1>1, <2>1
    <3>2. advisory[p][c] = 1
      BY <1>3, <3>1 DEF CleanupInv, HeldOnce
    <3>3. \A d \in PoolConnections : d # c => advisory[p][d] = 0
      BY <1>3, <3>2 DEF CleanupInv, LockIsExclusive
    <3>4. \A d \in PoolConnections : advisory'[p][d] = 0
      BY <1>3, <3>2, <3>3
    <3>5. QED
      BY <1>6, <3>4 DEF NoLocks
  <2>2. \A q \in Processes \ astrayUnlock', d \in PoolConnections : advisory'[q][d] <= 1
    <3>1. \A q \in Processes \ astrayUnlock' : q \in Processes \ astrayUnlock
      BY <1>1
    <3>2. QED
      BY <1>3, <1>4, <3>1 DEF CleanupInv, HeldOnce
  <2>3. QED
    BY <1>1, <1>5, <2>1, <2>2 DEF CleanupInv, HeldOnce
<1>12. QED
  BY <1>7, <1>8, <1>9, <1>10, <1>11 DEF CleanupInv

LEMMA LoseConnectionKeeps ==
    ASSUME CleanupInv, NEW p \in Processes, LoseConnection(p)
    PROVE  CleanupInv'
<1>1. PICK c \in PoolConnections : advisory' = [advisory EXCEPT ![p][c] = 0]
  BY DEF LoseConnection
<1>2. UNCHANGED <<cleanup, deleting, nights, astrayUnlock>> /\ cutShort' = TRUE
  BY DEF LoseConnection
<1>3. \A q \in Processes, d \in PoolConnections :
         /\ advisory[q][d] \in 0 .. MaxRuns
         /\ advisory'[q][d] = IF q = p /\ d = c THEN 0 ELSE advisory[q][d]
  BY <1>1 DEF CleanupInv, CleanupTypeOK
<1>4. cutShort' \in BOOLEAN
  BY <1>2
<1>5. CleanupTypeOK'
  <2>1. 0 \in 0 .. MaxRuns
    BY RunsAreCounted
  <2>2. advisory' \in [Processes -> [PoolConnections -> 0 .. MaxRuns]]
    BY <1>1, <2>1 DEF CleanupInv, CleanupTypeOK
  <2>3. QED
    BY <1>2, <1>4, <2>2 DEF CleanupInv, CleanupTypeOK
<1>6. LockIsExclusive'
  BY <1>3 DEF CleanupInv, LockIsExclusive
<1>7. HoldsAreCounted'
  <2>1. \A q \in Processes : nights[q] \in 0 .. MaxRuns
    BY DEF CleanupInv, CleanupTypeOK
  <2>2. QED
    BY <1>2, <1>3, <2>1 DEF CleanupInv, HoldsAreCounted
<1>8. HeldOnce'
  <2>1. ASSUME NEW q \in Processes \ astrayUnlock
        PROVE  /\ \A d \in PoolConnections : advisory'[q][d] <= 1
               /\ cleanup[q] = "idle" => advisory'[q] = NoLocks
    <3>1. \A d \in PoolConnections : advisory[q][d] <= 1
      BY DEF CleanupInv, HeldOnce
    <3>2. \A d \in PoolConnections : advisory'[q][d] <= 1
      BY <1>3, <3>1
    <3>3. ASSUME cleanup[q] = "idle"
          PROVE  advisory'[q] = NoLocks
      <4>1. \A d \in PoolConnections : advisory'[q][d] = 0
        BY <1>3, <3>3 DEF CleanupInv, HeldOnce, NoLocks
      <4>2. QED
        BY <1>5, <4>1 DEF NoLocks, CleanupTypeOK
    <3>4. QED
      BY <3>2, <3>3
  <2>2. QED
    BY <1>2, <2>1 DEF HeldOnce
<1>9. WorkIsLocked'
  BY <1>2 DEF WorkIsLocked
<1>10. QED
  BY <1>5, <1>6, <1>7, <1>8, <1>9 DEF CleanupInv

LEMMA RestartKeeps ==
    ASSUME CleanupInv, NEW p \in Processes, RestartProcess(p)
    PROVE  CleanupInv'
<1>1. /\ advisory' = [advisory EXCEPT ![p] = NoLocks]
      /\ cleanup' = [cleanup EXCEPT ![p] = "idle"]
      /\ deleting' = [deleting EXCEPT ![p] = {}]
      /\ astrayUnlock' = astrayUnlock \ {p}
      /\ UNCHANGED <<nights, cutShort>>
  BY DEF RestartProcess
<1>2. /\ NoLocks \in [PoolConnections -> 0 .. MaxRuns]
      /\ \A c \in PoolConnections : NoLocks[c] = 0
  BY RunsAreCounted DEF NoLocks
<1>3. CleanupTypeOK'
  BY <1>1, <1>2 DEF CleanupInv, CleanupTypeOK
<1>4. /\ \A q \in Processes \ {p} : /\ advisory'[q] = advisory[q] /\ cleanup'[q] = cleanup[q]
                                    /\ deleting'[q] = deleting[q]
      /\ advisory'[p] = NoLocks /\ cleanup'[p] = "idle" /\ deleting'[p] = {}
  BY <1>1 DEF CleanupInv, CleanupTypeOK
<1>5. LockIsExclusive'
  BY <1>2, <1>4 DEF CleanupInv, LockIsExclusive
<1>6. HoldsAreCounted'
  BY <1>1, <1>2, <1>4 DEF CleanupInv, CleanupTypeOK, HoldsAreCounted
<1>7. WorkIsLocked'
  BY <1>1, <1>4 DEF CleanupInv, WorkIsLocked
<1>8. HeldOnce'
  BY <1>1, <1>2, <1>4 DEF CleanupInv, HeldOnce
<1>9. QED
  BY <1>3, <1>5, <1>6, <1>7, <1>8 DEF CleanupInv

\* For any number of processes and connections: nobody works beside another,
\* and the lock comes back (cleanup.ts:20-57).
THEOREM CleanupLockAlwaysHolds == CleanupSpec => []CleanupLockHolds
<1>1. CleanupInv /\ [CleanupNext]_cleanupVars => CleanupInv'
  <2>1. CleanupInv /\ UNCHANGED cleanupVars => CleanupInv'
    BY DEF cleanupVars, CleanupInv, CleanupTypeOK, LockIsExclusive, WorkIsLocked, HeldOnce,
           HoldsAreCounted
  <2>2. QED
    BY <2>1, TryLockKeeps, DeleteKeeps, UnlockKeeps, LoseConnectionKeeps, RestartKeeps
       DEF CleanupNext
<1>2. CleanupInv => CleanupLockHolds
  <2> SUFFICES ASSUME CleanupInv
               PROVE  CleanupLockHolds
    OBVIOUS
  <2>1. LockComesBack
    BY DEF CleanupInv, HeldOnce, LockComesBack
  <2>2. OneCleanupAtATime
    <3> DEFINE atWork == {p \in Processes : deleting[p] # {}}
    <3> SUFFICES ASSUME ~cutShort
                 PROVE  Cardinality(atWork) <= 1
      BY DEF OneCleanupAtATime
    <3>1. ASSUME NEW p \in atWork
          PROVE  \E c \in PoolConnections : advisory[p][c] > 0
      <4>1. advisory[p] # NoLocks /\ advisory[p] \in [PoolConnections -> 0 .. MaxRuns]
        BY DEF CleanupInv, CleanupTypeOK, WorkIsLocked
      <4>2. PICK c \in PoolConnections : advisory[p][c] # 0
        BY <4>1 DEF NoLocks
      <4>3. advisory[p][c] > 0
        BY <4>1, <4>2
      <4>4. QED
        BY <4>3
    <3>2. \A p, q \in atWork : p = q
      BY <3>1 DEF CleanupInv, LockIsExclusive
    <3>3. CASE atWork = {}
      <4>1. Cardinality(atWork) = 0
        BY <3>3, FS_EmptySet
      <4>2. QED
        BY <4>1
    <3>4. ASSUME NEW p \in atWork
          PROVE  Cardinality(atWork) <= 1
      <4>1. atWork = {p}
        BY <3>2
      <4>2. Cardinality(atWork) = 1
        BY <4>1, FS_Singleton
      <4>3. QED
        BY <4>2
    <3>5. QED
      BY <3>3, <3>4
  <2>3. QED
    BY <2>1, <2>2 DEF CleanupLockHolds
<1>3. QED
  BY CleanupInitInv, <1>1, <1>2, PTL DEF CleanupSpec

-----------------------------------------------------------------------------
(* The notice of a changed assignment. *)

\* A notice that waits and is not shown is announced, asked for or on its way.
NoticeTravels ==
    mounted /\ ~excuse /\ noticed \notin {0, displayed} =>
        noticed \in announced \cup unheard \/ loadsOpen > 0 \/ answers[noticed] > 0

\* The latest move is the one whose notice waits, and nothing newer is on its
\* way or shown.
NoticesInOrder ==
    /\ noticed \in {0, moves}
    /\ displayed <= moves
    /\ \A m \in 0 .. MaxMoves : answers[m] > 0 => m <= moves

NoticeInv == NoticeTypeOK /\ NoticesInOrder /\ NoticeTravels

LEMMA NoticeInitInv == NoticeInit => NoticeInv
<1> SUFFICES ASSUME NoticeInit
             PROVE  NoticeInv
  OBVIOUS
<1> USE NoticeAssumption
<1>1. /\ NoAnswers \in [0 .. MaxMoves -> 0 .. MaxLoads]
      /\ \A m \in 0 .. MaxMoves : NoAnswers[m] = 0
  BY DEF NoAnswers
<1>2. mounted \in BOOLEAN /\ excuse \in BOOLEAN
  BY DEF NoticeInit
<1>3. NoticeTypeOK
  BY <1>1, <1>2 DEF NoticeInit, NoticeTypeOK
<1>4. QED
  BY <1>1, <1>3 DEF NoticeInit, NoticeInv, NoticesInOrder, NoticeTravels

LEMMA ShowNoticeKeeps ==
    ASSUME NoticeInv, ShowNotice
    PROVE  NoticeInv'
<1> USE NoticeAssumption
<1>1. PICK m \in 0 .. MaxMoves :
        /\ answers[m] > 0
        /\ answers' = [answers EXCEPT ![m] = @ - 1]
        /\ displayed' = IF m = 0 THEN displayed ELSE m
        /\ seen' = IF m = 0 THEN seen ELSE seen \cup {m}
        /\ excuse' = (excuse \/ m \in 1 .. displayed - 1)
  BY DEF ShowNotice
<1>2. UNCHANGED <<moves, noticed, announced, unheard, mounted, loadsOpen, ack, wiped>>
  BY DEF ShowNotice
<1>3. /\ answers' \in [0 .. MaxMoves -> 0 .. MaxLoads]
      /\ \A n \in 0 .. MaxMoves : answers'[n] = IF n = m THEN answers[m] - 1 ELSE answers[n]
  BY <1>1 DEF NoticeInv, NoticeTypeOK
<1>4. NoticeTypeOK'
  <2>1. excuse' \in BOOLEAN
    BY <1>1
  <2>2. seen' \subseteq Moves /\ displayed' \in 0 .. MaxMoves
    BY <1>1 DEF NoticeInv, NoticeTypeOK, Moves
  <2>3. QED
    BY <1>2, <1>3, <2>1, <2>2 DEF NoticeInv, NoticeTypeOK
<1>5. NoticesInOrder'
  BY <1>1, <1>2, <1>3 DEF NoticeInv, NoticeTypeOK, NoticesInOrder
<1>6. NoticeTravels'
  <2> SUFFICES ASSUME mounted, ~excuse', noticed \notin {0, displayed'}
               PROVE  noticed \in announced \cup unheard \/ loadsOpen > 0 \/ answers'[noticed] > 0
    BY <1>2 DEF NoticeTravels
  <2>1. ~excuse /\ m \notin 1 .. displayed - 1
    BY <1>1
  <2>2. noticed # displayed
    BY <1>1, <2>1 DEF NoticeInv, NoticeTypeOK, NoticesInOrder
  <2>3. noticed # m
    BY <1>1
  <2>4. QED
    BY <1>3, <2>1, <2>2, <2>3 DEF NoticeInv, NoticeTypeOK, NoticeTravels
<1>7. QED
  BY <1>4, <1>5, <1>6 DEF NoticeInv

LEMMA NoticeNextInv == NoticeInv /\ [NoticeNext]_noticeVars => NoticeInv'
<1> SUFFICES ASSUME NoticeInv, [NoticeNext]_noticeVars
             PROVE  NoticeInv'
  OBVIOUS
<1> USE NoticeAssumption
<1>1. /\ moves \in 0 .. MaxMoves /\ noticed \in 0 .. MaxMoves
      /\ announced \subseteq Moves /\ unheard \subseteq Moves
      /\ displayed \in 0 .. MaxMoves /\ loadsOpen \in 0 .. MaxLoads
      /\ answers \in [0 .. MaxMoves -> 0 .. MaxLoads]
  BY DEF NoticeInv, NoticeTypeOK
<1>2. CASE Move
  <2>0. /\ moves' \in 0 .. MaxMoves /\ noticed' = moves' /\ moves' \in Moves
        /\ announced' \subseteq Moves /\ unheard' \subseteq Moves
        /\ UNCHANGED <<mounted, displayed, loadsOpen, answers, ack, seen, wiped, excuse>>
    <3>1. moves' \in 0 .. MaxMoves /\ moves' \in Moves /\ noticed' = moves'
      BY <1>1, <1>2 DEF Move, Moves
    <3>2. announced' \in {announced, announced \cup {moves'}}
          /\ unheard' \in {unheard, unheard \cup {moves'}}
      BY <1>2 DEF Move
    <3>3. QED
      BY <1>1, <1>2, <3>1, <3>2 DEF Move
  <2>1. NoticeTypeOK'
    BY <2>0 DEF NoticeInv, NoticeTypeOK
  <2>2. NoticesInOrder'
    BY <1>1, <1>2 DEF Move, NoticeInv, NoticesInOrder
  <2>3. NoticeTravels'
    BY <1>1, <1>2 DEF Move, NoticeTravels
  <2>4. QED
    BY <2>1, <2>2, <2>3 DEF NoticeInv
<1>3. CASE HearNotice
  <2>1. /\ announced' \subseteq announced /\ loadsOpen' = loadsOpen + 1
        /\ loadsOpen' \in 0 .. MaxLoads
        /\ UNCHANGED <<moves, noticed, unheard, mounted, displayed, answers, ack, seen, wiped,
                       excuse>>
    BY <1>1, <1>3 DEF HearNotice
  <2>2. NoticeTypeOK'
    BY <1>1, <2>1 DEF NoticeInv, NoticeTypeOK
  <2>3. QED
    BY <1>1, <2>1, <2>2 DEF NoticeInv, NoticesInOrder, NoticeTravels
<1>4. CASE ServeNotice
  <2>1. CASE answers' = [answers EXCEPT ![noticed] = @ + 1] /\ answers[noticed] < MaxLoads
                /\ UNCHANGED excuse
    <3>1. /\ answers' \in [0 .. MaxMoves -> 0 .. MaxLoads]
          /\ \A n \in 0 .. MaxMoves :
                answers'[n] = IF n = noticed THEN answers[n] + 1 ELSE answers[n]
      BY <1>1, <2>1
    <3>2. NoticeTypeOK'
      BY <1>1, <1>4, <2>1, <3>1 DEF ServeNotice, NoticeInv, NoticeTypeOK
    <3>3. NoticesInOrder'
      BY <1>1, <1>4, <3>1 DEF ServeNotice, NoticeInv, NoticesInOrder
    <3>4. NoticeTravels'
      BY <1>1, <1>4, <3>1 DEF ServeNotice, NoticeTravels
    <3>5. QED
      BY <3>2, <3>3, <3>4 DEF NoticeInv
  <2>2. CASE excuse' = TRUE /\ UNCHANGED answers
    <3>1. excuse' \in BOOLEAN
      BY <2>2
    <3>2. NoticeTypeOK'
      BY <1>1, <1>4, <2>2, <3>1 DEF ServeNotice, NoticeInv, NoticeTypeOK
    <3>3. QED
      BY <1>4, <2>2, <3>2 DEF ServeNotice, NoticeInv, NoticesInOrder, NoticeTravels
  <2>3. QED
    BY <1>4, <2>1, <2>2 DEF ServeNotice
<1>5. CASE Acknowledge
  BY <1>5 DEF Acknowledge, NoticeInv, NoticeTypeOK, NoticesInOrder, NoticeTravels
<1>6. CASE Dismiss
  <2>1. /\ UNCHANGED <<moves, announced, unheard, mounted, displayed, loadsOpen, answers, seen, excuse>>
        /\ noticed' \in {0, noticed}
        /\ ack' \in {"served", "refused"}
        /\ wiped' \subseteq Moves
    <3>1. {noticed} \ (seen \cup {0}) \subseteq Moves /\ wiped \subseteq Moves
      BY <1>1 DEF NoticeInv, NoticeTypeOK, Moves
    <3>2. noticed' \in {0, noticed} /\ ack' \in {"served", "refused"}
      BY <1>6 DEF Dismiss
    <3>3. wiped' = wiped \/ wiped' = wiped \cup ({noticed} \ (seen \cup {0}))
      BY <1>6 DEF Dismiss
    <3>4. QED
      BY <1>6, <3>1, <3>2, <3>3 DEF Dismiss
  <2>2. noticed' \in 0 .. MaxMoves
    BY <1>1, <2>1
  <2>3. mounted' \in BOOLEAN /\ excuse' \in BOOLEAN /\ seen' \subseteq Moves
    BY <2>1 DEF NoticeInv, NoticeTypeOK
  <2>4. NoticeTypeOK'
    BY <1>1, <2>1, <2>2, <2>3 DEF NoticeTypeOK
  <2>5. NoticesInOrder'
    <3>1. /\ moves' = moves /\ displayed' = displayed /\ announced' = announced
          /\ answers' = answers /\ noticed' \in {0, noticed}
      BY <2>1
    <3>2. QED
      BY <3>1 DEF NoticeInv, NoticesInOrder
  <2>6. NoticeTravels'
    <3> SUFFICES ASSUME mounted', ~excuse', noticed' \notin {0, displayed'}
                 PROVE  noticed' \in announced' \cup unheard' \/ loadsOpen' > 0 \/ answers'[noticed'] > 0
      BY DEF NoticeTravels
    <3>1. mounted /\ ~excuse
      BY <2>1
    <3>2. noticed' = noticed /\ noticed \notin {0, displayed}
      BY <2>1
    <3>3. QED
      BY <2>1, <3>1, <3>2 DEF NoticeInv, NoticeTravels
  <2>7. QED
    BY <2>4, <2>5, <2>6 DEF NoticeInv
<1>7. CASE Dismissed
  <2>1. /\ UNCHANGED <<moves, noticed, announced, unheard, mounted, loadsOpen, answers, seen, wiped>>
        /\ ack' = "none"
        /\ \/ displayed' = 0 /\ excuse' = (excuse \/ (noticed # 0 /\ noticed = displayed))
           \/ UNCHANGED <<displayed, excuse>>
    BY <1>7 DEF Dismissed
  <2>2. excuse' \in BOOLEAN
    BY <2>1 DEF NoticeInv, NoticeTypeOK
  <2>3. displayed' \in 0 .. MaxMoves
    BY <1>1, <2>1
  <2>4. mounted' \in BOOLEAN /\ seen' \subseteq Moves /\ wiped' \subseteq Moves
    BY <2>1 DEF NoticeInv, NoticeTypeOK
  <2>5. NoticeTypeOK'
    BY <1>1, <2>1, <2>2, <2>3, <2>4 DEF NoticeTypeOK
  <2>6. NoticesInOrder'
    BY <1>1, <2>1, <2>3 DEF NoticeInv, NoticesInOrder
  <2>7. NoticeTravels'
    <3> SUFFICES ASSUME mounted', ~excuse', noticed' \notin {0, displayed'}
                 PROVE  noticed' \in announced' \cup unheard' \/ loadsOpen' > 0 \/ answers'[noticed'] > 0
      BY DEF NoticeTravels
    <3>1. mounted /\ noticed' = noticed
      BY <2>1
    <3>2. ASSUME displayed' = 0 /\ excuse' = (excuse \/ (noticed # 0 /\ noticed = displayed))
          PROVE  ~excuse /\ noticed \notin {0, displayed}
      BY <3>1, <3>2
    <3>3. ASSUME UNCHANGED <<displayed, excuse>>
          PROVE  ~excuse /\ noticed \notin {0, displayed}
      BY <3>1, <3>3
    <3>4. ~excuse /\ noticed \notin {0, displayed}
      BY <2>1, <3>2, <3>3
    <3>5. QED
      BY <2>1, <3>1, <3>4 DEF NoticeInv, NoticeTravels
  <2>8. QED
    BY <2>5, <2>6, <2>7 DEF NoticeInv
<1>8. CASE CloseTab
  <2>1. /\ NoAnswers \in [0 .. MaxMoves -> 0 .. MaxLoads]
        /\ \A m \in 0 .. MaxMoves : NoAnswers[m] = 0
    BY DEF NoAnswers
  <2>2. mounted' \in BOOLEAN /\ ~mounted'
    BY <1>8 DEF CloseTab
  <2>3. NoticeTypeOK'
    BY <1>1, <1>8, <2>1, <2>2 DEF CloseTab, NoticeInv, NoticeTypeOK
  <2>4. QED
    BY <1>1, <1>8, <2>1, <2>2, <2>3 DEF CloseTab, NoticeInv, NoticesInOrder, NoticeTravels
<1>9. CASE OpenTab
  <2>1. mounted' \in BOOLEAN /\ excuse' \in BOOLEAN
    BY <1>9 DEF OpenTab
  <2>2. NoticeTypeOK'
    BY <1>1, <1>9, <2>1 DEF OpenTab, NoticeInv, NoticeTypeOK
  <2>3. QED
    BY <1>1, <1>9, <2>2 DEF OpenTab, NoticeInv, NoticesInOrder, NoticeTravels
<1>10. CASE UNCHANGED noticeVars
  BY <1>10 DEF noticeVars, NoticeInv, NoticeTypeOK, NoticesInOrder, NoticeTravels
<1>11. QED
  BY <1>2, <1>3, <1>4, <1>5, <1>6, <1>7, <1>8, <1>9, <1>10, ShowNoticeKeeps DEF NoticeNext

\* For any number of moves and of loads under way: a quiet tab shows the notice
\* that waits (ScopeChangeNoticeModal.tsx:33-92).
THEOREM WaitingNoticeIsAlwaysShown == NoticeSpec => []WaitingNoticeIsShown
<1>1. NoticeInv => WaitingNoticeIsShown
  BY DEF NoticeInv, NoticeTypeOK, NoticeTravels, WaitingNoticeIsShown, NoticeQuiet, NoAnswers
<1>2. QED
  BY NoticeInitInv, NoticeNextInv, <1>1, PTL DEF NoticeSpec

-----------------------------------------------------------------------------
(***************************************************************************)
(* The audit log and its reverts.  The steps of a revert are as many as the*)
(* entries it takes with it, so what they do is shown by going down the log:*)
(* UpTo is that induction, from the least number that would break it.      *)
(***************************************************************************)

\* Some number is the least of those up to N that are out.
LEMMA LeastOf ==
    ASSUME NEW N \in Nat, NEW Out, Out \subseteq 0 .. N, Out # {}
    PROVE  \E x \in Out : \A y \in Out : x <= y
<1> DEFINE Below == {0 .. n : n \in Out}
<1>1. Below \subseteq FiniteSubsetsOf(0 .. N) /\ Below # {}
  <2>1. ASSUME NEW n \in Out PROVE 0 .. n \in SUBSET (0 .. N) /\ IsFiniteSet(0 .. n)
    BY FS_Interval
  <2> QED
    BY <2>1 DEF FiniteSubsetsOf
<1>2. IsWellFoundedOn(StrictSubsetOrdering(0 .. N), FiniteSubsetsOf(0 .. N))
  BY FS_StrictSubsetOrderingWellFounded
<1>3. PICK b \in Below : \A c \in Below : ~(<<c, b>> \in StrictSubsetOrdering(0 .. N))
  <2> HIDE DEF Below
  <2> QED
    BY <1>1, <1>2, WFMin
<1>4. PICK x \in Out : b = 0 .. x
  BY <1>3
<1>5. ASSUME NEW y \in Out, y < x PROVE FALSE
  <2>1. 0 .. y \in Below /\ 0 .. y \in SUBSET (0 .. N) /\ 0 .. x \in SUBSET (0 .. N)
    OBVIOUS
  <2>2. 0 .. y \subseteq 0 .. x /\ x \in 0 .. x /\ x \notin 0 .. y
    BY <1>5
  <2>3. <<0 .. y, 0 .. x>> \in StrictSubsetOrdering(0 .. N)
    BY <2>1, <2>2 DEF StrictSubsetOrdering
  <2> QED
    BY <2>1, <2>3, <1>3, <1>4
<1> QED
  BY <1>5

\* What holds of 0 and passes from each number to the next.
LEMMA UpTo ==
    ASSUME NEW N \in Nat, NEW T, 0 \in T, \A n \in 0 .. N - 1 : n \in T => n + 1 \in T
    PROVE  \A n \in 0 .. N : n \in T
<1>1. SUFFICES ASSUME NEW m \in 0 .. N, m \notin T PROVE FALSE
  OBVIOUS
<1> DEFINE Out == {n \in 0 .. N : n \notin T}
<1>2. PICK x \in Out : \A y \in Out : x <= y
  <2>1. Out \subseteq 0 .. N /\ Out # {}
    BY <1>1
  <2> HIDE DEF Out
  <2> QED
    BY <2>1, LeastOf
<1>3. x # 0 /\ x - 1 \in 0 .. N - 1 /\ x - 1 \notin Out
  BY <1>2
<1> QED
  BY <1>2, <1>3
-----------------------------------------------------------------------------
(* A revert step by step. *)

\* What the walk has come to after its next step.
NextStep(chain, reads, actor, done, j) ==
    IF done.ok /\ j \in chain THEN StepBack(done, j, reads[j], actor) ELSE done

\* What it sets out with.
AtFirst == [ok |-> TRUE, db |-> row, wrote |-> {}, outrun |-> overtaken, log |-> log]

\* The walk is the one its recursion describes.
Walks(chain, reads, actor, f, m) ==
    f = [n \in 0 .. m |-> IF n = 0 THEN AtFirst
                          ELSE NextStep(chain, reads, actor, f[n - 1], Len(log) - n + 1)]

LEMMA WalkExists ==
    ASSUME NEW chain, NEW reads, NEW actor, NEW N \in Nat
    PROVE  \E f : Walks(chain, reads, actor, f, N)
<1> DEFINE T == {m \in 0 .. N : \E f : Walks(chain, reads, actor, f, m)}
           base == AtFirst
<1>1. 0 \in T
  <2>1. Walks(chain, reads, actor, [n \in 0 .. 0 |-> base], 0)
    BY DEF Walks
  <2> QED
    BY <2>1
<1>2. ASSUME NEW m \in 0 .. N - 1, m \in T
      PROVE  m + 1 \in T
  <2>1. PICK f : Walks(chain, reads, actor, f, m)
    BY <1>2
  <2> DEFINE next == NextStep(chain, reads, actor, f[m], Len(log) - (m + 1) + 1)
             g == [n \in 0 .. m + 1 |-> IF n = m + 1 THEN next ELSE f[n]]
             h == [n \in 0 .. m + 1 |-> IF n = 0 THEN base
                          ELSE NextStep(chain, reads, actor, g[n - 1], Len(log) - n + 1)]
  <2>2. ASSUME NEW n \in 0 .. m + 1
        PROVE  g[n] = h[n]
    <3>1. CASE n = m + 1
      <4>1. n # 0 /\ n - 1 = m /\ g[m] = f[m]
        BY <3>1
      <4> HIDE DEF base
      <4>2. g[n] = next /\ h[n] = NextStep(chain, reads, actor, g[n - 1], Len(log) - n + 1)
        BY <3>1, <4>1
      <4> QED
        BY <4>1, <4>2, <3>1
    <3>2. CASE n # m + 1 /\ n # 0
      <4>1. n \in 0 .. m /\ n - 1 \in 0 .. m + 1 /\ n - 1 # m + 1
        BY <3>2
      <4>2. g[n] = f[n] /\ g[n - 1] = f[n - 1]
        BY <3>2, <4>1
      <4>3. f[n] = NextStep(chain, reads, actor, f[n - 1], Len(log) - n + 1)
        BY <2>1, <3>2, <4>1 DEF Walks
      <4> QED
        BY <3>2, <4>2, <4>3
    <3>3. CASE n = 0
      BY <2>1, <3>3 DEF Walks
    <3> QED
      BY <3>1, <3>2, <3>3
  <2>3. g = h
    <3> HIDE DEF next, base
    <3>1. /\ g = [n \in 0 .. m + 1 |-> g[n]] /\ h = [n \in 0 .. m + 1 |-> h[n]]
      OBVIOUS
    <3> HIDE DEF g, h
    <3> QED
      BY <2>2, <3>1
  <2>4. Walks(chain, reads, actor, g, m + 1)
    BY <2>3 DEF Walks
  <2> HIDE DEF g
  <2> QED
    BY <2>4
<1>3. N \in T
  <2>1. 0 \in T /\ \A m \in 0 .. N - 1 : m \in T => m + 1 \in T
    BY <1>1, <1>2
  <2>2. N \in 0 .. N
    OBVIOUS
  <2> HIDE DEF T
  <2> QED
    BY <2>1, <2>2, UpTo
<1> QED
  BY <1>3 DEF T

LEMMA RewindWalks ==
    ASSUME NEW k, NEW chain, NEW reads, NEW actor, Len(log) - k + 1 \in Nat
    PROVE  Walks(chain, reads, actor, Rewind(k, chain, reads, actor), Len(log) - k + 1)
<1> DEFINE N == Len(log) - k + 1
           IsWalk(f) == f = [n \in 0 .. N |->
                                IF n = 0 THEN AtFirst
                                ELSE LET j == Len(log) - n + 1
                                     IN  IF f[n - 1].ok /\ j \in chain
                                         THEN StepBack(f[n - 1], j, reads[j], actor) ELSE f[n - 1]]
<1>1. PICK f : Walks(chain, reads, actor, f, N)
  BY WalkExists
<1>2. \A g : IsWalk(g) <=> Walks(chain, reads, actor, g, N)
  BY DEF Walks, NextStep
<1>3. IsWalk(CHOOSE g : IsWalk(g))
  BY <1>1, <1>2
<1>4. Rewind(k, chain, reads, actor) = CHOOSE g : IsWalk(g)
  BY DEF Rewind, AtFirst
<1> QED
  BY <1>2, <1>3, <1>4
-----------------------------------------------------------------------------
(* Rows. *)

Places == Gminas \cup Orgs

\* The rows a record of each kind can have.
RowsOf(e) ==
    {Unborn, Absent} \cup (CASE e \in Gminas -> GminaRows [] e \in Orgs -> OrgRows
                           [] e \in Users -> UserRows [] OTHER -> InviteRows)

Typed(db) == db \in [Entities -> Row] /\ \A e \in Entities : db[e] \in RowsOf(e)

\* What a row refers to is there.
Linked(db) == \A e \in Entities : db[e].there => Refers(db, db[e])

\* ... and members follow, but for those that a revert has left behind.
Followed(db, behind) ==
    \A u \in Users \ behind :
        db[u].there /\ db[u].org # Null => db[db[u].org].gmina = db[u].gmina

DbSound(db, behind) == Typed(db) /\ Linked(db) /\ Followed(db, behind)

LEMMA AbsentFields ==
    /\ Absent \in Row /\ Unborn \in Row /\ Absent # Unborn
    /\ ~Absent.there /\ Absent.gmina = Null /\ Absent.org = Null /\ Absent.name = Null
    /\ Absent.state = "NONE" /\ Absent.role = "NONE"
    /\ ~Unborn.there /\ Unborn.gmina = Null /\ Unborn.org = Null /\ Unborn.state = "UNBORN"
BY DEF Absent, Unborn, Row, States

LEMMA GminaRowFields ==
    ASSUME NEW r \in GminaRows
    PROVE  /\ r \in Row /\ r.gmina = Null /\ r.org = Null
           /\ r = Unborn \/ r.there
<1>1. CASE r = Unborn
  BY <1>1, AbsentFields
<1>2. ASSUME NEW n \in Names, r = [Absent EXCEPT !.there = TRUE, !.name = n]
      PROVE  r \in Row /\ r.gmina = Null /\ r.org = Null /\ r.there
  <2>1. r = [there |-> TRUE, name |-> n, gmina |-> Null, org |-> Null, role |-> "NONE", state |-> "NONE"]
    BY <1>2 DEF Absent
  <2> QED
    BY <2>1 DEF Row, States
<1> QED
  BY <1>1, <1>2 DEF GminaRows

LEMMA OrgRowFields ==
    ASSUME NEW r \in OrgRows
    PROVE  /\ r \in Row /\ r.org = Null
           /\ r = Unborn \/ (r.there /\ r.gmina \in Gminas)
<1>1. CASE r = Unborn
  BY <1>1, AbsentFields
<1>2. ASSUME NEW g \in Gminas, r = [Absent EXCEPT !.there = TRUE, !.gmina = g]
      PROVE  r \in Row /\ r.gmina = g /\ r.org = Null /\ r.there
  <2>1. r = [there |-> TRUE, name |-> Null, gmina |-> g, org |-> Null, role |-> "NONE", state |-> "NONE"]
    BY <1>2 DEF Absent
  <2> QED
    BY <2>1 DEF Row, States
<1> QED
  BY <1>1, <1>2 DEF OrgRows

LEMMA UserRowFields ==
    ASSUME NEW r \in UserRows
    PROVE  /\ r \in Row /\ r.there
           /\ r.gmina \in Gminas \cup {Null} /\ r.org \in Orgs \cup {Null}
           /\ r.role \in {"ADMIN", "VOLUNTEER"} /\ r.state \in {"ACTIVE", "INACTIVE"}
BY DEF UserRows, Row, States

LEMMA InviteRowFields ==
    ASSUME NEW r \in InviteRows
    PROVE  /\ r \in Row /\ r.there /\ r.gmina = Null /\ r.org = Null
           /\ r.state \in {"OPEN", "REVOKED", "USED", "EXPIRED"}
BY DEF InviteRows, Row, States

LEMMA InviteTurned ==
    ASSUME NEW r \in InviteRows, NEW st \in {"OPEN", "REVOKED", "USED", "EXPIRED"},
           NEW next, next = [r EXCEPT !.state = st]
    PROVE  next \in InviteRows /\ next.state = st
BY DEF InviteRows

LEMMA RowsOfKinds ==
    ASSUME NEW e \in Entities
    PROVE  /\ e \in Gminas => RowsOf(e) = {Unborn, Absent} \cup GminaRows
           /\ e \in Orgs => RowsOf(e) = {Unborn, Absent} \cup OrgRows
           /\ e \in Users => RowsOf(e) = {Unborn, Absent} \cup UserRows
           /\ e \in Invites => RowsOf(e) = {Unborn, Absent} \cup InviteRows
           /\ Absent \in RowsOf(e) /\ Unborn \in RowsOf(e)
BY KeysAreApart DEF RowsOf, Entities

LEMMA RowFields ==
    ASSUME NEW e \in Entities, NEW r \in RowsOf(e)
    PROVE  /\ r \in Row
           /\ r.gmina \in Gminas \cup {Null} /\ r.org \in Orgs \cup {Null}
           /\ ~r.there => r \in {Unborn, Absent} /\ r.gmina = Null /\ r.org = Null
           /\ e \notin Users => r.org = Null
           /\ e \notin Users \cup Orgs => r.gmina = Null
           /\ e \in Orgs /\ r.there => r.gmina \in Gminas
           /\ e \in Users /\ r.there => r \in UserRows
           /\ e \in Invites /\ r.there => r \in InviteRows
<1>1. CASE e \in Gminas
  BY <1>1, KeysAreApart, RowsOfKinds, GminaRowFields, AbsentFields DEF Entities
<1>2. CASE e \in Orgs
  BY <1>2, KeysAreApart, RowsOfKinds, OrgRowFields, AbsentFields DEF Entities
<1>3. CASE e \in Users
  BY <1>3, KeysAreApart, RowsOfKinds, UserRowFields, AbsentFields DEF Entities
<1>4. CASE e \in Invites
  BY <1>4, KeysAreApart, RowsOfKinds, InviteRowFields, AbsentFields DEF Entities
<1> QED
  BY <1>1, <1>2, <1>3, <1>4 DEF Entities

LEMMA MoreBehind ==
    ASSUME NEW db, NEW behind, NEW more, DbSound(db, behind), behind \subseteq more
    PROVE  DbSound(db, more)
BY DEF DbSound, Followed

\* One row is put, and nothing is left hanging.
LEMMA PutKeepsDb ==
    ASSUME NEW db, NEW behind, DbSound(db, behind), NEW e \in Entities, NEW r \in RowsOf(e),
           r.there => Refers(db, r),
           r.there \/ ~Referenced(db, e),
           e \in Orgs /\ r.there /\ db[e].there => r.gmina = db[e].gmina,
           e \in Users \ behind /\ r.there /\ r.org # Null => db[r.org].gmina = r.gmina,
           NEW put, put = [db EXCEPT ![e] = r]
    PROVE  DbSound(put, behind)
<1>1. /\ db \in [Entities -> Row] /\ r \in Row
      /\ put[e] = r /\ \A x \in Entities \ {e} : put[x] = db[x]
      /\ put \in [Entities -> Row] /\ \A x \in Entities : db[x] \in RowsOf(x)
  BY RowFields DEF DbSound, Typed
<1>2. Typed(put)
  BY <1>1 DEF Typed
<1>3. ASSUME NEW t \in Entities, db[t].there, NEW x \in Entities, put[x].there,
             put[x].gmina = t \/ put[x].org = t
      PROVE  put[t].there
  <2>1. CASE t # e
    BY <1>1, <1>3, <2>1
  <2>2. CASE t = e /\ x # e
    BY <1>1, <1>3, <2>2 DEF Referenced
  <2>3. CASE t = e /\ x = e
    BY <1>1, <1>3, <2>3
  <2> QED
    BY <2>1, <2>2, <2>3
<1>4. Linked(put)
  <2> SUFFICES ASSUME NEW x \in Entities, put[x].there
               PROVE  Refers(put, put[x])
    BY DEF Linked
  <2>1. Refers(db, put[x])
    BY <1>1 DEF DbSound, Linked
  <2>2. put[x].gmina \in Entities \cup {Null} /\ put[x].org \in Entities \cup {Null}
    BY <1>2, RowFields DEF Typed, Entities
  <2> QED
    BY <1>3, <2>1, <2>2 DEF Refers
<1>5. Followed(put, behind)
  <2> SUFFICES ASSUME NEW u \in Users \ behind, put[u].there, put[u].org # Null
               PROVE  put[put[u].org].gmina = put[u].gmina
    BY DEF Followed
  <2>1. u \in Users \ behind /\ u \in Entities /\ put[u].org \in Orgs /\ put[u].org \in Entities
    BY <1>2, RowFields DEF Typed, Entities
  <2>2. put[u].org # u
    BY <2>1, KeysAreApart
  <2>3. CASE u = e
    BY <1>1, <2>1, <2>2, <2>3
  <2>4. CASE u # e /\ put[u].org # e
    BY <1>1, <2>1, <2>4 DEF DbSound, Followed
  <2>5. CASE u # e /\ put[u].org = e
    <3>1. db[u].there /\ db[u].org = e /\ db[e].gmina = db[u].gmina
      BY <1>1, <2>1, <2>5 DEF DbSound, Followed
    <3>2. db[e].there /\ e # Null
      BY <3>1, <2>1, KeysAreApart DEF DbSound, Linked, Refers
    <3>3. r.there
      BY <3>1, <2>1 DEF Referenced
    <3> QED
      BY <1>1, <2>1, <2>5, <3>1, <3>2, <3>3
  <2> QED
    BY <2>3, <2>4, <2>5
<1> QED
  BY <1>2, <1>4, <1>5 DEF DbSound

\* A member of an organization that moves.
LEMMA MemberMoved ==
    ASSUME NEW r \in UserRows, NEW g \in Gminas \cup {Null}, NEW next, next = [r EXCEPT !.gmina = g]
    PROVE  next \in UserRows /\ next.gmina = g /\ next.org = r.org
BY DEF UserRows

\* An organization is put elsewhere, and its members with it.
LEMMA MoveKeepsDb ==
    ASSUME NEW db, NEW behind, DbSound(db, behind), NEW o \in Orgs, db[o].there,
           NEW r \in RowsOf(o), r.there, Refers(db, r),
           NEW moved, moved \subseteq Members(db, o),
           \A u \in Members(db, o) \ (moved \cup behind) : db[u].gmina = r.gmina,
           NEW put, put = [WithMembers(db, moved, r.gmina) EXCEPT ![o] = r]
    PROVE  DbSound(put, behind)
<1>1. o \in Entities /\ \A u \in Users : u \in Entities /\ u # o
  BY KeysAreApart DEF Entities
<1>2. /\ db \in [Entities -> Row] /\ r \in Row /\ r.org = Null /\ r.gmina \in Gminas
      /\ \A x \in Entities : db[x] \in RowsOf(x)
  BY <1>1, RowFields, KeysAreApart DEF DbSound, Typed
<1>3. /\ put[o] = r /\ DOMAIN put = Entities
      /\ \A u \in moved : put[u] = [db[u] EXCEPT !.gmina = r.gmina]
      /\ \A x \in Entities \ (moved \cup {o}) : put[x] = db[x]
      /\ put = [x \in Entities |-> put[x]]
  BY <1>1 DEF WithMembers, Members
<1>4. ASSUME NEW u \in moved
      PROVE  /\ u \in Users /\ db[u].there /\ db[u].org = o
             /\ put[u] \in UserRows /\ put[u] \in Row /\ put[u] \in RowsOf(u)
             /\ put[u].gmina = r.gmina /\ put[u].org = o /\ put[u].there
  <2>1. u \in Users /\ db[u] \in UserRows /\ db[u].there /\ db[u].org = o
    BY <1>1, <1>2, RowFields DEF Members
  <2>2. put[u] = [db[u] EXCEPT !.gmina = r.gmina]
    BY <1>3
  <2>3. put[u] \in UserRows /\ put[u].gmina = r.gmina /\ put[u].org = o
    BY <1>2, <2>1, <2>2, MemberMoved
  <2> QED
    BY <1>1, <2>1, <2>3, UserRowFields, RowsOfKinds
<1>5. Typed(put)
  <2>1. \A x \in Entities : put[x] \in Row /\ put[x] \in RowsOf(x)
    BY <1>2, <1>3, <1>4
  <2> QED
    BY <1>3, <2>1 DEF Typed
<1>6. \A x \in Entities : put[x].there <=> db[x].there
  <2>1. \A x \in Entities : x \in moved \/ x = o \/ put[x] = db[x]
    BY <1>3
  <2> QED
    BY <1>3, <1>4, <2>1
<1>7. Linked(put)
  <2> SUFFICES ASSUME NEW x \in Entities, put[x].there
               PROVE  Refers(put, put[x])
    BY DEF Linked
  <2>1. put[x].gmina \in Entities \cup {Null} /\ put[x].org \in Entities \cup {Null}
    BY <1>5, RowFields DEF Typed, Entities
  <2>2. Refers(db, put[x])
    <3>1. CASE x \in moved
      BY <1>2, <1>4, <3>1 DEF Refers
    <3>2. CASE x = o
      BY <1>3, <3>2
    <3>3. CASE x \notin moved /\ x # o
      BY <1>3, <3>3 DEF DbSound, Linked
    <3> QED
      BY <3>1, <3>2, <3>3
  <2> QED
    BY <1>6, <2>1, <2>2 DEF Refers
<1>8. Followed(put, behind)
  <2> SUFFICES ASSUME NEW u \in Users \ behind, put[u].there, put[u].org # Null
               PROVE  put[put[u].org].gmina = put[u].gmina
    BY DEF Followed
  <2>1. u \in Users \ behind /\ u \in Entities /\ u # o /\ put[u].org \in Orgs /\ put[u].org \in Entities
    BY <1>1, <1>5, RowFields DEF Typed, Entities
  <2>2. CASE u \in moved
    BY <1>3, <1>4, <2>2
  <2>4. CASE u \in Members(db, o) \ moved
    <3>1. put[u] = db[u] /\ db[u].org = o /\ db[u].gmina = r.gmina
      BY <1>3, <2>1, <2>4 DEF Members
    <3> QED
      BY <1>3, <3>1
  <2>3. CASE u \notin Members(db, o)
    <3>1. put[u] = db[u] /\ db[u].org # o
      BY <1>1, <1>3, <2>1, <2>3 DEF Members
    <3>2. put[u].org \notin Users /\ put[u].org \notin moved
      BY <2>1, KeysAreApart DEF Members
    <3>3. put[put[u].org] = db[put[u].org]
      BY <1>3, <2>1, <3>1, <3>2
    <3> QED
      BY <3>1, <3>3 DEF DbSound, Followed
  <2> QED
    BY <2>2, <2>3, <2>4
<1> QED
  BY <1>5, <1>7, <1>8 DEF DbSound
-----------------------------------------------------------------------------
(* Entries, and what it takes to undo one. *)

\* What an edit and its entry say of the two sides of a change.
Sides(e, action, before, after) ==
    /\ before \in RowsOf(e) /\ after \in RowsOf(e)
    /\ action \in Actions
    /\ e \in Places => action \in {"CREATE", "UPDATE", "DELETE"}
    /\ e \in Invites => action \in {"CREATE", "REVOKE", "REACTIVATE"}
    /\ action = "UPDATE" => before.there /\ after.there
    /\ e \in Places /\ action # "UPDATE" =>
        (before = Absent /\ after.there) \/ (before.there /\ after = Absent)

EntrySound(step) ==
    /\ step \in Entry
    /\ Sides(step.entity, step.action, step.before, step.after)
    /\ ~step.isRevert /\ step.entity \in Places =>
        /\ step.action = "CREATE" => step.after.there
        /\ step.action = "DELETE" => step.before.there

\* To undo it makes the record again; to undo it deletes a record that it
\* says was there.
Restores(step) == EffectiveAction(step) = "DELETE" /\ step.before.there
Redeletes(step) == EffectiveAction(step) = "CREATE" /\ step.before.there

LEMMA EntryFields ==
    ASSUME NEW step, EntrySound(step)
    PROVE  /\ step.entity \in Entities /\ step.before \in RowsOf(step.entity)
           /\ step.after \in RowsOf(step.entity)
           /\ step.isRevert \in BOOLEAN /\ step.reverted \in BOOLEAN
           /\ step.action \in Actions
BY DEF EntrySound, Entry, Sides

LEMMA EffectiveOnPlaces ==
    ASSUME NEW step, EntrySound(step), step.entity \in Places
    PROVE  /\ EffectiveAction(step) \in {"CREATE", "UPDATE", "DELETE"}
           /\ EffectiveAction(step) = "UPDATE" <=> step.action = "UPDATE"
           /\ step.isRevert => (EffectiveAction(step) = "CREATE" <=> step.action = "DELETE")
           /\ ~step.isRevert => EffectiveAction(step) = step.action
<1>1. step.action \in {"CREATE", "UPDATE", "DELETE"} /\ step.entity \notin Invites
  BY KeysAreApart DEF EntrySound, Sides, Places
<1> QED
  BY <1>1 DEF EffectiveAction, Opposite

LEMMA EffectiveOnInvites ==
    ASSUME NEW step, EntrySound(step), step.entity \in Invites, Revertible(step)
    PROVE  /\ step.action \in {"CREATE", "REVOKE"} /\ EffectiveAction(step) \in {"CREATE", "REVOKE"}
           /\ EffectiveAction(step) = "REVOKE" <=> ((step.action = "REVOKE") # step.isRevert)
<1>1. step.action \in {"CREATE", "REVOKE"}
  BY KeysAreApart DEF Revertible
<1>2. step.isRevert \in BOOLEAN
  BY EntryFields
<1> QED
  BY <1>1, <1>2 DEF EffectiveAction, Opposite

LEMMA UserUndone ==
    ASSUME NEW db, NEW view, NEW step, NEW actor, UndoUser(db, view, step, actor).ok
    PROVE  LET e == step.entity  to == step.before
           IN  /\ UndoUser(db, view, step, actor).db = [db EXCEPT ![e] = to]
               /\ Refers(db, to)
               /\ to.org # Null /\ view[to.org].there => view[to.org].gmina = to.gmina
<1>1. /\ UndoUser(db, view, step, actor).db = [db EXCEPT ![step.entity] = step.before]
      /\ Refers(db, step.before)
      /\ ~(step.before.org # Null
           /\ (view[step.before.org].there => view[step.before.org].gmina # step.before.gmina))
  BY DEF UndoUser, Unless, Refused, Undone
<1> QED
  BY <1>1

LEMMA CreationUndone ==
    ASSUME NEW db, NEW e, UndoCreation(db, e).ok
    PROVE  UndoCreation(db, e).db = [db EXCEPT ![e] = Absent] /\ db[e].there /\ ~Referenced(db, e)
BY DEF UndoCreation, Unless, Refused, Undone

LEMMA DeletionUndone ==
    ASSUME NEW db, NEW view, NEW e, NEW to, UndoDeletion(db, view, e, to).ok
    PROVE  /\ UndoDeletion(db, view, e, to).db = [db EXCEPT ![e] = to]
           /\ ~db[e].there /\ to.there /\ Refers(db, to)
BY DEF UndoDeletion, Unless, Refused, Undone

LEMMA RenameUndone ==
    ASSUME NEW db, NEW view, NEW step, UndoRename(db, view, step).ok
    PROVE  /\ UndoRename(db, view, step).db = [db EXCEPT ![step.entity] = step.before]
           /\ db[step.entity] = step.after
BY DEF UndoRename, Unless, Refused, Undone

\* The members that a reverted move takes along.
Carried(db, view, step) ==
    IF view[step.entity].gmina = step.before.gmina THEN {}
    ELSE Members(db, step.entity) \cap Members(view, step.entity)

LEMMA MoveUndone ==
    ASSUME NEW db, NEW view, NEW step, UndoMove(db, view, step).ok
    PROVE  /\ UndoMove(db, view, step).db
                = [WithMembers(db, Carried(db, view, step), step.before.gmina)
                      EXCEPT ![step.entity] = step.before]
           /\ db[step.entity] = step.after /\ Refers(db, step.before)
BY DEF UndoMove, Unless, Refused, Undone, Carried

LEMMA InviteUndone ==
    ASSUME NEW db, NEW view, NEW step, step.entity \in Invites, UndoInvite(db, view, step).ok
    PROVE  LET i == step.entity  held == view[i].state  now == db[i].state
           IN  /\ view[i].there /\ held # "USED"
               /\ EffectiveAction(step) # "CREATE" => held = "REVOKED"
               /\ UndoInvite(db, view, step).db
                    = [db EXCEPT ![i].state =
                          IF EffectiveAction(step) = "CREATE"
                          THEN IF held # "REVOKED" /\ now = "OPEN" THEN "REVOKED" ELSE now
                          ELSE IF now = "REVOKED" THEN "OPEN" ELSE now]
BY DEF UndoInvite, Unless, Refused, Undone

\* What a step that succeeds does to the rows, and whom it leaves behind.
StepDoes(db, step, next, behind) ==
    LET e == step.entity
    IN  /\ DbSound(next, behind)
        /\ \A x \in Entities \ {e} :
              /\ next[x] = db[x] \/ (e \in Orgs /\ x \in Members(db, e))
              /\ (next[x].there <=> db[x].there) /\ next[x].org = db[x].org
        /\ e \in Places => next[e] # Unborn
        /\ e \in Places /\ Redeletes(step) => next[e] = Absent
        /\ e \in Users \/ (e \in Places /\ ~Redeletes(step)) => next[e] = step.before
        /\ e \in Places => (Restores(step) <=> ~db[e].there)
        /\ e \in Invites \ behind =>
              /\ db[e].state # "USED"
              /\ next[e].state = "OPEN" <=> EffectiveAction(step) = "REVOKE"

LEMMA PutFrame ==
    ASSUME NEW db, Typed(db), NEW e \in Entities, NEW r, NEW put, put = [db EXCEPT ![e] = r]
    PROVE  put[e] = r /\ \A x \in Entities \ {e} : put[x] = db[x]
BY DEF Typed

LEMMA UndoDoes ==
    ASSUME NEW db, NEW behind, DbSound(db, behind), NEW view, NEW step, EntrySound(step),
           Revertible(step), NEW actor, Undo(db, view, step, actor).ok,
           NEW next, next = Undo(db, view, step, actor).db,
           NEW more, more = behind \cup Outrun(db, view, step)
    PROVE  StepDoes(db, step, next, more)
<1> DEFINE e == step.entity
           to == step.before
<1>0. Typed(db) /\ behind \subseteq more /\ DbSound(db, more)
  BY MoreBehind DEF DbSound
<1>o. /\ e \notin more => view[e] = db[e]
      /\ e \notin more /\ to.org # Null => view[to.org] = db[to.org]
      /\ \A x \in Members(db, e) \ more : view[x] = db[x] /\ view[e] = db[e]
  BY DEF Outrun
<1>1. /\ e \in Entities /\ to \in RowsOf(e) /\ db \in [Entities -> Row]
      /\ \A x \in Entities : db[x] \in RowsOf(x)
      /\ Absent \in RowsOf(e) /\ ~Absent.there
      /\ step.action = "UPDATE" => to.there /\ step.after.there
      /\ to.there => to # Unborn
  BY EntryFields, RowsOfKinds, AbsentFields DEF DbSound, Typed, EntrySound, Sides
<1>2. CASE e \in Users
  <2>1. e \notin Invites /\ e \notin Places /\ e \notin Orgs /\ e \notin Gminas
    BY <1>2, KeysAreApart DEF Places
  <2>2. Undo(db, view, step, actor) = UndoUser(db, view, step, actor)
    BY <1>2, <2>1 DEF Undo
  <2>3. next = [db EXCEPT ![e] = to] /\ Refers(db, to)
        /\ (to.org # Null /\ view[to.org].there => view[to.org].gmina = to.gmina)
    BY <1>2, <2>2, UserUndone
  <2>4. to.there
    BY <1>1, <1>2, KeysAreApart DEF Revertible
  <2>6. e \in Users \ more /\ to.there /\ to.org # Null => db[to.org].gmina = to.gmina
    BY <1>o, <2>3 DEF Refers
  <2>8. /\ DbSound(db, more) /\ e \in Entities /\ to \in RowsOf(e)
        /\ to.there => Refers(db, to)
        /\ to.there \/ ~Referenced(db, e)
        /\ e \in Orgs /\ to.there /\ db[e].there => to.gmina = db[e].gmina
    BY <1>0, <1>1, <2>1, <2>3, <2>4
  <2>9. next = [db EXCEPT ![e] = to]
    BY <2>3
  <2>5. DbSound(next, more)
    <3> HIDE DEF e, to
    <3> QED
      BY ONLY <2>6, <2>8, <2>9, PutKeepsDb
  <2>7. next[e] = to /\ \A x \in Entities \ {e} : next[x] = db[x]
    BY <1>0, <1>1, <2>3, PutFrame
  <2> HIDE DEF e, to
  <2> QED
    BY ONLY <1>2, <2>1, <2>5, <2>7 DEF StepDoes, e, to
<1>3. CASE e \in Invites
  <2>1. e \notin Users /\ e \notin Places /\ e \notin Orgs
    BY <1>3, KeysAreApart DEF Places
  <2>2. Undo(db, view, step, actor) = UndoInvite(db, view, step)
    BY <1>3, <2>1 DEF Undo
  <2> DEFINE held == view[e].state
             now == db[e].state
             st == IF EffectiveAction(step) = "CREATE"
                   THEN IF held # "REVOKED" /\ now = "OPEN" THEN "REVOKED" ELSE now
                   ELSE IF now = "REVOKED" THEN "OPEN" ELSE now
             r == [db[e] EXCEPT !.state = st]
  <2>3. /\ view[e].there /\ held # "USED" /\ (EffectiveAction(step) # "CREATE" => held = "REVOKED")
        /\ next = [db EXCEPT ![e].state = st]
    BY <1>3, <2>2, InviteUndone
  <2>4. next = [db EXCEPT ![e] = r]
    BY <2>3
  <2>5. /\ db[e] \in {Unborn, Absent} \cup InviteRows
        /\ db[e] \in InviteRows => now \in {"OPEN", "REVOKED", "USED", "EXPIRED"}
        /\ db[e] \notin InviteRows => now \in {"UNBORN", "NONE"} /\ ~db[e].there
    BY <1>1, <1>3, RowsOfKinds, AbsentFields, InviteRowFields
  <2>6. CASE db[e] \in InviteRows
    <3>1. st \in {"OPEN", "REVOKED", "USED", "EXPIRED"}
      BY <2>5, <2>6
    <3> HIDE DEF r, st
    <3>2. r \in InviteRows /\ r.state = st
      BY <2>6, <3>1, InviteTurned DEF r
    <3>3. r \in RowsOf(e) /\ r.there /\ Refers(db, r)
      BY <1>1, <1>3, <3>2, InviteRowFields, RowsOfKinds DEF Refers
    <3>4. DbSound(next, more)
      BY <1>0, <1>1, <2>1, <2>4, <3>3, PutKeepsDb
    <3>5. e \notin more => held = now
      BY <1>o
    <3>6. e \notin more => now # "USED" /\ (st = "OPEN" <=> EffectiveAction(step) = "REVOKE")
      BY <1>3, <2>3, <2>5, <2>6, <3>5, EffectiveOnInvites DEF st
    <3>7. next[e] = r /\ \A x \in Entities \ {e} : next[x] = db[x]
      BY <1>0, <1>1, <2>4, PutFrame
    <3>8. next[e].state = st
      BY <3>2, <3>7
    <3> HIDE DEF e, st
    <3> QED
      BY ONLY <2>1, <3>4, <3>6, <3>7, <3>8 DEF StepDoes, e
  <2>7. CASE db[e] \notin InviteRows
    <3>1. st = now
      BY <2>5, <2>7
    <3>2. r = db[e]
      <4>1. db[e] \in Row
        BY <1>1
      <4> QED
        BY <3>1, <4>1 DEF Row
    <3>3. next = db
      BY <1>1, <2>4, <3>2
    <3>4. DbSound(next, more)
      BY <1>0, <3>3
    <3>5. e \in more
      BY <1>o, <2>3, <2>5, <2>7
    <3> HIDE DEF e
    <3> QED
      BY ONLY <2>1, <3>3, <3>4, <3>5 DEF StepDoes, e
  <2> QED
    BY <2>6, <2>7
<1>4. CASE e \in Places
  <2>1. e \notin Users /\ e \notin Invites /\ Undo(db, view, step, actor) = UndoPlace(db, view, step)
    BY <1>4, KeysAreApart DEF Undo, Places
  <2>2. EffectiveAction(step) \in {"CREATE", "UPDATE", "DELETE"}
    BY <1>4, EffectiveOnPlaces
  <2>3. CASE EffectiveAction(step) = "CREATE"
    <3>1. next = [db EXCEPT ![e] = Absent] /\ db[e].there /\ ~Referenced(db, e)
      BY <2>1, <2>3, CreationUndone DEF UndoPlace
    <3>2. DbSound(next, more)
      BY <1>0, <1>1, <2>1, <3>1, PutKeepsDb
    <3>3. ~Restores(step) /\ (Redeletes(step) <=> to.there)
      BY <2>3 DEF Restores, Redeletes
    <3>4. ~to.there => to = Absent
      BY <1>4, <2>3, EffectiveOnPlaces DEF EntrySound, Sides
    <3>5. next[e] = Absent /\ Absent # Unborn /\ \A x \in Entities \ {e} : next[x] = db[x]
      BY <1>0, <1>1, <3>1, PutFrame, AbsentFields
    <3> HIDE DEF e, to
    <3> QED
      BY ONLY <2>1, <3>1, <3>2, <3>3, <3>4, <3>5 DEF StepDoes, e, to
  <2>4. CASE EffectiveAction(step) = "DELETE"
    <3>1. next = [db EXCEPT ![e] = to] /\ ~db[e].there /\ to.there /\ Refers(db, to)
      <4>1. Undo(db, view, step, actor) = UndoDeletion(db, view, e, to)
        BY <2>1, <2>4 DEF UndoPlace
      <4> QED
        BY <4>1, DeletionUndone
    <3>2. DbSound(next, more)
      BY <1>0, <1>1, <2>1, <3>1, PutKeepsDb
    <3>3. Restores(step) /\ ~Redeletes(step)
      BY <2>4, <3>1 DEF Restores, Redeletes
    <3>4. next[e] = to /\ to # Unborn /\ \A x \in Entities \ {e} : next[x] = db[x]
      BY <1>0, <1>1, <3>1, PutFrame
    <3> HIDE DEF e, to
    <3> QED
      BY ONLY <2>1, <3>1, <3>2, <3>3, <3>4 DEF StepDoes, e, to
  <2>5. CASE EffectiveAction(step) = "UPDATE"
    <3>1. ~Restores(step) /\ ~Redeletes(step) /\ to.there /\ step.after.there
      BY <1>1, <1>4, <2>5, EffectiveOnPlaces DEF Restores, Redeletes
    <3>2. CASE e \in Gminas
      <4>1. next = [db EXCEPT ![e] = to] /\ db[e].there
        BY <2>1, <2>5, <3>1, <3>2, RenameUndone DEF UndoPlace
      <4>2. e \notin Orgs /\ Refers(db, to)
        BY <1>1, <3>2, RowFields, KeysAreApart DEF Refers
      <4>3. DbSound(next, more)
        BY <1>0, <1>1, <2>1, <3>1, <4>1, <4>2, PutKeepsDb
      <4>4. next[e] = to /\ to # Unborn /\ \A x \in Entities \ {e} : next[x] = db[x]
        BY <1>0, <1>1, <3>1, <4>1, PutFrame
      <4> HIDE DEF e, to
      <4> QED
        BY ONLY <2>1, <3>1, <4>1, <4>3, <4>4 DEF StepDoes, e, to
    <3>3. CASE e \in Orgs
      <4>1. e \notin Gminas
        BY <3>3, KeysAreApart
      <4>2. /\ next = [WithMembers(db, Carried(db, view, step), to.gmina) EXCEPT ![e] = to]
            /\ db[e].there /\ Refers(db, to)
        BY <2>1, <2>5, <3>1, <4>1, MoveUndone DEF UndoPlace
      <4>m. PICK moved : moved = Carried(db, view, step)
        OBVIOUS
      <4>n. /\ next = [WithMembers(db, moved, to.gmina) EXCEPT ![e] = to]
            /\ moved \subseteq Members(db, e)
        BY <4>2, <4>m DEF Carried
      <4>6. ASSUME NEW u \in Members(db, e) \ (moved \cup more)
            PROVE  db[u].gmina = to.gmina
        <5>1. view[u] = db[u] /\ view[e] = db[e]
          BY <1>o, <4>6
        <5>2. u \in Members(view, e)
          BY <4>6, <5>1 DEF Members
        <5>3. view[e].gmina = to.gmina
          BY <4>6, <4>m, <5>2 DEF Carried
        <5>4. db[e].gmina = db[u].gmina
          <6>1. u \in Users \ more /\ db[u].there /\ db[u].org = e
            BY <1>0, <4>6 DEF Members
          <6>2. db[u].org # Null
            BY <1>1, <6>1, KeysAreApart
          <6> QED
            BY <6>1, <6>2 DEF DbSound, Followed
        <5> QED
          BY <5>1, <5>3, <5>4
      <4>8. \A u \in Members(db, e) \ (moved \cup more) : db[u].gmina = to.gmina
        BY <4>6
      <4>9. db[e].there /\ Refers(db, to) /\ to \in RowsOf(e) /\ DbSound(db, more)
        BY <1>0, <1>1, <4>2
      <4>3. DbSound(next, more)
        <5> HIDE DEF e, to
        <5> QED
          BY ONLY <3>1, <3>3, <4>n, <4>8, <4>9, MoveKeepsDb
      <4>4. next[e] = to
        BY <1>1, <4>n DEF WithMembers
      <4>5. ASSUME NEW x \in Entities \ {e}
            PROVE  /\ next[x] = db[x] \/ x \in Members(db, e)
                   /\ (next[x].there <=> db[x].there) /\ next[x].org = db[x].org
        <5>1. CASE x \in moved
          <6>1. next[x] = [db[x] EXCEPT !.gmina = to.gmina] /\ x \in Users /\ x \in Members(db, e)
            BY <4>n, <5>1 DEF WithMembers, Members
          <6>2. db[x] \in UserRows
            BY <1>1, <6>1, RowFields DEF Members
          <6>3. to.gmina \in Gminas \cup {Null}
            BY <1>1, RowFields
          <6> QED
            BY <5>1, <6>1, <6>2, <6>3, MemberMoved, UserRowFields
        <5>2. CASE x \notin moved
          <6>1. next[x] = db[x]
            BY <1>1, <4>n, <5>2 DEF WithMembers
          <6> QED
            BY <6>1
        <5> QED
          BY <5>1, <5>2
      <4>7. to # Unborn
        BY <1>1, <3>1
      <4> HIDE DEF e, to
      <4> QED
        BY ONLY <2>1, <3>1, <3>3, <4>2, <4>3, <4>4, <4>5, <4>7 DEF StepDoes, e, to
    <3> QED
      BY <1>4, <3>2, <3>3 DEF Places
  <2> QED
    BY <2>2, <2>3, <2>4, <2>5
<1> QED
  BY <1>1, <1>2, <1>3, <1>4 DEF Entities, Places
-----------------------------------------------------------------------------
(* The inductive invariant. *)

At(s, e, phase) == edit[s].phase = phase /\ edit[s].entity = e

EntriesAreSound == \A k \in DOMAIN log : EntrySound(log[k])

EditSound(s) ==
    LET e == edit[s].entity
    IN  /\ \E request \in EditsOf(e) :
              /\ edit[s].action = request.action
              /\ edit[s].field = request.want.field /\ edit[s].to = request.want.to
        /\ edit[s].before \in RowsOf(e)
        /\ edit[s].action = "CREATE" => edit[s].before = Absent
        /\ edit[s].action # "CREATE" => edit[s].before.there
        /\ edit[s].phase = "done" => Sides(e, edit[s].action, edit[s].before, edit[s].after)

EditsAreSound == \A s \in Slots : edit[s] # NoEdit => edit[s].phase # "idle" /\ EditSound(s)

\* A record that was never made has no entry.
UnbornHasNoPast ==
    \A e \in Places : row[e] = Unborn =>
        /\ \A k \in DOMAIN log : log[k].entity # e
        /\ \A s \in Slots : ~At(s, e, "done")

\* The entries of a record that nobody has reverted, and the newest of them,
\* which every revert starts with.
Standing(e) == {j \in DOMAIN log : log[j].entity = e /\ ~log[j].reverted}
OnTop(e, j) == j \in Standing(e) /\ \A i \in Standing(e) : i <= j

DeletionPending(e) == \E s \in Slots : At(s, e, "done") /\ edit[s].action = "DELETE"

\* The record is not there, and what a revert would undo first does not bring
\* it back: every revert of it is refused.
Blocked(e) == ~row[e].there /\ \E j \in DOMAIN log : OnTop(e, j) /\ ~Restores(log[j])

OneDeletion ==
    \A s, t \in Slots :
        /\ edit[s].entity \notin overtaken
        /\ edit[s].phase = "done" /\ edit[t].phase = "done" /\ edit[s].entity = edit[t].entity
        /\ edit[s].entity \in Places /\ edit[s].action = "DELETE" /\ edit[t].action = "DELETE"
        => s = t

\* The newest entry of a record that is there, or whose deletion has not been
\* recorded yet, does not restore it.  Where a revert's revert has deleted a
\* record, or something stands above what would restore it, no revert succeeds
\* any more.  A record whose revert was overtaken is left out.
DeadEnds ==
    \A e \in Places \ overtaken :
        /\ row[e].there \/ DeletionPending(e) => \A j \in DOMAIN log : OnTop(e, j) => ~Restores(log[j])
        /\ DeletionPending(e) => ~row[e].there
        /\ \A j \in Standing(e) : Redeletes(log[j]) \/ (Restores(log[j]) /\ ~OnTop(e, j))
              => Blocked(e) /\ ~DeletionPending(e)

Newest(e, j) == j \in DOMAIN log /\ log[j].entity = e
                /\ \A i \in DOMAIN log : log[i].entity = e => i <= j

\* A transaction that reverts a record.
Reverted(r, e) == revert[r].open /\ log[revert[r].k].entity = e

\* The entries that a revert of the k-th one has found.
ChainSound(k, chain) ==
    /\ k \in DOMAIN log /\ k \in chain /\ chain \subseteq DOMAIN log
    /\ \A j \in chain : j >= k /\ log[j].entity = log[k].entity /\ Revertible(log[j])

RevertsAreSound ==
    \A r \in Reverts : revert[r].open => ChainSound(revert[r].k, revert[r].chain)

\* Nothing else goes on with a record that is being reverted, and its chain is
\* still the one that was found, as long as "told" is to hold.
ToldAlone ==
    \A e \in Entities \ Invites : told[e] =>
        \A r \in Reverts : Reverted(r, e) =>
            /\ \A s \in Slots : ~(edit[s].phase # "idle" /\ edit[s].entity = e)
            /\ \A q \in Reverts : Reverted(q, e) => q = r
            /\ revert[r].chain = Chain(revert[r].k)

\* What "told" stands for.
ToldAsItIs ==
    \A e \in Entities \ Invites : told[e] =>
        /\ \A s, t \in Slots : edit[s].phase # "idle" /\ edit[t].phase # "idle"
              /\ edit[s].entity = e /\ edit[t].entity = e => s = t
        /\ \A s \in Slots : At(s, e, "done") => edit[s].after = row[e]
        /\ (\A s \in Slots : ~At(s, e, "done")) =>
              \A j \in DOMAIN log : Newest(e, j) => row[e] = log[j].after

AuditInv ==
    /\ TypeOK /\ DbSound(row, overtaken) /\ EntriesAreSound /\ EditsAreSound /\ RevertsAreSound
    /\ UnbornHasNoPast /\ OneDeletion /\ DeadEnds /\ ToldAsItIs /\ ToldAlone

-----------------------------------------------------------------------------
(* The steps of a revert. *)

\* An entry that is no longer to be undone.
Marked(step) == [step EXCEPT !.reverted = TRUE]

\* Which entries the steps have come to, when they have come down to c.
Passed(chain, c) == {j \in chain : j >= c}

LastPassed(chain, c, s) == s \in Passed(chain, c) /\ \A j \in Passed(chain, c) : s <= j

\* The chain is still what it was, and no revert of the record was overtaken.
Fresh(k, chain) == chain = Chain(k) /\ log[k].entity \notin overtaken

\* What the last step has come to, s being the entry it has undone.
CameTo(k, chain, done, s) ==
    LET e == log[k].entity
    IN  /\ done.log[Len(done.log)] = RevertEntry(log[s])
        /\ e \in Users => done.db[e] = log[s].before
        /\ e \in Places /\ Fresh(k, chain) =>
              done.db[e] = log[s].before /\ ~Blocked(e) /\ ~DeletionPending(e)
        /\ e \in Invites \ done.outrun =>
              row[e].state # "USED" /\ (done.db[e].state = "OPEN" <=> EffectiveAction(log[s]) = "REVOKE")

\* What the steps leave when they have come down to c.
WalkInv(k, chain, c, done) ==
    LET e == log[k].entity
        m == Len(done.log)
    IN  /\ DbSound(done.db, done.outrun)
        /\ overtaken \subseteq done.outrun /\ done.outrun \subseteq Entities
        /\ done.log \in Seq(Entry) /\ m >= Len(log)
        /\ \A j \in DOMAIN log :
              done.log[j] = IF j \in Passed(chain, c) THEN Marked(log[j]) ELSE log[j]
        /\ \A j \in Len(log) + 1 .. m :
              /\ EntrySound(done.log[j]) /\ done.log[j].entity = e
              /\ done.log[j].isRevert /\ ~done.log[j].reverted
              /\ j # m /\ e \in Places /\ Fresh(k, chain) =>
                    ~Restores(done.log[j]) /\ ~Redeletes(done.log[j])
        /\ m = Len(log) + Cardinality(Passed(chain, c))
        /\ \A x \in Entities \ {e} :
              /\ done.db[x] = row[x] \/ (e \in Orgs /\ x \in Members(row, e))
              /\ (done.db[x].there <=> row[x].there) /\ done.db[x].org = row[x].org
        /\ Passed(chain, c) = {} => done.db = row
        /\ Passed(chain, c) # {} /\ e \in Places => done.db[e] # Unborn
        /\ \A s \in Passed(chain, c) : LastPassed(chain, c, s) => CameTo(k, chain, done, s)

LEMMA Appended ==
    ASSUME NEW S, NEW s \in Seq(S), NEW x \in S, NEW out, out = Append(s, x)
    PROVE  /\ out \in Seq(S) /\ Len(out) = Len(s) + 1 /\ out[Len(s) + 1] = x
           /\ \A i \in 1 .. Len(s) : out[i] = s[i]
<1>1. out \in Seq(S)
  OBVIOUS
<1>2. Len(out) = Len(s) + 1
  OBVIOUS
<1>3. out[Len(s) + 1] = x
  OBVIOUS
<1>4. \A i \in 1 .. Len(s) : out[i] = s[i]
  OBVIOUS
<1> QED
  BY <1>1, <1>2, <1>3, <1>4

\* One entry is marked, and the revert's own is added.
LogStep(lg, j, entry) == Append([lg EXCEPT ![j].reverted = TRUE], entry)

LEMMA LogAfterStep ==
    ASSUME NEW lg \in Seq(Entry), NEW j \in 1 .. Len(lg), NEW entry \in Entry
    PROVE  /\ LogStep(lg, j, entry) \in Seq(Entry)
           /\ Len(LogStep(lg, j, entry)) = Len(lg) + 1
           /\ LogStep(lg, j, entry)[Len(lg) + 1] = entry
           /\ LogStep(lg, j, entry)[j] = Marked(lg[j])
           /\ \A i \in 1 .. Len(lg) : i # j => LogStep(lg, j, entry)[i] = lg[i]
<1> DEFINE out == LogStep(lg, j, entry)
<1>1. ASSUME NEW x \in Entry
      PROVE  Marked(x) \in Entry
  BY DEF Entry, Marked
<1> DEFINE new == Marked(lg[j])
<1>5. new \in Entry
  <2>1. lg[j] \in Entry
    OBVIOUS
  <2> QED
    BY <2>1, <1>1
<1> DEFINE marked == [lg EXCEPT ![j] = new]
<1>2. marked \in Seq(Entry) /\ Len(marked) = Len(lg)
  BY <1>5
<1>3. marked[j] = new /\ \A i \in 1 .. Len(lg) : i # j => marked[i] = lg[i]
  OBVIOUS
<1>4. out = Append(marked, entry)
  BY DEF Marked, LogStep
<1> HIDE DEF marked
<1> HIDE DEF out
<1>6. /\ out \in Seq(Entry) /\ Len(out) = Len(marked) + 1 /\ out[Len(marked) + 1] = entry
      /\ \A i \in 1 .. Len(marked) : out[i] = marked[i]
  BY ONLY <1>2, <1>4, Appended, entry \in Entry
<1>7. out[j] = new
  BY <1>2, <1>3, <1>6
<1> QED
  BY <1>2, <1>3, <1>6, <1>7 DEF out

\* An entry of a revert that would restore the record, or delete it, undoes an
\* entry that had no row before it.
LEMMA RevertEntrySound ==
    ASSUME NEW step, EntrySound(step), NEW entry, entry = RevertEntry(step)
    PROVE  /\ EntrySound(entry) /\ entry.entity = step.entity
           /\ entry.isRevert /\ ~entry.reverted /\ entry.after = step.before
           /\ step.entity \in Places /\ (Restores(entry) \/ Redeletes(entry)) => ~step.before.there
<1>1. /\ entry \in Entry /\ entry.entity = step.entity /\ entry.action = step.action
      /\ entry.isRevert /\ ~entry.reverted /\ entry.after = step.before /\ entry.before = step.after
  BY DEF RevertEntry, EntrySound, Entry
<1>2. EntrySound(entry)
  BY <1>1 DEF EntrySound, Sides
<1>3. ASSUME step.entity \in Places, Restores(entry) \/ Redeletes(entry)
      PROVE  ~step.before.there
  <2>1. EffectiveAction(entry) # "UPDATE" /\ entry.before.there
    BY <1>3 DEF Restores, Redeletes
  <2>2. step.action # "UPDATE" /\ step.after.there
    BY <1>1, <1>2, <1>3, <2>1, EffectiveOnPlaces
  <2> QED
    BY <1>3, <2>2, AbsentFields DEF EntrySound, Sides
<1> QED
  BY <1>1, <1>2, <1>3
LEMMA ChainStands ==
    ASSUME NEW k \in DOMAIN log, log \in Seq(Entry)
    PROVE  /\ Chain(k) = {j \in Standing(log[k].entity) : j >= k} /\ Chain(k) \subseteq 1 .. Len(log)
           /\ IsFiniteSet(Chain(k))
<1>1. k \in 1 .. Len(log) /\ DOMAIN log = 1 .. Len(log) /\ Len(log) \in Nat
  OBVIOUS
<1>2. Chain(k) \subseteq 1 .. Len(log)
  BY <1>1 DEF Chain
<1>3. Chain(k) = {j \in Standing(log[k].entity) : j >= k}
  BY <1>1 DEF Chain, Standing
<1>4. IsFiniteSet(1 .. Len(log))
  BY <1>1, FS_Interval
<1> QED
  BY <1>2, <1>3, <1>4, FS_Subset

LEMMA ChainFacts ==
    ASSUME NEW k, NEW chain, ChainSound(k, chain), log \in Seq(Entry)
    PROVE  /\ k \in 1 .. Len(log) /\ chain \subseteq 1 .. Len(log) /\ IsFiniteSet(chain)
           /\ Len(log) \in Nat /\ DOMAIN log = 1 .. Len(log)
<1>1. DOMAIN log = 1 .. Len(log) /\ Len(log) \in Nat
  OBVIOUS
<1>2. k \in 1 .. Len(log) /\ chain \subseteq 1 .. Len(log)
  BY <1>1 DEF ChainSound
<1>3. IsFiniteSet(1 .. Len(log))
  BY <1>1, FS_Interval
<1> QED
  BY <1>1, <1>2, <1>3, FS_Subset

\* One step down keeps what the steps have left.
LEMMA StepKeepsWalk ==
    ASSUME AuditInv, NEW k, NEW chain, ChainSound(k, chain), NEW actor, NEW read,
           NEW j \in chain, NEW done, WalkInv(k, chain, j + 1, done),
           NEW next, next = StepBack(done, j, read, actor), next.ok
    PROVE  WalkInv(k, chain, j, next)
<1> DEFINE e == log[k].entity
           step == log[j]
           entry == RevertEntry(log[j])
           m == Len(done.log)
<1>1. /\ log \in Seq(Entry) /\ j \in DOMAIN log /\ k \in Nat /\ j \in Nat /\ DOMAIN log = 1 .. Len(log)
      /\ Len(log) \in Nat /\ step.entity = e /\ chain \subseteq 1 .. Len(log) /\ k \in DOMAIN log
      /\ EntrySound(step) /\ Revertible(step)
  BY ChainFacts DEF AuditInv, TypeOK, EntriesAreSound, ChainSound
<1>v. PICK view : view = View(done, log[j].entity, read)
  OBVIOUS
<1>2. /\ Undo(done.db, view, step, actor).ok /\ next.db = Undo(done.db, view, step, actor).db
      /\ next.log = LogStep(done.log, j, entry)
      /\ next.outrun = done.outrun \cup Outrun(done.db, view, step)
  BY <1>v DEF StepBack, LogStep
<1>3. DbSound(done.db, done.outrun) /\ done.log \in Seq(Entry) /\ m \in Nat /\ m >= Len(log)
  BY DEF WalkInv
<1>4. StepDoes(done.db, step, next.db, next.outrun)
  BY <1>1, <1>2, <1>3, UndoDoes
<1>o. /\ done.outrun \subseteq next.outrun /\ overtaken \subseteq next.outrun
      /\ next.outrun \subseteq Entities
  <2>1. Outrun(done.db, view, step) \subseteq Entities
    <3>1. step.entity \in Entities /\ Members(done.db, step.entity) \subseteq Entities
      BY <1>1, EntryFields DEF Members, Entities
    <3> QED
      BY <3>1 DEF Outrun
  <2> QED
    BY <1>2, <2>1 DEF WalkInv
<1>5. /\ EntrySound(entry) /\ entry.entity = e /\ entry.isRevert /\ ~entry.reverted
      /\ entry.after = step.before
      /\ e \in Places /\ (Restores(entry) \/ Redeletes(entry)) => ~step.before.there
      /\ entry \in Entry
  BY <1>1, RevertEntrySound DEF EntrySound
<1>6. /\ next.log \in Seq(Entry) /\ Len(next.log) = m + 1 /\ next.log[m + 1] = entry
      /\ next.log[j] = Marked(done.log[j])
      /\ \A i \in 1 .. m : i # j => next.log[i] = done.log[i]
  <2> DEFINE out == LogStep(done.log, j, entry)
  <2>1. done.log \in Seq(Entry) /\ j \in 1 .. Len(done.log) /\ entry \in Entry
    BY <1>1, <1>3, <1>5
  <2> HIDE DEF entry
  <2>2. out \in Seq(Entry) /\ Len(out) = Len(done.log) + 1
    BY <2>1, LogAfterStep
  <2>4. out[Len(done.log) + 1] = entry
    BY <2>1, LogAfterStep
  <2>5. out[j] = Marked(done.log[j])
    BY <2>1, LogAfterStep
  <2>6. \A i \in 1 .. Len(done.log) : i # j => out[i] = done.log[i]
    BY <2>1, LogAfterStep
  <2>3. next.log = out
    BY <1>2 DEF entry
  <2> HIDE DEF out
  <2> QED
    BY <2>2, <2>3, <2>4, <2>5, <2>6
<1>7. /\ Passed(chain, j) = Passed(chain, j + 1) \cup {j} /\ j \notin Passed(chain, j + 1)
      /\ Passed(chain, j + 1) \subseteq chain
      /\ \A s \in Passed(chain, j) : LastPassed(chain, j, s) => s = j
      /\ \A s \in Passed(chain, j + 1) : s > j
  BY <1>1 DEF Passed, LastPassed
<1>8. /\ Cardinality(Passed(chain, j)) = Cardinality(Passed(chain, j + 1)) + 1
      /\ Cardinality(Passed(chain, j + 1)) \in Nat
  BY <1>1, <1>7, ChainFacts, FS_Subset, FS_AddElement, FS_CardinalityType
<1>18. m = Len(log) + Cardinality(Passed(chain, j + 1))
  BY DEF WalkInv
<1>9. Passed(chain, j + 1) # {} => \E s \in Passed(chain, j + 1) : LastPassed(chain, j + 1, s)
  <2>1. Passed(chain, j + 1) \subseteq 0 .. Len(log)
    BY <1>1, <1>7
  <2> QED
    BY <1>1, <2>1, LeastOf DEF LastPassed
\* While the chain is the one that was found, each of its entries stands.
<1>23. ASSUME e \in Places, Fresh(k, chain)
       PROVE  /\ ~Blocked(e) /\ ~DeletionPending(e)
              /\ ~Redeletes(step) /\ (Restores(step) => OnTop(e, j))
              /\ chain = {i \in Standing(e) : i >= k} /\ j \in Standing(e)
  <2>3. chain = {i \in Standing(e) : i >= k} /\ j \in Standing(e) /\ e \in Places \ overtaken
    BY <1>1, <1>23, ChainStands DEF Fresh
  <2>1. CASE Passed(chain, j + 1) # {}
    <3>1. PICK s \in Passed(chain, j + 1) : LastPassed(chain, j + 1, s)
      BY <1>9, <2>1
    <3>2. CameTo(k, chain, done, s)
      BY <3>1 DEF WalkInv
    <3>3. ~Blocked(e) /\ ~DeletionPending(e)
      BY <1>23, <3>2 DEF CameTo
    <3> QED
      BY <2>3, <3>3 DEF AuditInv, DeadEnds
  <2>2. CASE Passed(chain, j + 1) = {}
    <3>1. done.db = row
      BY <2>2 DEF WalkInv
    <3>2. OnTop(e, j)
      BY <1>1, <2>2, <2>3 DEF OnTop, Passed, Standing
    <3>3. Restores(step) <=> ~row[e].there
      BY <1>1, <1>4, <1>23, <3>1 DEF StepDoes
    <3>4. ASSUME NEW i \in DOMAIN log, OnTop(e, i)
          PROVE  i = j
      BY <1>1, <3>2, <3>4 DEF OnTop, Standing
    <3>5. ~Blocked(e)
      BY <3>3, <3>4 DEF Blocked
    <3>6. ~DeletionPending(e)
      BY <1>1, <2>3, <3>2, <3>3 DEF AuditInv, DeadEnds
    <3> QED
      BY <2>3, <3>5, <3>6 DEF AuditInv, DeadEnds
  <2> QED
    BY <2>1, <2>2
<1>12. /\ e \in Users => next.db[e] = step.before
       /\ e \in Places => next.db[e] # Unborn
       /\ e \in Places /\ Fresh(k, chain) => next.db[e] = step.before
  BY <1>1, <1>4, <1>23 DEF StepDoes
<1>13. e \in Invites \ next.outrun => row[e].state # "USED"
  <2>1. CASE Passed(chain, j + 1) # {}
    <3>1. PICK s \in Passed(chain, j + 1) : LastPassed(chain, j + 1, s)
      BY <1>9, <2>1
    <3>2. CameTo(k, chain, done, s)
      BY <3>1 DEF WalkInv
    <3> QED
      BY <1>o, <3>2 DEF CameTo
  <2>2. CASE Passed(chain, j + 1) = {}
    <3>1. done.db = row
      BY <2>2 DEF WalkInv
    <3> QED
      BY <1>1, <1>4, <3>1 DEF StepDoes
  <2> QED
    BY <2>1, <2>2
\* The entries above the last one neither restore nor delete the record again.
<1>14. ASSUME m > Len(log), e \in Places, Fresh(k, chain)
       PROVE  ~Restores(done.log[m]) /\ ~Redeletes(done.log[m])
  <2>1. Passed(chain, j + 1) # {}
    <3>1. Cardinality(Passed(chain, j + 1)) # 0
      BY ONLY <1>1, <1>14, <1>18
    <3> QED
      BY <3>1, FS_EmptySet
  <2>2. PICK s \in Passed(chain, j + 1) : LastPassed(chain, j + 1, s)
    BY <1>9, <2>1
  <2>7. CameTo(k, chain, done, s)
    BY <2>2 DEF WalkInv
  <2>3. /\ done.log[m] = RevertEntry(log[s]) /\ done.db[e] = log[s].before
        /\ s \in DOMAIN log /\ s \in Standing(e) /\ s > j
    BY <1>1, <1>7, <1>14, <1>23, <2>2, <2>7 DEF CameTo, ChainSound
  <2>4. ~Restores(step)
    BY <1>1, <1>14, <1>23, <2>3 DEF OnTop
  <2>5. done.db[e].there
    BY <1>1, <1>4, <1>14, <2>4 DEF StepDoes
  <2>6. EntrySound(log[s]) /\ log[s].entity = e
    BY <2>3 DEF AuditInv, EntriesAreSound, Standing
  <2> QED
    BY <1>14, <2>3, <2>5, <2>6, RevertEntrySound
<1>15. ASSUME NEW i \in DOMAIN log
       PROVE  next.log[i] = IF i \in Passed(chain, j) THEN Marked(log[i]) ELSE log[i]
  <2>1. i \in 1 .. m
    BY <1>1, <1>3
  <2>2. CASE i = j
    <3>1. done.log[j] = log[j]
      BY <1>1, <1>7 DEF WalkInv
    <3> QED
      BY <1>6, <1>7, <2>2, <3>1
  <2>3. CASE i # j
    BY <1>6, <1>7, <2>1, <2>3 DEF WalkInv
  <2> QED
    BY <2>2, <2>3
<1>16. ASSUME NEW i \in Len(log) + 1 .. Len(next.log)
       PROVE  /\ EntrySound(next.log[i]) /\ next.log[i].entity = e
              /\ next.log[i].isRevert /\ ~next.log[i].reverted
              /\ i # Len(next.log) /\ e \in Places /\ Fresh(k, chain) =>
                    ~Restores(next.log[i]) /\ ~Redeletes(next.log[i])
  <2>1. CASE i = m + 1
    BY <1>5, <1>6, <2>1
  <2>2. CASE i # m + 1
    <3>1. i \in 1 .. m /\ i \in Len(log) + 1 .. m /\ i # j /\ m > Len(log)
      BY <1>1, <1>3, <1>6, <1>16, <2>2
    <3>2. next.log[i] = done.log[i]
      BY <1>6, <3>1
    <3>3. /\ EntrySound(done.log[i]) /\ done.log[i].entity = e
          /\ done.log[i].isRevert /\ ~done.log[i].reverted
          /\ i # m /\ e \in Places /\ Fresh(k, chain) =>
                ~Restores(done.log[i]) /\ ~Redeletes(done.log[i])
      BY <3>1 DEF WalkInv
    <3> QED
      BY <1>14, <3>1, <3>2, <3>3
  <2> QED
    BY <2>1, <2>2
<1>17. ASSUME NEW x \in Entities \ {e}
       PROVE  /\ next.db[x] = row[x] \/ (e \in Orgs /\ x \in Members(row, e))
              /\ (next.db[x].there <=> row[x].there) /\ next.db[x].org = row[x].org
  <2>1. /\ done.db[x] = row[x] \/ (e \in Orgs /\ x \in Members(row, e))
        /\ (done.db[x].there <=> row[x].there) /\ done.db[x].org = row[x].org
    BY DEF WalkInv
  <2>2. /\ next.db[x] = done.db[x] \/ (e \in Orgs /\ x \in Members(done.db, e))
        /\ (next.db[x].there <=> done.db[x].there) /\ next.db[x].org = done.db[x].org
    BY <1>1, <1>4 DEF StepDoes
  <2>3. x \in Members(done.db, e) => x \in Members(row, e)
    BY <2>1 DEF Members
  <2> QED
    BY <2>1, <2>2, <2>3
<1>19. Len(next.log) = Len(log) + Cardinality(Passed(chain, j)) /\ Len(next.log) >= Len(log)
  <2>1. /\ Len(log) \in Nat /\ Cardinality(Passed(chain, j + 1)) \in Nat /\ m \in Nat
        /\ Len(next.log) = m + 1
    BY <1>1, <1>3, <1>6, <1>8
  <2> QED
    BY ONLY <2>1, <1>8, <1>18
<1>20. Passed(chain, j) # {} /\ DbSound(next.db, next.outrun)
  BY <1>4, <1>7 DEF StepDoes
<1>21. e \in Invites \ next.outrun => (next.db[e].state = "OPEN" <=> EffectiveAction(step) = "REVOKE")
  BY <1>1, <1>4 DEF StepDoes
<1>22. ASSUME NEW s \in Passed(chain, j), LastPassed(chain, j, s)
       PROVE  CameTo(k, chain, next, s)
  <2>1. s = j
    BY <1>7, <1>22
  <2> QED
    BY <1>6, <1>12, <1>13, <1>21, <1>23, <2>1 DEF CameTo
<1> HIDE DEF entry, m
<1> QED
  BY <1>o, <1>6, <1>12, <1>15, <1>16, <1>17, <1>19, <1>20, <1>22 DEF WalkInv

LEMMA WalkStarts ==
    ASSUME AuditInv, NEW k, NEW chain, ChainSound(k, chain)
    PROVE  WalkInv(k, chain, Len(log) + 1, AtFirst)
<1>1. log \in Seq(Entry) /\ Len(log) \in Nat /\ DbSound(row, overtaken) /\ overtaken \subseteq Entities
  BY DEF AuditInv, TypeOK
<1>2. Passed(chain, Len(log) + 1) = {}
  BY <1>1, ChainFacts DEF Passed
<1>3. Cardinality(Passed(chain, Len(log) + 1)) = 0
  BY <1>2, FS_EmptySet
<1>4. AtFirst.db = row /\ AtFirst.log = log /\ AtFirst.outrun = overtaken
  BY DEF AtFirst
<1>5. \A j \in Len(log) + 1 .. Len(AtFirst.log) : FALSE
  BY <1>1, <1>4
<1> QED
  BY <1>1, <1>2, <1>3, <1>4, <1>5 DEF WalkInv

LEMMA WalkGoesOn ==
    ASSUME AuditInv, NEW k, NEW chain, ChainSound(k, chain), NEW actor, NEW reads,
           NEW j \in Nat, NEW done, done.ok => WalkInv(k, chain, j + 1, done),
           NEW next, next = NextStep(chain, reads, actor, done, j), next.ok
    PROVE  WalkInv(k, chain, j, next)
<1>1. CASE done.ok /\ j \in chain
  <2>1. next = StepBack(done, j, reads[j], actor)
    BY <1>1 DEF NextStep
  <2>2. PICK read : read = reads[j]
    OBVIOUS
  <2> QED
    BY <1>1, <2>1, <2>2, StepKeepsWalk
<1>2. CASE ~(done.ok /\ j \in chain)
  <2>1. next = done /\ done.ok /\ j \notin chain
    BY <1>2 DEF NextStep
  <2>2. chain \subseteq Nat
    BY ChainFacts DEF AuditInv, TypeOK
  <2>3. Passed(chain, j) = Passed(chain, j + 1)
    <3>1. ASSUME NEW i \in chain
          PROVE  i >= j <=> i >= j + 1
      <4>1. i \in Nat /\ i # j
        BY <2>1, <2>2
      <4> QED
        BY <4>1
    <3> QED
      BY <3>1 DEF Passed
  <2>4. WalkInv(k, chain, j + 1, next)
    BY <2>1
  <2>5. \A s : LastPassed(chain, j, s) <=> LastPassed(chain, j + 1, s)
    BY <2>3 DEF LastPassed
  <2> QED
    BY <2>3, <2>4, <2>5 DEF WalkInv
<1> QED
  BY <1>1, <1>2

\* All the steps of a revert that goes through.
LEMMA RunStepsDo ==
    ASSUME AuditInv, NEW k, NEW chain, ChainSound(k, chain), NEW actor, NEW reads,
           RunSteps(k, chain, reads, actor).ok
    PROVE  WalkInv(k, chain, k, RunSteps(k, chain, reads, actor))
<1> DEFINE N == Len(log) - k + 1
           w == Rewind(k, chain, reads, actor)
           T == {n \in 0 .. N : w[n].ok => WalkInv(k, chain, Len(log) - n + 1, w[n])}
<1>1. log \in Seq(Entry) /\ Len(log) \in Nat /\ k \in 1 .. Len(log) /\ N \in Nat
  BY ChainFacts DEF AuditInv, TypeOK
<1>2. Walks(chain, reads, actor, w, N)
  BY <1>1, RewindWalks
<1>3. 0 \in T
  <2>1. w[0] = AtFirst
    BY <1>1, <1>2 DEF Walks
  <2>2. Len(log) - 0 + 1 = Len(log) + 1
    BY <1>1
  <2> HIDE DEF w
  <2> QED
    BY <1>1, <2>1, <2>2, WalkStarts
<1>4. ASSUME NEW n \in 0 .. N - 1, n \in T
      PROVE  n + 1 \in T
  <2> DEFINE j == Len(log) - n
  <2>1. /\ j \in Nat /\ j + 1 = Len(log) - n + 1 /\ j = Len(log) - (n + 1) + 1
        /\ n + 1 \in 0 .. N /\ n + 1 # 0 /\ (n + 1) - 1 = n
    BY <1>1
  <2>2. w[n + 1] = NextStep(chain, reads, actor, w[n], j)
    BY <1>2, <2>1 DEF Walks
  <2>3. w[n].ok => WalkInv(k, chain, j + 1, w[n])
    BY <1>4, <2>1
  <2> HIDE DEF w, j
  <2>4. w[n + 1].ok => WalkInv(k, chain, j, w[n + 1])
    BY <2>1, <2>2, <2>3, WalkGoesOn
  <2> QED
    BY <2>1, <2>4
<1>5. N \in T
  <2>1. N \in Nat /\ 0 \in T /\ \A n \in 0 .. N - 1 : n \in T => n + 1 \in T
    BY <1>1, <1>3, <1>4
  <2>2. N \in 0 .. N
    BY <1>1
  <2> HIDE DEF T, N
  <2> QED
    BY ONLY <2>1, <2>2, UpTo
<1> HIDE DEF T
<1>6. RunSteps(k, chain, reads, actor) = w[N] /\ Len(log) - N + 1 = k
  BY <1>1 DEF RunSteps
<1> QED
  BY <1>5, <1>6 DEF T

\* What a revert does, as seen from the entry that was asked for.
RevertMade(k, chain) ==
    LET e == log[k].entity
        last == Len(log')
    IN  /\ log \in Seq(Entry) /\ e \in Entities /\ ChainSound(k, chain)
        /\ DbSound(row', overtaken')
        /\ overtaken \subseteq overtaken' /\ overtaken' \subseteq Entities
        /\ e \notin overtaken' => Fresh(k, chain) /\ k \in Standing(e)
        /\ log' \in Seq(Entry) /\ last > Len(log) /\ last <= MaxLog
        /\ \A j \in DOMAIN log : log'[j] = IF j \in chain THEN Marked(log[j]) ELSE log[j]
        /\ \A j \in Len(log) + 1 .. last :
              /\ EntrySound(log'[j]) /\ log'[j].entity = e
              /\ log'[j].isRevert /\ ~log'[j].reverted
              /\ j # last /\ e \in Places /\ Fresh(k, chain) =>
                    ~Restores(log'[j]) /\ ~Redeletes(log'[j])
        /\ log'[last] = RevertEntry(log[k])
        /\ \A x \in Entities \ {e} :
              /\ row'[x] = row[x] \/ (e \in Orgs /\ x \in Members(row, e))
              /\ (row'[x].there <=> row[x].there) /\ row'[x].org = row[x].org
        /\ e \in Users => row'[e] = log[k].before
        /\ e \in Places => row'[e] # Unborn
        /\ e \in Places /\ Fresh(k, chain) =>
              row'[e] = log[k].before /\ ~Blocked(e) /\ ~DeletionPending(e)
        /\ e \in Invites \ overtaken' =>
              row[e].state # "USED" /\ (row'[e].state = "OPEN" <=> EffectiveAction(log[k]) = "REVOKE")

LEMMA RevertMakes ==
    ASSUME AuditInv, NEW r \in Reverts, CommitRevert(r)
    PROVE  RevertMade(revert[r].k, revert[r].chain)
<1>p. PICK k, chain, actor : k = revert[r].k /\ chain = revert[r].chain /\ actor = revert[r].actor
  OBVIOUS
<1>s. ChainSound(k, chain)
  BY <1>p DEF AuditInv, RevertsAreSound, CommitRevert
<1> DEFINE e == log[k].entity
<1>1. /\ log \in Seq(Entry) /\ Len(log) \in Nat /\ k \in 1 .. Len(log) /\ MaxLog \in Nat
      /\ EntrySound(log[k]) /\ DOMAIN log = 1 .. Len(log)
  BY <1>s, ChainFacts, BoundsAreNat DEF AuditInv, TypeOK, EntriesAreSound
<1>r. PICK reads : LET run == RunSteps(k, chain, reads, actor)
                   IN  /\ run.ok /\ row' = run.db /\ log' = run.log
                       /\ overtaken' = run.outrun \cup (IF chain = Chain(k) THEN {} ELSE {e})
  BY <1>p DEF CommitRevert
<1>n. PICK run : run = RunSteps(k, chain, reads, actor)
  OBVIOUS
<1>2. /\ Len(log) + Cardinality(chain) <= MaxLog
      /\ run.ok /\ row' = run.db /\ log' = run.log
      /\ overtaken' = run.outrun \cup (IF chain = Chain(k) THEN {} ELSE {e})
  BY <1>p, <1>r, <1>n DEF CommitRevert
<1>3. WalkInv(k, chain, k, run)
  BY <1>s, <1>2, <1>n, RunStepsDo
<1>4. Passed(chain, k) = chain /\ LastPassed(chain, k, k) /\ k \in chain
  BY <1>s, <1>1 DEF Passed, LastPassed, ChainSound
<1>5. Cardinality(chain) \in Nat /\ Cardinality(chain) # 0
  BY <1>1, <1>4, <1>s, ChainFacts, FS_CardinalityType, FS_EmptySet
<1>6. e \in Entities
  BY <1>1, EntryFields
<1>7. Len(log') = Len(log) + Cardinality(chain)
  BY <1>2, <1>3, <1>4 DEF WalkInv
<1>8. Len(log') > Len(log) /\ Len(log') <= MaxLog
  BY <1>1, <1>2, <1>5, <1>7
<1>9. CameTo(k, chain, run, k)
  BY <1>3, <1>4 DEF WalkInv
<1>10. /\ run.outrun \subseteq overtaken' /\ overtaken \subseteq overtaken' /\ overtaken' \subseteq Entities
       /\ DbSound(run.db, run.outrun)
  BY <1>2, <1>3, <1>6 DEF WalkInv
<1>11. DbSound(row', overtaken')
  <2>1. PICK db, outrun, over : db = run.db /\ outrun = run.outrun /\ over = overtaken'
    OBVIOUS
  <2>2. DbSound(db, over)
    BY ONLY <1>10, <2>1, MoreBehind
  <2> QED
    BY <1>2, <2>1, <2>2
<1>12. ASSUME e \notin overtaken'
       PROVE  Fresh(k, chain) /\ k \in Standing(e)
  <2>1. chain = Chain(k) /\ e \notin overtaken
    BY <1>2, <1>10, <1>12
  <2>2. k \in Standing(e)
    BY <1>1, <1>4, <2>1, ChainStands
  <2> QED
    BY <2>1, <2>2 DEF Fresh
<1>13. RevertMade(k, chain)
  BY <1>s, <1>1, <1>2, <1>3, <1>4, <1>6, <1>8, <1>9, <1>10, <1>11, <1>12 DEF WalkInv, CameTo, RevertMade
<1> QED
  BY <1>p, <1>13
-----------------------------------------------------------------------------
(* Edits. *)

\* A handler that finds its record, and what it makes of it.
LEMMA FoundRow ==
    ASSUME Typed(row), NEW e \in Entities, NEW action, Finds(e, action)
    PROVE  /\ row[e] \in RowsOf(e) /\ row[e] \in Row
           /\ action = "CREATE" => row[e] = Unborn
           /\ action # "CREATE" => row[e].there
           /\ action = "REVOKE" => row[e].state = "OPEN"
<1>1. row[e] \in RowsOf(e) /\ row[e] \in Row
  BY DEF Typed
<1>2. ~row[e].there => row[e].state \in {"NONE", "UNBORN"}
  BY <1>1, RowFields, AbsentFields
<1> QED
  BY <1>1, <1>2 DEF Finds

LEMMA AskGmina ==
    ASSUME NEW request \in GminaEdits
    PROVE  \/ /\ request.action = "CREATE" /\ request.want.field = "all"
              /\ request.want.to \in GminaRows /\ request.want.to.there
           \/ /\ request.action = "UPDATE" /\ request.want.field = "name"
              /\ \E n \in Names : request.want.to = [Absent EXCEPT !.there = TRUE, !.name = n]
           \/ request.action = "DELETE" /\ request.want.field = "all" /\ request.want.to = Absent
<1> DEFINE named == {[Absent EXCEPT !.there = TRUE, !.name = n] : n \in Names}
<1>1. \A r \in named : r \in GminaRows /\ r.there
  BY DEF GminaRows, Absent
<1>2. \/ request.action = "CREATE" /\ request.want.field = "all" /\ request.want.to \in named
      \/ request.action = "UPDATE" /\ request.want.field = "name" /\ request.want.to \in named
      \/ request.action = "DELETE" /\ request.want.field = "all" /\ request.want.to = Absent
  BY DEF GminaEdits, Put
<1> QED
  BY <1>1, <1>2

LEMMA AskOrg ==
    ASSUME NEW request \in OrgEdits
    PROVE  \/ /\ request.action = "CREATE" /\ request.want.field = "all"
              /\ request.want.to \in OrgRows /\ request.want.to.there
           \/ /\ request.action = "UPDATE" /\ request.want.field = "gmina"
              /\ \E g \in Gminas : request.want.to = [Absent EXCEPT !.there = TRUE, !.gmina = g]
           \/ request.action = "DELETE" /\ request.want.field = "all" /\ request.want.to = Absent
<1> DEFINE located == {[Absent EXCEPT !.there = TRUE, !.gmina = g] : g \in Gminas}
<1>1. \A r \in located : r \in OrgRows /\ r.there
  BY DEF OrgRows, Absent
<1>2. \/ request.action = "CREATE" /\ request.want.field = "all" /\ request.want.to \in located
      \/ request.action = "UPDATE" /\ request.want.field = "gmina" /\ request.want.to \in located
      \/ request.action = "DELETE" /\ request.want.field = "all" /\ request.want.to = Absent
  BY DEF OrgEdits, Put
<1> QED
  BY <1>1, <1>2

LEMMA AskUser ==
    ASSUME NEW request \in UserEdits
    PROVE  \/ /\ request.action = "UPDATE" /\ request.want.field = "place" /\ request.want.to \in Row
              /\ request.want.to.gmina \in Gminas \cup {Null} /\ request.want.to.org \in Orgs \cup {Null}
           \/ /\ request.action = "UPDATE" /\ request.want.field = "role" /\ request.want.to \in Row
              /\ request.want.to.role \in {"ADMIN", "VOLUNTEER"}
           \/ /\ request.action = "UPDATE" /\ request.want.field = "state" /\ request.want.to \in Row
              /\ request.want.to.state \in {"ACTIVE", "INACTIVE"}
           \/ request.action = "DELETE" /\ request.want.field = "all" /\ request.want.to = Absent
           \/ request.action = "UNLOCK" /\ request.want.field = "none" /\ request.want.to = Absent
<1> DEFINE placed == [there : {FALSE}, name : {Null}, gmina : Gminas \cup {Null}, org : Orgs \cup {Null},
                      role : {"NONE"}, state : {"NONE"}]
           roled == {[Absent EXCEPT !.role = r] : r \in {"ADMIN", "VOLUNTEER"}}
           stated == {[Absent EXCEPT !.state = s] : s \in {"ACTIVE", "INACTIVE"}}
<1>1. ASSUME NEW r \in placed
      PROVE  r \in Row /\ r.gmina \in Gminas \cup {Null} /\ r.org \in Orgs \cup {Null}
  BY DEF Row, States
<1>2. ASSUME NEW r \in roled
      PROVE  r \in Row /\ r.role \in {"ADMIN", "VOLUNTEER"}
  <2>1. PICK x \in {"ADMIN", "VOLUNTEER"} : r = [Absent EXCEPT !.role = x]
    OBVIOUS
  <2>2. r = [there |-> FALSE, name |-> Null, gmina |-> Null, org |-> Null, role |-> x, state |-> "NONE"]
    BY <2>1 DEF Absent
  <2> QED
    BY <2>2 DEF Row, States
<1>3. ASSUME NEW r \in stated
      PROVE  r \in Row /\ r.state \in {"ACTIVE", "INACTIVE"}
  <2>1. PICK x \in {"ACTIVE", "INACTIVE"} : r = [Absent EXCEPT !.state = x]
    OBVIOUS
  <2>2. r = [there |-> FALSE, name |-> Null, gmina |-> Null, org |-> Null, role |-> "NONE", state |-> x]
    BY <2>1 DEF Absent
  <2> QED
    BY <2>2 DEF Row, States
<1>4. \/ request.action = "UPDATE" /\ request.want.field = "place" /\ request.want.to \in placed
      \/ request.action = "UPDATE" /\ request.want.field = "role" /\ request.want.to \in roled
      \/ request.action = "UPDATE" /\ request.want.field = "state" /\ request.want.to \in stated
      \/ request.action = "DELETE" /\ request.want.field = "all" /\ request.want.to = Absent
      \/ request.action = "UNLOCK" /\ request.want.field = "none" /\ request.want.to = Absent
  BY DEF UserEdits, Put
<1> HIDE DEF placed, roled, stated
<1> QED
  BY <1>1, <1>2, <1>3, <1>4

LEMMA AskInvite ==
    ASSUME NEW request \in InviteEdits
    PROVE  \/ /\ request.action = "CREATE" /\ request.want.field = "all"
              /\ request.want.to \in InviteRows /\ request.want.to.there
           \/ /\ request.action \in {"REVOKE", "REACTIVATE"} /\ request.want.field = "state"
              /\ request.want.to \in Row
              /\ request.want.to.state \in {"OPEN", "REVOKED"}
<1> DEFINE open == [Absent EXCEPT !.there = TRUE, !.state = "OPEN"]
           isOpen == [Absent EXCEPT !.state = "OPEN"]
           isRevoked == [Absent EXCEPT !.state = "REVOKED"]
<1>1. open \in InviteRows /\ open.there
  BY DEF InviteRows, Absent
<1>2. isOpen \in Row /\ isOpen.state = "OPEN" /\ isRevoked \in Row /\ isRevoked.state = "REVOKED"
  BY DEF Row, States, Absent
<1>3. \/ request.action = "CREATE" /\ request.want.field = "all" /\ request.want.to = open
      \/ request.action = "REVOKE" /\ request.want.field = "state" /\ request.want.to = isRevoked
      \/ request.action = "REACTIVATE" /\ request.want.field = "state" /\ request.want.to = isOpen
  BY DEF InviteEdits, Put
<1> HIDE DEF open, isOpen, isRevoked
<1> QED
  BY <1>1, <1>2, <1>3

LEMMA AppliedIsSound ==
    ASSUME NEW e \in Entities, NEW request \in EditsOf(e), NEW r \in RowsOf(e),
           request.action = "CREATE" => r = Unborn,
           request.action # "CREATE" => r.there,
           NEW want, want.field = request.want.field, want.to = request.want.to
    PROVE  /\ Applied(r, want) \in RowsOf(e)
           /\ request.action = "DELETE" => Applied(r, want) = Absent
           /\ request.action # "DELETE" => Applied(r, want).there
           /\ request.action \in Actions /\ request.want.field \in Fields /\ request.want.to \in Row
           /\ e \in Places => request.action \in {"CREATE", "UPDATE", "DELETE"}
           /\ e \in Users => request.action \in {"UPDATE", "DELETE", "UNLOCK"}
           /\ e \in Invites => request.action \in {"CREATE", "REVOKE", "REACTIVATE"}
<1> DEFINE next == Applied(r, want)
<1>1. CASE e \in Gminas
  <2>1. e \notin Orgs /\ e \notin Users /\ e \notin Invites /\ request \in GminaEdits
    BY <1>1, KeysAreApart DEF EditsOf
  <2>2. CASE request.want.field = "all"
    <3>1. next = request.want.to
      BY <2>2 DEF Applied
    <3> QED
      BY <1>1, <2>1, <2>2, <3>1, AskGmina, RowsOfKinds, GminaRowFields, AbsentFields DEF Actions, Fields
  <2>3. CASE request.want.field = "name"
    <3>1. PICK n \in Names : request.want.to = [Absent EXCEPT !.there = TRUE, !.name = n]
      BY <2>1, <2>3, AskGmina
    <3>2. /\ request.action = "UPDATE" /\ next = [r EXCEPT !.name = want.to.name]
          /\ want.to.name = n /\ request.want.to \in GminaRows
      BY <2>1, <2>3, <3>1, AskGmina DEF Applied, Absent, GminaRows
    <3>3. r \in GminaRows /\ r.there
      BY <1>1, <3>2, RowsOfKinds, AbsentFields
    <3>4. PICK x \in Names : r = [Absent EXCEPT !.there = TRUE, !.name = x]
      BY <3>3, AbsentFields DEF GminaRows
    <3>5. next = [Absent EXCEPT !.there = TRUE, !.name = n]
      BY <3>2, <3>4 DEF Absent
    <3>6. next \in GminaRows /\ next.there
      BY <3>5 DEF GminaRows, Absent
    <3> QED
      BY <1>1, <2>1, <2>3, <3>2, <3>6, RowsOfKinds, GminaRowFields DEF Actions, Fields
  <2> QED
    BY <2>1, <2>2, <2>3, AskGmina
<1>2. CASE e \in Orgs
  <2>1. e \notin Gminas /\ e \notin Users /\ e \notin Invites /\ request \in OrgEdits
    BY <1>2, KeysAreApart DEF EditsOf
  <2>2. CASE request.want.field = "all"
    <3>1. next = request.want.to
      BY <2>2 DEF Applied
    <3> QED
      BY <1>2, <2>1, <2>2, <3>1, AskOrg, RowsOfKinds, OrgRowFields, AbsentFields DEF Actions, Fields
  <2>3. CASE request.want.field = "gmina"
    <3>1. PICK g \in Gminas : request.want.to = [Absent EXCEPT !.there = TRUE, !.gmina = g]
      BY <2>1, <2>3, AskOrg
    <3>2. /\ request.action = "UPDATE" /\ next = [r EXCEPT !.gmina = want.to.gmina]
          /\ want.to.gmina = g /\ request.want.to \in OrgRows
      BY <2>1, <2>3, <3>1, AskOrg DEF Applied, Absent, OrgRows
    <3>3. r \in OrgRows /\ r.there
      BY <1>2, <3>2, RowsOfKinds, AbsentFields
    <3>4. PICK x \in Gminas : r = [Absent EXCEPT !.there = TRUE, !.gmina = x]
      BY <3>3, AbsentFields DEF OrgRows
    <3>5. next = [Absent EXCEPT !.there = TRUE, !.gmina = g]
      BY <3>2, <3>4 DEF Absent
    <3>6. next \in OrgRows /\ next.there
      BY <3>5 DEF OrgRows, Absent
    <3> QED
      BY <1>2, <2>1, <2>3, <3>2, <3>6, RowsOfKinds, OrgRowFields DEF Actions, Fields
  <2> QED
    BY <2>1, <2>2, <2>3, AskOrg
<1>3. CASE e \in Users
  <2>1. e \notin Gminas /\ e \notin Orgs /\ e \notin Invites /\ request \in UserEdits
    BY <1>3, KeysAreApart DEF EditsOf
  <2>2. request.action # "CREATE" /\ request.action \in {"UPDATE", "DELETE", "UNLOCK"} /\ request.want.to \in Row
    BY <2>1, AskUser, AbsentFields
  <2>3. r \in UserRows
    BY <1>3, <2>2, RowFields
  <2>4. request.action # "DELETE" => next \in UserRows
    BY <2>1, <2>3, AskUser DEF Applied, UserRows
  <2>5. request.action = "DELETE" => next = Absent
    BY <2>1, AskUser DEF Applied
  <2>6. request.want.field \in Fields
    BY <2>1, AskUser DEF Fields
  <2> QED
    BY <1>3, <2>1, <2>2, <2>4, <2>5, <2>6, RowsOfKinds, UserRowFields DEF Actions, Places
<1>4. CASE e \in Invites
  <2>1. e \notin Gminas /\ e \notin Orgs /\ e \notin Users /\ request \in InviteEdits
    BY <1>4, KeysAreApart DEF EditsOf
  <2>2. /\ request.want.to \in Row /\ request.want.field \in Fields
        /\ request.action \in {"CREATE", "REVOKE", "REACTIVATE"}
    BY <2>1, AskInvite, InviteRowFields DEF Fields
  <2>5. next \in InviteRows
    <3>1. CASE request.action = "CREATE"
      BY <2>1, <3>1, AskInvite DEF Applied
    <3>2. CASE request.action # "CREATE"
      <4>1. r \in InviteRows
        BY <1>4, <3>2, RowFields
      <4>2. next = [r EXCEPT !.state = want.to.state] /\ want.to.state \in {"OPEN", "REVOKED"}
        BY <2>1, <3>2, AskInvite DEF Applied
      <4> HIDE DEF next
      <4> QED
        BY <4>1, <4>2, InviteTurned
    <3> QED
      BY <3>1, <3>2
  <2> QED
    BY <1>4, <2>1, <2>2, <2>5, RowsOfKinds, InviteRowFields DEF Actions, Places
<1> QED
  BY <1>1, <1>2, <1>3, <1>4 DEF Entities
-----------------------------------------------------------------------------
(* The invariant from step to step. *)

LEMMA NoEditFields ==
    ASSUME Entities # {}
    PROVE  NoEdit \in Edit /\ NoEdit.phase = "idle"
<1>1. (CHOOSE e \in Entities : TRUE) \in Entities
  OBVIOUS
<1> QED
  BY <1>1, AbsentFields DEF NoEdit, Edit, Actions, Fields

LEMMA NoRevertFields ==
    ASSUME Users # {}
    PROVE  NoRevert \in Reverting /\ ~NoRevert.open
<1>1. (CHOOSE u \in Users : TRUE) \in Users
  OBVIOUS
<1> QED
  BY <1>1, BoundsAreNat DEF NoRevert, Reverting

\* What an open transaction has seen is all that changes of it.
LEMMA PassingFields ==
    ASSUME revert \in [Reverts -> Reverting], NEW rows \in [Entities -> Row]
    PROVE  /\ Passing(rows) \in [Reverts -> Reverting]
           /\ \A r \in Reverts : /\ Passing(rows)[r].open = revert[r].open
                                /\ Passing(rows)[r].k = revert[r].k
                                /\ Passing(rows)[r].chain = revert[r].chain
<1>1. ASSUME NEW x \in Reverting, NEW next, next = [x EXCEPT !.past = @ \cup {rows}]
      PROVE  next \in Reverting /\ next.open = x.open /\ next.k = x.k /\ next.chain = x.chain
  BY <1>1 DEF Reverting
<1>2. ASSUME NEW r \in Reverts
      PROVE  /\ Passing(rows)[r] \in Reverting /\ Passing(rows)[r].open = revert[r].open
             /\ Passing(rows)[r].k = revert[r].k /\ Passing(rows)[r].chain = revert[r].chain
  <2>1. revert[r] \in Reverting
    OBVIOUS
  <2>2. Passing(rows)[r] = IF revert[r].open THEN [revert[r] EXCEPT !.past = @ \cup {rows}] ELSE revert[r]
    BY DEF Passing
  <2> QED
    BY <1>1, <2>1, <2>2
<1>3. Passing(rows) = [r \in Reverts |-> Passing(rows)[r]]
  BY DEF Passing
<1> QED
  BY <1>2, <1>3

\* No transaction has begun, and those that go on do what they had set out to.
StillOpen ==
    \A r \in Reverts : revert'[r].open =>
        revert[r].open /\ revert'[r].k = revert[r].k /\ revert'[r].chain = revert[r].chain

LEMMA RevertsGoOn ==
    ASSUME AuditInv, StillOpen,
           \A j \in DOMAIN log : /\ j \in DOMAIN log' /\ log'[j].entity = log[j].entity
                                /\ log'[j].action = log[j].action
    PROVE  RevertsAreSound'
<1> SUFFICES ASSUME NEW r \in Reverts, revert'[r].open
             PROVE  ChainSound(revert[r].k, revert[r].chain)'
  BY DEF RevertsAreSound
<1>1. PICK k, chain : k = revert[r].k /\ chain = revert[r].chain
  OBVIOUS
<1>2. k = revert'[r].k /\ chain = revert'[r].chain /\ ChainSound(k, chain)
  BY <1>1 DEF StillOpen, AuditInv, RevertsAreSound
<1>3. \A j \in DOMAIN log : Revertible(log[j]) => Revertible(log'[j])
  BY DEF Revertible
<1>4. ChainSound(k, chain)'
  BY <1>2, <1>3 DEF ChainSound
<1> QED
  BY <1>2, <1>4 DEF ChainSound

LEMMA ToldStaysAlone ==
    ASSUME AuditInv, StillOpen, log' = log,
           \A x \in Entities \ Invites : told'[x] => told[x],
           \A x \in Entities \ Invites, s \in Slots :
              told'[x] /\ edit'[s].phase # "idle" /\ edit'[s].entity = x =>
                 (edit[s].phase # "idle" /\ edit[s].entity = x) \/ \A r \in Reverts : ~Reverted(r, x)
    PROVE  ToldAlone'
<1> SUFFICES ASSUME NEW x \in Entities \ Invites, told'[x], NEW r \in Reverts, Reverted(r, x)'
             PROVE  /\ \A s \in Slots : ~(edit'[s].phase # "idle" /\ edit'[s].entity = x)
                    /\ \A q \in Reverts : Reverted(q, x)' => q = r
                    /\ revert'[r].chain = Chain(revert[r].k)'
  BY DEF ToldAlone
<1>1. \A q \in Reverts : Reverted(q, x)' => Reverted(q, x)
  BY DEF Reverted, StillOpen
<1>2. /\ \A s \in Slots : ~(edit[s].phase # "idle" /\ edit[s].entity = x)
      /\ \A q \in Reverts : Reverted(q, x) => q = r
      /\ revert[r].chain = Chain(revert[r].k)
  BY <1>1 DEF AuditInv, ToldAlone
<1>3. revert'[r].k = revert[r].k /\ revert'[r].chain = revert[r].chain
  BY DEF StillOpen, Reverted
<1>4. revert'[r].chain = Chain(revert[r].k)'
  BY <1>2, <1>3 DEF Chain
<1>5. \A s \in Slots : ~(edit'[s].phase # "idle" /\ edit'[s].entity = x)
  BY <1>1, <1>2
<1> QED
  BY <1>1, <1>2, <1>4, <1>5

LEMMA AuditBegins == Init => AuditInv
<1> SUFFICES ASSUME Init PROVE AuditInv
  OBVIOUS
<1>1. PICK gminas \in [Gminas -> GminaRows], orgs \in [Orgs -> OrgRows], users \in [Users -> UserRows] :
        row = [e \in Entities |-> IF e \in Gminas THEN gminas[e] ELSE IF e \in Orgs THEN orgs[e]
                                  ELSE IF e \in Users THEN users[e] ELSE Unborn]
  BY DEF Init
<1>2. /\ \A e \in Entities : row[e].there => Refers(row, row[e])
      /\ \A u \in Users : row[u].org # Null => row[row[u].org].gmina = row[u].gmina
      /\ \E u \in Users : IsActiveAdmin(row[u])
      /\ log = << >> /\ edit = [s \in Slots |-> NoEdit]
      /\ edits = 0 /\ told = [e \in Entities |-> TRUE]
      /\ revert = [r \in Reverts |-> NoRevert] /\ overtaken = {}
  BY DEF Init
<1>3. Typed(row)
  <2>1. ASSUME NEW e \in Entities
        PROVE  row[e] \in RowsOf(e)
    <3>1. e \in Gminas => row[e] \in GminaRows
      BY <1>1
    <3>2. e \in Orgs => row[e] \in OrgRows
      BY <1>1, KeysAreApart
    <3>3. e \in Users => row[e] \in UserRows
      BY <1>1, KeysAreApart
    <3>4. e \in Invites => row[e] = Unborn
      BY <1>1, KeysAreApart
    <3> QED
      BY <3>1, <3>2, <3>3, <3>4, RowsOfKinds DEF Entities
  <2>2. \A e \in Entities : row[e] \in Row
    BY <2>1, RowFields
  <2>3. row = [e \in Entities |-> row[e]]
    BY <1>1
  <2> QED
    BY <2>1, <2>2, <2>3 DEF Typed
<1>4. DbSound(row, overtaken)
  BY <1>2, <1>3 DEF DbSound, Linked, Followed
<1>5. NoEdit \in Edit /\ \A s \in Slots : edit[s] = NoEdit /\ edit[s].phase = "idle"
  BY <1>2, NoEditFields DEF Entities
<1>11. NoRevert \in Reverting /\ \A r \in Reverts : ~revert[r].open
  <2>1. Users # {}
    BY <1>2
  <2> QED
    BY <1>2, <2>1, NoRevertFields
<1>6. TypeOK
  <2>1. edit \in [Slots -> Edit] /\ log \in Seq(Entry) /\ Len(log) <= MaxLog
    BY <1>2, <1>5, BoundsAreNat
  <2>2. edits \in 0 .. MaxEdits /\ told \in [Entities -> BOOLEAN]
    BY <1>2, BoundsAreNat
  <2>3. revert \in [Reverts -> Reverting] /\ overtaken \subseteq Entities
    BY <1>2, <1>11
  <2> QED
    BY <1>3, <2>1, <2>2, <2>3 DEF TypeOK, Typed, RowsOf
<1>7. DOMAIN log = {}
  BY <1>2
<1>8. EntriesAreSound /\ EditsAreSound /\ UnbornHasNoPast /\ OneDeletion
  BY <1>5, <1>7 DEF EntriesAreSound, EditsAreSound, UnbornHasNoPast, OneDeletion, At
<1>9. DeadEnds
  <2>1. \A e : Standing(e) = {} /\ ~DeletionPending(e)
    BY <1>5, <1>7 DEF Standing, DeletionPending, At
  <2> QED
    BY <2>1 DEF DeadEnds, OnTop
<1>10. ToldAsItIs
  BY <1>5, <1>7 DEF ToldAsItIs, Newest, At
<1>12. RevertsAreSound /\ ToldAlone
  BY <1>11 DEF RevertsAreSound, ToldAlone, Reverted
<1> QED
  BY <1>4, <1>6, <1>8, <1>9, <1>10, <1>12 DEF AuditInv

\* What a handler does before it commits, or when it stops, leaves what is
\* said of reverts as it was.
LEMMA QuietStep ==
    ASSUME AuditInv, row' = row, log' = log, overtaken' = overtaken,
           \A t \in Slots : edit'[t] = edit[t] \/ edit'[t].phase # "done"
    PROVE  UnbornHasNoPast' /\ OneDeletion' /\ DeadEnds'
<1>1. \A t \in Slots : edit'[t].phase = "done" => edit'[t] = edit[t]
  OBVIOUS
<1>2. UnbornHasNoPast'
  BY <1>1 DEF AuditInv, UnbornHasNoPast, At
<1>3. OneDeletion'
  BY <1>1 DEF AuditInv, OneDeletion
<1>4. ASSUME NEW e \in Places
      PROVE  /\ Standing(e)' = Standing(e) /\ \A j : OnTop(e, j)' <=> OnTop(e, j)
             /\ Blocked(e)' <=> Blocked(e)
             /\ DeletionPending(e)' => DeletionPending(e)
  <2>1. Standing(e)' = Standing(e)
    BY DEF Standing
  <2>2. \A j : OnTop(e, j)' <=> OnTop(e, j)
    BY <2>1 DEF OnTop
  <2>3. Blocked(e)' <=> Blocked(e)
    BY <2>2 DEF Blocked
  <2>4. DeletionPending(e)' => DeletionPending(e)
    BY <1>1 DEF DeletionPending, At
  <2> QED
    BY <2>1, <2>2, <2>3, <2>4
<1>5. DeadEnds'
  BY <1>4 DEF AuditInv, DeadEnds
<1> QED
  BY <1>2, <1>3, <1>5

LEMMA StartKeepsAudit ==
    ASSUME AuditInv, NEW s \in Slots, Start(s)
    PROVE  AuditInv'
<1> DEFINE before(e, request) == IF request.action = "CREATE" THEN Absent ELSE row[e]
           begun(e, request) == [NoEdit EXCEPT !.phase = "read", !.entity = e, !.action = request.action,
                        !.field = request.want.field, !.to = request.want.to, !.before = before(e, request)]
           Begins(e, request) ==
               /\ edit[s] = NoEdit /\ edits < MaxEdits
               /\ Finds(e, request.action)
               /\ edit' = [edit EXCEPT ![s] = begun(e, request)]
               /\ edits' = edits + 1
               /\ told' = [told EXCEPT ![e] = @ /\ ~InFlight(e)]
               /\ row' = row /\ log' = log /\ revert' = revert /\ overtaken' = overtaken
<1>0. \E x \in Entities : \E a \in EditsOf(x) : Begins(x, a)
  BY DEF Start
<1> HIDE DEF Begins
<1>e. PICK e \in Entities : \E a \in EditsOf(e) : Begins(e, a)
  BY <1>0
<1>a. PICK request \in EditsOf(e) : Begins(e, request)
  BY <1>e
<1>1. /\ edit[s] = NoEdit /\ edits < MaxEdits
      /\ Finds(e, request.action)
      /\ edit' = [edit EXCEPT ![s] = begun(e, request)]
      /\ edits' = edits + 1
      /\ told' = [told EXCEPT ![e] = @ /\ ~InFlight(e)]
      /\ row' = row /\ log' = log /\ revert' = revert /\ overtaken' = overtaken
  BY <1>a DEF Begins
<1>2. /\ Typed(row) /\ edit \in [Slots -> Edit] /\ edits \in 0 .. MaxEdits /\ MaxEdits \in Nat
      /\ told \in [Entities -> BOOLEAN]
  BY BoundsAreNat DEF AuditInv, DbSound, TypeOK
<1>3. /\ row[e] \in RowsOf(e) /\ (request.action = "CREATE" => row[e] = Unborn)
      /\ (request.action # "CREATE" => row[e].there)
  BY <1>1, <1>2, FoundRow
<1>4. /\ request.action \in Actions /\ request.want.field \in Fields /\ request.want.to \in Row
  BY <1>3, AppliedIsSound
<1>5. before(e, request) \in RowsOf(e) /\ before(e, request) \in Row
  BY <1>3, RowsOfKinds, RowFields
<1>6. /\ begun(e, request) \in Edit /\ begun(e, request).phase = "read"
      /\ begun(e, request).entity = e /\ begun(e, request).action = request.action
      /\ begun(e, request).field = request.want.field /\ begun(e, request).to = request.want.to
      /\ begun(e, request).before = before(e, request)
  BY <1>4, <1>5, AbsentFields DEF NoEdit, Edit
<1>7. edit' = [edit EXCEPT ![s] = begun(e, request)]
  BY <1>1
<1> HIDE DEF begun
<1>8. /\ edit' \in [Slots -> Edit] /\ edit'[s] = begun(e, request)
      /\ \A t \in Slots : t # s => edit'[t] = edit[t]
  BY <1>2, <1>6, <1>7
<1>9. TypeOK'
  <2>1. edits' \in 0 .. MaxEdits /\ told' \in [Entities -> BOOLEAN]
    BY <1>1, <1>2
  <2> QED
    BY <1>1, <1>8, <2>1 DEF AuditInv, TypeOK
<1>10. EditsAreSound'
  <2>1. EditSound(s)'
    BY <1>1, <1>3, <1>5, <1>6, <1>8 DEF EditSound
  <2>2. ASSUME NEW t \in Slots, t # s, edit[t] # NoEdit
        PROVE  edit'[t].phase # "idle" /\ EditSound(t)'
    BY <1>1, <1>8, <2>2 DEF AuditInv, EditsAreSound, EditSound, Sides
  <2> QED
    BY <1>6, <1>8, <2>1, <2>2 DEF EditsAreSound
<1>11. UnbornHasNoPast' /\ OneDeletion' /\ DeadEnds'
  BY <1>1, <1>6, <1>8, QuietStep
<1>12. ToldAsItIs'
  <2> SUFFICES ASSUME NEW x \in Entities \ Invites, told'[x]
               PROVE  /\ \A q, t \in Slots : edit'[q].phase # "idle" /\ edit'[t].phase # "idle"
                            /\ edit'[q].entity = x /\ edit'[t].entity = x => q = t
                      /\ \A t \in Slots : At(t, x, "done")' => edit'[t].after = row'[x]
                      /\ (\A t \in Slots : ~At(t, x, "done")') =>
                            \A j \in DOMAIN log' : Newest(x, j)' => row'[x] = log'[j].after
    BY DEF ToldAsItIs
  <2>1. told[x] /\ (x = e => ~InFlight(e))
    BY <1>1, <1>2
  <2>2. \A j : Newest(x, j)' <=> Newest(x, j)
    BY <1>1 DEF Newest
  <2>3. \A t \in Slots : At(t, x, "done")' <=> At(t, x, "done")
    <3>1. ~At(s, x, "done") /\ ~At(s, x, "done")'
      BY <1>1, <1>6, <1>8, NoEditFields DEF At
    <3> QED
      BY <1>8, <3>1 DEF At
  <2>4. /\ \A q, t \in Slots : edit[q].phase # "idle" /\ edit[t].phase # "idle"
                /\ edit[q].entity = x /\ edit[t].entity = x => q = t
        /\ \A t \in Slots : At(t, x, "done") => edit[t].after = row[x]
        /\ (\A t \in Slots : ~At(t, x, "done")) =>
              \A j \in DOMAIN log : Newest(x, j) => row[x] = log[j].after
    BY <2>1 DEF AuditInv, ToldAsItIs
  <2>5. \A q, t \in Slots : edit'[q].phase # "idle" /\ edit'[t].phase # "idle"
            /\ edit'[q].entity = x /\ edit'[t].entity = x => q = t
    BY <1>6, <1>8, <2>1, <2>4 DEF InFlight
  <2>6. \A t \in Slots : At(t, x, "done")' => edit'[t].after = row'[x]
    <3>1. ~At(s, x, "done")'
      BY <1>6, <1>8 DEF At
    <3> QED
      BY <1>1, <1>8, <2>3, <2>4, <3>1
  <2>7. (\A t \in Slots : ~At(t, x, "done")') =>
            \A j \in DOMAIN log' : Newest(x, j)' => row'[x] = log'[j].after
    BY <1>1, <2>2, <2>3, <2>4
  <2> QED
    BY <2>5, <2>6, <2>7
<1>13. StillOpen
  BY <1>1 DEF StillOpen
<1>14. RevertsAreSound'
  BY <1>1, <1>13, RevertsGoOn
<1>15. ToldAlone'
  <2>1. \A x \in Entities \ Invites : told'[x] => told[x] /\ (x = e => ~InFlight(e))
    BY <1>1, <1>2
  <2>2. \A t \in Slots : t = s \/ edit'[t] = edit[t]
    BY <1>8
  <2>3. edit'[s].entity = e /\ (~InFlight(e) => \A r \in Reverts : ~Reverted(r, e))
    BY <1>6, <1>8 DEF InFlight, Reverted
  <2> QED
    BY <1>1, <1>13, <2>1, <2>2, <2>3, ToldStaysAlone
<1> QED
  BY <1>1, <1>9, <1>10, <1>11, <1>12, <1>14, <1>15 DEF AuditInv, EntriesAreSound, DbSound, Linked, Followed
\* An edit that has committed.
Done(x, r) == [x EXCEPT !.phase = "done", !.after = r]

LEMMA EditDone ==
    ASSUME NEW x \in Edit, NEW r \in Row
    PROVE  /\ Done(x, r) \in Edit /\ Done(x, r).phase = "done" /\ Done(x, r).after = r
           /\ Done(x, r).entity = x.entity /\ Done(x, r).action = x.action /\ Done(x, r).before = x.before
           /\ Done(x, r).field = x.field /\ Done(x, r).to = x.to
BY DEF Edit, Done

LEMMA CommitKeepsAudit ==
    ASSUME AuditInv, NEW s \in Slots, Commit(s)
    PROVE  AuditInv'
<1>0. PICK e \in Entities : e = edit[s].entity
  BY DEF AuditInv, TypeOK, Edit
<1> DEFINE action == edit[s].action
           next == Applied(row[e], edit[s])
           carried == e \in Orgs /\ next.there /\ row[e].there /\ next.gmina # row[e].gmina
           db == IF carried THEN WithMembers(row, Members(row, e), next.gmina) ELSE row
           done == Done(edit[s], next)
<1>1. /\ edit[s].phase = "read"
      /\ Finds(e, action) /\ Accepts(e, next)
      /\ row' = [db EXCEPT ![e] = next]
      /\ edit' = [edit EXCEPT ![s].phase = "done", ![s].after = next]
      /\ told' = [x \in Entities |-> told[x] /\ ~(carried /\ x \in Members(row, e))]
      /\ log' = log /\ edits' = edits /\ revert' = Passing(row') /\ overtaken' = overtaken
  BY <1>0 DEF Commit
<1>2. /\ DbSound(row, overtaken) /\ Typed(row) /\ edit \in [Slots -> Edit] /\ told \in [Entities -> BOOLEAN]
      /\ edit[s] \in Edit
  BY DEF AuditInv, DbSound, TypeOK, Edit
<1>3. edit[s] # NoEdit
  BY <1>1, <1>2, NoEditFields
<1>4. EditSound(s)
  BY <1>3 DEF AuditInv, EditsAreSound
<1>5. PICK request \in EditsOf(e) :
        action = request.action /\ edit[s].field = request.want.field /\ edit[s].to = request.want.to
  BY <1>0, <1>4 DEF EditSound
<1>6. /\ row[e] \in RowsOf(e) /\ row[e] \in Row
      /\ action = "CREATE" => row[e] = Unborn
      /\ action # "CREATE" => row[e].there
  BY <1>1, <1>2, FoundRow
<1>7. /\ next \in RowsOf(e) /\ next \in Row
      /\ action = "DELETE" => next = Absent
      /\ action # "DELETE" => next.there
      /\ action \in Actions
      /\ e \in Places => action \in {"CREATE", "UPDATE", "DELETE"}
      /\ e \in Invites => action \in {"CREATE", "REVOKE", "REACTIVATE"}
  BY <1>2, <1>5, <1>6, AppliedIsSound, RowFields
<1>8. done \in Edit /\ edit' = [edit EXCEPT ![s] = done]
      /\ done.phase = "done" /\ done.after = next /\ done.entity = e /\ done.action = action
      /\ done.before = edit[s].before /\ done.field = edit[s].field /\ done.to = edit[s].to
  <2>1. edit' = [edit EXCEPT ![s] = done]
    BY <1>1, <1>2 DEF Done
  <2> HIDE DEF next
  <2> QED
    BY <1>0, <1>2, <1>7, <2>1, EditDone
<1> HIDE DEF done, next
<1>9. /\ edit' \in [Slots -> Edit] /\ edit'[s] = done
      /\ \A t \in Slots : t # s => edit'[t] = edit[t]
  BY <1>2, <1>8
<1>10. /\ Refers(row, next) /\ (next.there \/ ~Referenced(row, e))
       /\ e \in Users /\ next.org # Null => row[next.org].gmina = next.gmina
  BY <1>1 DEF Accepts
<1>11. DbSound(row', overtaken)
  <2>1. CASE carried
    <3>1. PICK moved : moved = Members(row, e)
      OBVIOUS
    <3>2. /\ e \in Orgs /\ next.there /\ row[e].there /\ Refers(row, next) /\ moved \subseteq Members(row, e)
          /\ \A u \in Members(row, e) \ (moved \cup overtaken) : row[u].gmina = next.gmina
          /\ row' = [WithMembers(row, moved, next.gmina) EXCEPT ![e] = next]
      BY <1>1, <1>10, <2>1, <3>1
    <3> QED
      BY ONLY <1>2, <1>7, <3>2, MoveKeepsDb
  <2>2. CASE ~carried
    <3>1. row' = [row EXCEPT ![e] = next]
      BY <1>1, <2>2
    <3> QED
      BY <1>2, <1>7, <1>10, <2>2, <3>1, PutKeepsDb
  <2> QED
    BY <2>1, <2>2
<1>12. /\ row'[e] = next
       /\ \A x \in Entities \ {e} : row'[x] = row[x] \/ (carried /\ x \in Members(row, e))
  <2>1. DOMAIN row = Entities
    BY <1>2 DEF Typed
  <2> QED
    BY <1>1, <1>2, <2>1 DEF WithMembers
<1>13. /\ \A x \in Places : x \in Entities /\ x \notin Members(row, e)
       /\ \A x \in Places \ {e} : row'[x] = row[x]
  <2>1. \A x \in Places : x \in Entities /\ x \notin Members(row, e)
    BY KeysAreApart DEF Members, Places, Entities
  <2> QED
    BY <1>12, <2>1
<1> HIDE DEF carried, db
<1>23. /\ revert' \in [Reverts -> Reverting]
       /\ \A r \in Reverts : /\ revert'[r].open = revert[r].open /\ revert'[r].k = revert[r].k
                            /\ revert'[r].chain = revert[r].chain
  <2>1. PICK rows : rows = row'
    OBVIOUS
  <2>2. rows \in [Entities -> Row] /\ revert \in [Reverts -> Reverting] /\ revert' = Passing(rows)
    BY <1>1, <1>11, <2>1 DEF AuditInv, TypeOK, DbSound, Typed
  <2> QED
    BY <2>2, PassingFields
<1>14. TypeOK'
  <2>1. told' \in [Entities -> BOOLEAN]
    BY <1>1, <1>2
  <2> QED
    BY <1>1, <1>9, <1>11, <1>23, <2>1 DEF AuditInv, TypeOK, DbSound, Typed, RowsOf
<1>15. EditsAreSound'
  <2>1. Sides(e, action, edit[s].before, next)
    BY <1>0, <1>4, <1>5, <1>7, AbsentFields DEF EditSound, Sides, Actions
  <2>2. EditSound(s)'
    <3>1. /\ edit'[s].entity = e /\ edit'[s].action = action /\ edit'[s].before = edit[s].before
          /\ edit'[s].field = edit[s].field /\ edit'[s].to = edit[s].to /\ edit'[s].after = next
      BY <1>8, <1>9
    <3> QED
      BY <1>0, <1>4, <1>5, <2>1, <3>1 DEF EditSound
  <2>3. ASSUME NEW t \in Slots, t # s, edit[t] # NoEdit
        PROVE  edit'[t].phase # "idle" /\ EditSound(t)'
    BY <1>9, <2>3 DEF AuditInv, EditsAreSound, EditSound, Sides
  <2> QED
    BY <1>8, <1>9, <2>2, <2>3 DEF EditsAreSound
<1>16. /\ At(s, e, "done")' /\ \A x \in Entities \ {e} : \A t \in Slots : At(t, x, "done")' <=> At(t, x, "done")
       /\ \A t \in Slots \ {s} : At(t, e, "done")' <=> At(t, e, "done")
       /\ ~At(s, e, "done")
  BY <1>0, <1>1, <1>8, <1>9 DEF At
<1>17. UnbornHasNoPast'
  <2> SUFFICES ASSUME NEW x \in Places, row'[x] = Unborn
               PROVE  /\ \A k \in DOMAIN log : log[k].entity # x
                      /\ \A t \in Slots : ~At(t, x, "done")'
    BY <1>1 DEF UnbornHasNoPast
  <2>1. x # e
    BY <1>7, <1>12, AbsentFields
  <2> QED
    BY <1>13, <1>16, <2>1 DEF AuditInv, UnbornHasNoPast
<1>18. \A x : /\ Standing(x)' = Standing(x) /\ \A j : OnTop(x, j)' <=> OnTop(x, j)
  BY <1>1 DEF Standing, OnTop
<1>19. e \in Places \ overtaken =>
                       /\ action = "DELETE" => ~DeletionPending(e)
                       /\ row[e].there => ~DeletionPending(e) /\ ~Blocked(e)
                       /\ action = "CREATE" => /\ ~DeletionPending(e) /\ Standing(e) = {}
  <2>1. e \in Places \ overtaken /\ row[e].there => ~DeletionPending(e) /\ ~Blocked(e)
    BY DEF AuditInv, DeadEnds, Blocked
  <2>2. e \in Places /\ action = "CREATE" => ~DeletionPending(e) /\ Standing(e) = {}
    BY <1>6 DEF AuditInv, UnbornHasNoPast, DeletionPending, Standing
  <2> QED
    BY <1>6, <2>1, <2>2
<1>20. OneDeletion'
  <2> SUFFICES ASSUME NEW t \in Slots, NEW q \in Slots, t # q, edit'[t].entity \notin overtaken,
                      edit'[t].phase = "done", edit'[q].phase = "done", edit'[t].entity = edit'[q].entity,
                      edit'[t].entity \in Places, edit'[t].action = "DELETE", edit'[q].action = "DELETE"
               PROVE  FALSE
    BY <1>1 DEF OneDeletion
  <2>1. t # s /\ q # s
    BY <1>8, <1>9, <1>19 DEF DeletionPending, At
  <2> QED
    BY <1>9, <2>1 DEF AuditInv, OneDeletion
<1>21. DeadEnds'
  <2> SUFFICES ASSUME NEW x \in Places \ overtaken
               PROVE  /\ row'[x].there \/ DeletionPending(x)' =>
                            \A j \in DOMAIN log : OnTop(x, j) => ~Restores(log[j])
                      /\ DeletionPending(x)' => ~row'[x].there
                      /\ \A j \in Standing(x) : Redeletes(log[j]) \/ (Restores(log[j]) /\ ~OnTop(x, j))
                            => Blocked(x)' /\ ~DeletionPending(x)'
    BY <1>1, <1>18 DEF DeadEnds
  <2>1. CASE x # e
    <3>1. row'[x] = row[x] /\ (DeletionPending(x)' <=> DeletionPending(x))
      <4>1. \A t \in Slots : At(t, x, "done")' /\ edit'[t].action = "DELETE"
                               <=> At(t, x, "done") /\ edit[t].action = "DELETE"
        BY <1>8, <1>9, <1>13, <1>16, <2>1
      <4> QED
        BY <1>13, <2>1, <4>1 DEF DeletionPending
    <3>2. Blocked(x)' <=> Blocked(x)
      BY <1>1, <1>18, <3>1 DEF Blocked
    <3> QED
      BY <3>1, <3>2 DEF AuditInv, DeadEnds
  <2>2. CASE x = e
    <3>1. DeletionPending(e)' => DeletionPending(e) \/ action = "DELETE"
      BY <1>8, <1>9, <1>16, <2>2 DEF DeletionPending
    <3>2. action \in {"CREATE", "UPDATE", "DELETE"} /\ e \in Places \ overtaken
      BY <1>7, <2>2
    <3>3. CASE action = "CREATE"
      BY <1>19, <2>2, <3>1, <3>2, <3>3 DEF OnTop
    <3>4. CASE action # "CREATE"
      <4>1. row[e].there /\ ~DeletionPending(e) /\ ~Blocked(e)
        BY <1>6, <1>19, <3>2, <3>4
      <4>2. action = "DELETE" => ~row'[e].there
        BY <1>7, <1>12, AbsentFields
      <4>3. \A j \in DOMAIN log : OnTop(e, j) => ~Restores(log[j])
        BY <3>2, <4>1 DEF AuditInv, DeadEnds
      <4>4. \A j \in Standing(e) : ~(Redeletes(log[j]) \/ (Restores(log[j]) /\ ~OnTop(e, j)))
        BY <3>2, <4>1 DEF AuditInv, DeadEnds
      <4> QED
        BY <2>2, <3>1, <4>1, <4>2, <4>3, <4>4
    <3> QED
      BY <3>3, <3>4
  <2> QED
    BY <2>1, <2>2
<1>22. ToldAsItIs'
  <2> SUFFICES ASSUME NEW x \in Entities \ Invites, told'[x]
               PROVE  /\ \A q, t \in Slots : edit'[q].phase # "idle" /\ edit'[t].phase # "idle"
                            /\ edit'[q].entity = x /\ edit'[t].entity = x => q = t
                      /\ \A t \in Slots : At(t, x, "done")' => edit'[t].after = row'[x]
                      /\ (\A t \in Slots : ~At(t, x, "done")') =>
                            \A j \in DOMAIN log' : Newest(x, j)' => row'[x] = log'[j].after
    BY DEF ToldAsItIs
  <2>0. \A j : Newest(x, j)' <=> Newest(x, j)
    BY <1>1 DEF Newest
  <2>1. told[x] /\ ~(carried /\ x \in Members(row, e))
    BY <1>1, <1>2
  <2>2. /\ \A q, t \in Slots : edit[q].phase # "idle" /\ edit[t].phase # "idle"
                /\ edit[q].entity = x /\ edit[t].entity = x => q = t
        /\ \A t \in Slots : At(t, x, "done") => edit[t].after = row[x]
        /\ (\A t \in Slots : ~At(t, x, "done")) =>
              \A j \in DOMAIN log : Newest(x, j) => row[x] = log[j].after
    BY <2>1 DEF AuditInv, ToldAsItIs
  <2>3. \A t \in Slots : /\ edit'[t].entity = edit[t].entity
                         /\ edit'[t].phase # "idle" <=> edit[t].phase # "idle"
    BY <1>0, <1>1, <1>8, <1>9
  <2>4. CASE x = e
    <3>1. \A t \in Slots : At(t, x, "done")' => t = s
      BY <1>0, <1>1, <2>2, <2>3, <2>4 DEF At
    <3>2. edit'[s].after = row'[x]
      BY <1>8, <1>9, <1>12, <2>4
    <3>3. At(s, x, "done")'
      BY <1>16, <2>4
    <3>4. \A q, t \in Slots : edit'[q].phase # "idle" /\ edit'[t].phase # "idle"
              /\ edit'[q].entity = x /\ edit'[t].entity = x => q = t
      BY <2>2, <2>3
    <3> QED
      BY <3>1, <3>2, <3>3, <3>4
  <2>5. CASE x # e
    <3>1. row'[x] = row[x]
      BY <1>12, <2>1, <2>5
    <3>2. \A t \in Slots : At(t, x, "done")' <=> At(t, x, "done")
      BY <1>16, <2>5
    <3>3. \A t \in Slots : At(t, x, "done")' => edit'[t].after = edit[t].after
      BY <1>8, <1>9, <2>5 DEF At
    <3> QED
      BY <1>1, <2>0, <2>2, <2>3, <3>1, <3>2, <3>3
  <2> QED
    BY <2>4, <2>5
<1>24. StillOpen
  BY <1>23 DEF StillOpen
<1>25. RevertsAreSound'
  BY <1>1, <1>24, RevertsGoOn
<1>26. ToldAlone'
  <2>1. \A x \in Entities : told'[x] => told[x]
    BY <1>1
  <2>2. \A t \in Slots : edit'[t].entity = edit[t].entity /\ (edit'[t].phase # "idle" => edit[t].phase # "idle")
    BY <1>0, <1>1, <1>8, <1>9
  <2> QED
    BY <1>1, <1>24, <2>1, <2>2, ToldStaysAlone
<1>27. DbSound(row, overtaken)'
  BY <1>1, <1>11
<1> QED
  BY <1>1, <1>14, <1>15, <1>17, <1>20, <1>21, <1>22, <1>25, <1>26, <1>27 DEF AuditInv, EntriesAreSound
\* A slot is free again, and nothing was recorded: the edit was given up, or
\* what it did will never be in the log.
LEMMA FreedKeepsAudit ==
    ASSUME AuditInv, NEW s \in Slots, edit' = [edit EXCEPT ![s] = NoEdit],
           row' = row, log' = log, edits' = edits, revert' = revert, overtaken' = overtaken,
           \/ edit[s].phase = "read" /\ told' = told
           \/ told' = [told EXCEPT ![edit[s].entity] = FALSE]
    PROVE  AuditInv'
<1>0. PICK e \in Entities : e = edit[s].entity
  BY DEF AuditInv, TypeOK, Edit
<1>1. /\ edit \in [Slots -> Edit] /\ told \in [Entities -> BOOLEAN] /\ edits \in 0 .. MaxEdits
  BY DEF AuditInv, TypeOK
<1>2. NoEdit \in Edit /\ NoEdit.phase = "idle"
  BY <1>0, NoEditFields
<1>3. /\ edit' \in [Slots -> Edit] /\ edit'[s] = NoEdit
      /\ \A t \in Slots : t # s => edit'[t] = edit[t]
  BY <1>1, <1>2
<1>4. TypeOK'
  <2>1. told' \in [Entities -> BOOLEAN]
    BY <1>1
  <2> QED
    BY <1>1, <1>3, <2>1 DEF AuditInv, TypeOK
<1>5. EditsAreSound'
  <2>1. ASSUME NEW t \in Slots, t # s, edit[t] # NoEdit
        PROVE  edit'[t].phase # "idle" /\ EditSound(t)'
    BY <1>3, <2>1 DEF AuditInv, EditsAreSound, EditSound, Sides
  <2> QED
    BY <1>3, <2>1 DEF EditsAreSound
<1>6. UnbornHasNoPast' /\ OneDeletion' /\ DeadEnds'
  BY <1>2, <1>3, QuietStep
<1>7. ToldAsItIs'
  <2> SUFFICES ASSUME NEW x \in Entities \ Invites, told'[x]
               PROVE  /\ \A q, t \in Slots : edit'[q].phase # "idle" /\ edit'[t].phase # "idle"
                            /\ edit'[q].entity = x /\ edit'[t].entity = x => q = t
                      /\ \A t \in Slots : At(t, x, "done")' => edit'[t].after = row'[x]
                      /\ (\A t \in Slots : ~At(t, x, "done")') =>
                            \A j \in DOMAIN log' : Newest(x, j)' => row'[x] = log'[j].after
    BY DEF ToldAsItIs
  <2>1. told[x] /\ ~At(s, x, "done")
    BY <1>0, <1>1 DEF At
  <2>2. \A j : Newest(x, j)' <=> Newest(x, j)
    BY DEF Newest
  <2>3. \A t \in Slots : At(t, x, "done")' <=> At(t, x, "done")
    <3>1. ~At(s, x, "done")'
      BY <1>2, <1>3 DEF At
    <3> QED
      BY <1>3, <2>1, <3>1 DEF At
  <2>4. /\ \A q, t \in Slots : edit[q].phase # "idle" /\ edit[t].phase # "idle"
                /\ edit[q].entity = x /\ edit[t].entity = x => q = t
        /\ \A t \in Slots : At(t, x, "done") => edit[t].after = row[x]
        /\ (\A t \in Slots : ~At(t, x, "done")) =>
              \A j \in DOMAIN log : Newest(x, j) => row[x] = log[j].after
    BY <2>1 DEF AuditInv, ToldAsItIs
  <2>5. \A q, t \in Slots : edit'[q].phase # "idle" /\ edit'[t].phase # "idle"
            /\ edit'[q].entity = x /\ edit'[t].entity = x => q = t
    BY <1>2, <1>3, <2>4
  <2>6. \A t \in Slots : At(t, x, "done")' => edit'[t].after = row'[x]
    BY <1>3, <2>1, <2>3, <2>4
  <2>7. (\A t \in Slots : ~At(t, x, "done")') =>
            \A j \in DOMAIN log' : Newest(x, j)' => row'[x] = log'[j].after
    BY <2>2, <2>3, <2>4
  <2> QED
    BY <2>5, <2>6, <2>7
<1>8. StillOpen
  BY DEF StillOpen
<1>9. RevertsAreSound'
  BY <1>8, RevertsGoOn
<1>10. ToldAlone'
  <2>1. \A x \in Entities : told'[x] => told[x]
    BY <1>1
  <2>2. \A t \in Slots : edit'[t].phase # "idle" => edit'[t] = edit[t]
    BY <1>2, <1>3
  <2> QED
    BY <1>8, <2>1, <2>2, ToldStaysAlone
<1> QED
  BY <1>4, <1>5, <1>6, <1>7, <1>9, <1>10 DEF AuditInv, EntriesAreSound, DbSound, Typed, Linked, Followed, Refers

LEMMA OutsideKeepsAudit ==
    ASSUME AuditInv, NEW i \in Invites, NEW state \in {"USED", "EXPIRED"}, Outside(i, state)
    PROVE  AuditInv'
<1> DEFINE next == [row[i] EXCEPT !.state = state]
<1>1. /\ row[i].state \in {"OPEN", "REVOKED"}
      /\ row' = [row EXCEPT ![i] = next]
      /\ told' = [told EXCEPT ![i] = FALSE]
      /\ log' = log /\ edit' = edit /\ edits' = edits
      /\ revert' = Passing(row') /\ overtaken' = overtaken
  BY DEF Outside
<1>2. /\ DbSound(row, overtaken) /\ Typed(row) /\ told \in [Entities -> BOOLEAN] /\ i \in Entities
      /\ i \notin Users /\ i \notin Orgs /\ i \notin Gminas
  BY KeysAreApart DEF AuditInv, DbSound, TypeOK, Entities
<1>3. row[i] \in InviteRows
  <2>1. row[i] \in RowsOf(i)
    BY <1>2 DEF Typed
  <2> QED
    BY <1>1, <1>2, <2>1, RowFields, AbsentFields
<1>4. next \in InviteRows
  BY <1>3, InviteTurned
<1> HIDE DEF next
<1>5. next \in RowsOf(i) /\ next.there /\ next.gmina = Null /\ next.org = Null
  BY <1>2, <1>4, InviteRowFields, RowsOfKinds
<1>6. DbSound(row', overtaken)
  BY <1>1, <1>2, <1>5, PutKeepsDb DEF Refers
<1>7. \A x \in Entities \ Invites : row'[x] = row[x] /\ (told'[x] <=> told[x])
  BY <1>1, <1>2 DEF Typed
<1>14. /\ revert' \in [Reverts -> Reverting]
       /\ \A r \in Reverts : /\ revert'[r].open = revert[r].open /\ revert'[r].k = revert[r].k
                            /\ revert'[r].chain = revert[r].chain
  <2>1. PICK rows : rows = row'
    OBVIOUS
  <2>2. rows \in [Entities -> Row] /\ revert \in [Reverts -> Reverting] /\ revert' = Passing(rows)
    BY <1>1, <1>6, <2>1 DEF AuditInv, TypeOK, DbSound, Typed
  <2> QED
    BY <2>2, PassingFields
<1>8. TypeOK'
  <2>1. told' \in [Entities -> BOOLEAN]
    BY <1>1, <1>2
  <2> QED
    BY <1>1, <1>6, <1>14, <2>1 DEF AuditInv, TypeOK, DbSound, Typed, RowsOf
<1>9. \A x \in Places : x \in Entities \ Invites
  BY KeysAreApart DEF Places, Entities
<1>10. EditsAreSound' /\ EntriesAreSound'
  BY <1>1 DEF AuditInv, EditsAreSound, EntriesAreSound, EditSound
<1>11. UnbornHasNoPast' /\ OneDeletion'
  BY <1>1, <1>7, <1>9 DEF AuditInv, UnbornHasNoPast, OneDeletion, At
<1>12. DeadEnds'
  <2>1. \A x : /\ Standing(x)' = Standing(x) /\ \A j : OnTop(x, j)' <=> OnTop(x, j)
    BY <1>1 DEF Standing, OnTop
  <2>2. ASSUME NEW x \in Places
        PROVE  /\ DeletionPending(x)' <=> DeletionPending(x)
               /\ Blocked(x)' <=> Blocked(x)
               /\ row'[x] = row[x]
    BY <1>1, <1>7, <1>9, <2>1 DEF DeletionPending, At, Blocked
  <2> QED
    BY <1>1, <2>1, <2>2 DEF AuditInv, DeadEnds
<1>13. ToldAsItIs'
  BY <1>1, <1>7 DEF AuditInv, ToldAsItIs, At, Newest
<1>15. StillOpen
  BY <1>14 DEF StillOpen
<1>16. RevertsAreSound'
  BY <1>1, <1>15, RevertsGoOn
<1>17. ToldAlone'
  BY <1>1, <1>7, <1>15, ToldStaysAlone
<1>18. DbSound(row, overtaken)'
  BY <1>1, <1>6
<1> QED
  BY <1>8, <1>10, <1>11, <1>12, <1>13, <1>16, <1>17, <1>18 DEF AuditInv
\* What recordAudit writes.
EntryFor(x) == [entity |-> x.entity, action |-> x.action, before |-> x.before, after |-> x.after,
            gmina |-> Filed(x.entity, x.before, x.after), isRevert |-> FALSE, reverted |-> FALSE]

LEMMA EntryOfEdit ==
    ASSUME NEW x \in Edit, Sides(x.entity, x.action, x.before, x.after),
           x.action = "CREATE" => x.before = Absent,
           x.action # "CREATE" => x.before.there
    PROVE  /\ EntrySound(EntryFor(x)) /\ EntryFor(x) \in Entry
           /\ EntryFor(x).entity = x.entity /\ EntryFor(x).action = x.action /\ EntryFor(x).before = x.before
           /\ EntryFor(x).after = x.after /\ ~EntryFor(x).isRevert /\ ~EntryFor(x).reverted
<1>1. /\ EntryFor(x).entity = x.entity /\ EntryFor(x).action = x.action /\ EntryFor(x).before = x.before
      /\ EntryFor(x).after = x.after /\ EntryFor(x).isRevert = FALSE /\ EntryFor(x).reverted = FALSE
  BY DEF EntryFor
<1>2. /\ x.entity \in Entities /\ x.action \in Actions /\ x.before \in Row /\ x.after \in Row
      /\ x.before \in RowsOf(x.entity) /\ x.after \in RowsOf(x.entity)
  BY DEF Edit, Sides
<1>3. Filed(x.entity, x.before, x.after) \in Gminas \cup {Null}
  BY <1>2, RowFields DEF Filed
<1>4. EntryFor(x) \in Entry
  BY <1>2, <1>3 DEF EntryFor, Entry
<1>5. x.entity \in Places /\ x.action = "CREATE" => x.after.there
  BY AbsentFields DEF Sides
<1> QED
  BY <1>1, <1>4, <1>5 DEF EntrySound

LEMMA RecordKeepsAudit ==
    ASSUME AuditInv, NEW s \in Slots, Record(s)
    PROVE  AuditInv'
<1>0. PICK e \in Entities : e = edit[s].entity
  BY DEF AuditInv, TypeOK, Edit
<1> DEFINE action == edit[s].action
           entry == EntryFor(edit[s])
<1>1. /\ edit[s].phase = "done" /\ Len(log) < MaxLog
      /\ log' = Append(log, entry)
      /\ edit' = [edit EXCEPT ![s] = NoEdit]
      /\ row' = row /\ edits' = edits /\ told' = told /\ revert' = revert /\ overtaken' = overtaken
  BY DEF Record, EntryFor
<1>2. /\ DbSound(row, overtaken) /\ edit \in [Slots -> Edit] /\ edit[s] \in Edit
      /\ log \in Seq(Entry) /\ Len(log) \in Nat /\ DOMAIN log = 1 .. Len(log) /\ MaxLog \in Nat
  BY BoundsAreNat DEF AuditInv, TypeOK
<1>n. PICK n \in Nat : n = Len(log) + 1
  BY <1>2
<1>3. NoEdit \in Edit /\ NoEdit.phase = "idle" /\ edit[s] # NoEdit
  BY <1>0, <1>1, NoEditFields
<1>4. /\ Sides(e, action, edit[s].before, edit[s].after)
      /\ action = "CREATE" => edit[s].before = Absent
      /\ action # "CREATE" => edit[s].before.there
  BY <1>0, <1>1, <1>3 DEF AuditInv, EditsAreSound, EditSound
<1>5. /\ EntrySound(entry) /\ entry \in Entry
      /\ entry.entity = e /\ entry.action = action /\ entry.before = edit[s].before
      /\ entry.after = edit[s].after /\ ~entry.isRevert /\ ~entry.reverted
  BY <1>0, <1>2, <1>4, EntryOfEdit
<1> HIDE DEF entry
<1>6. /\ log' \in Seq(Entry) /\ Len(log') = n /\ DOMAIN log' = 1 .. n /\ n \in Nat
      /\ log'[n] = entry /\ \A j \in DOMAIN log : log'[j] = log[j]
  BY <1>1, <1>2, <1>n, <1>5
<1>7. /\ edit' \in [Slots -> Edit] /\ edit'[s] = NoEdit
      /\ \A t \in Slots : t # s => edit'[t] = edit[t]
  BY <1>1, <1>2, <1>3
<1>8. \A j \in DOMAIN log' : j \in DOMAIN log \/ j = n
  BY <1>2, <1>n, <1>6
<1>9. \A j \in DOMAIN log : j \in Nat /\ j < n /\ j \in DOMAIN log'
  BY <1>2, <1>n, <1>6
<1>9a. n \in DOMAIN log' /\ n \notin DOMAIN log /\ n <= MaxLog
  BY <1>1, <1>2, <1>n, <1>6
<1>10. TypeOK'
  BY <1>1, <1>6, <1>7, <1>9a DEF AuditInv, TypeOK
<1>11. EntriesAreSound'
  BY <1>5, <1>6, <1>8 DEF AuditInv, EntriesAreSound
<1>12. EditsAreSound'
  <2>1. ASSUME NEW t \in Slots, t # s, edit[t] # NoEdit
        PROVE  edit'[t].phase # "idle" /\ EditSound(t)'
    BY <1>7, <2>1 DEF AuditInv, EditsAreSound, EditSound, Sides
  <2> QED
    BY <1>7, <2>1 DEF EditsAreSound
<1>13. /\ At(s, e, "done")
       /\ \A t \in Slots : \A x : At(t, x, "done")' <=> At(t, x, "done") /\ t # s
  BY <1>0, <1>1, <1>3, <1>7 DEF At
<1>14. \A x : Standing(x)' = Standing(x) \cup (IF x = e THEN {n} ELSE {})
  BY <1>5, <1>6, <1>8, <1>9, <1>9a DEF Standing
<1>15. UnbornHasNoPast'
  <2> SUFFICES ASSUME NEW x \in Places, row[x] = Unborn
               PROVE  /\ \A k \in DOMAIN log' : log'[k].entity # x
                      /\ \A t \in Slots : ~At(t, x, "done")'
    BY <1>1 DEF UnbornHasNoPast
  <2>1. x # e /\ \A k \in DOMAIN log : log[k].entity # x
    BY <1>13 DEF AuditInv, UnbornHasNoPast
  <2>2. \A t \in Slots : ~At(t, x, "done")'
    BY <1>13 DEF AuditInv, UnbornHasNoPast
  <2> QED
    BY <1>5, <1>6, <1>8, <2>1, <2>2
<1>16. OneDeletion'
  BY <1>1, <1>3, <1>7 DEF AuditInv, OneDeletion
<1>17. \A x \in Places : /\ DeletionPending(x)' => DeletionPending(x)
                         /\ x # e => (DeletionPending(x)' <=> DeletionPending(x))
  BY <1>7, <1>13, <1>0 DEF DeletionPending, At
<1>18. DeadEnds'
  <2> SUFFICES ASSUME NEW x \in Places \ overtaken
               PROVE  /\ row[x].there \/ DeletionPending(x)' =>
                            \A j \in DOMAIN log' : OnTop(x, j)' => ~Restores(log'[j])
                      /\ DeletionPending(x)' => ~row[x].there
                      /\ \A j \in Standing(x)' : Redeletes(log'[j]) \/ (Restores(log'[j]) /\ ~OnTop(x, j)')
                            => Blocked(x)' /\ ~DeletionPending(x)'
    BY <1>1 DEF DeadEnds
  <2>0. /\ row[x].there \/ DeletionPending(x) => \A j \in DOMAIN log : OnTop(x, j) => ~Restores(log[j])
        /\ DeletionPending(x) => ~row[x].there
        /\ \A j \in Standing(x) : Redeletes(log[j]) \/ (Restores(log[j]) /\ ~OnTop(x, j))
              => Blocked(x) /\ ~DeletionPending(x)
    BY DEF AuditInv, DeadEnds
  <2>1. CASE x # e
    <3>1. Standing(x)' = Standing(x) /\ \A j : OnTop(x, j)' <=> OnTop(x, j)
      BY <1>14, <2>1 DEF OnTop
    <3>2. \A j \in Standing(x) : j \in DOMAIN log /\ log'[j] = log[j]
      BY <1>6 DEF Standing
    <3>3. \A j : OnTop(x, j) => j \in Standing(x)
      BY DEF OnTop
    <3>4. Blocked(x) => Blocked(x)'
      BY <1>1, <1>9, <3>1, <3>2, <3>3 DEF Blocked
    <3> QED
      BY <1>17, <2>0, <3>1, <3>2, <3>3, <3>4
  <2>2. CASE x = e
    <3>1. /\ Standing(x)' = Standing(x) \cup {n}
          /\ \A j \in Standing(x) : j \in DOMAIN log /\ j < n /\ j \in Nat /\ log'[j] = log[j]
      BY <1>6, <1>9, <1>14, <2>2 DEF Standing
    <3>2. OnTop(x, n)' /\ \A j \in Standing(x)' : OnTop(x, j)' => j = n
      <4>1. \A j \in Standing(x)' : j <= n
        BY <1>6, <3>1
      <4>2. \A j \in Standing(x) : ~(n <= j)
        BY <1>6, <3>1
      <4>3. n \in Standing(x)'
        BY <3>1
      <4>4. OnTop(x, n)'
        BY <4>1, <4>3 DEF OnTop
      <4>5. ASSUME NEW j \in Standing(x)', OnTop(x, j)'
            PROVE  j = n
        <5>1. n <= j
          BY <4>3, <4>5 DEF OnTop
        <5> QED
          BY <3>1, <4>2, <5>1
      <4> QED
        BY <4>4, <4>5
    <3>3. /\ Restores(entry) => action = "DELETE"
          /\ ~Redeletes(entry)
      <4>1. EffectiveAction(entry) = action
        BY <1>5, <2>2, EffectiveOnPlaces
      <4> QED
        BY <1>4, <1>5, <4>1, AbsentFields DEF Restores, Redeletes
    <3>4. action = "DELETE" => DeletionPending(x)
      BY <1>13, <2>2 DEF DeletionPending
    <3>5. DeletionPending(x)' => action # "DELETE"
      <4> SUFFICES ASSUME DeletionPending(x)', action = "DELETE" PROVE FALSE
        OBVIOUS
      <4>1. PICK t \in Slots : At(t, x, "done")' /\ edit'[t].action = "DELETE"
        BY DEF DeletionPending
      <4>2. t # s /\ edit[t].phase = "done" /\ edit[t].entity = x /\ edit[t].action = "DELETE"
        BY <1>7, <1>13, <4>1 DEF At
      <4> QED
        BY <1>0, <1>1, <2>2, <4>2 DEF AuditInv, OneDeletion
    <3>6. row[x].there \/ DeletionPending(x)' => ~Restores(entry)
      BY <2>0, <3>3, <3>4, <3>5
    <3>7. ~row[x].there /\ ~DeletionPending(x) => Blocked(x)'
      <4> SUFFICES ASSUME ~row[x].there, ~DeletionPending(x) PROVE Blocked(x)'
        OBVIOUS
      <4>1. ~Restores(log'[n])
        BY <1>6, <3>3, <3>4
      <4>2. n \in DOMAIN log' /\ OnTop(x, n)' /\ ~row'[x].there
        BY <1>1, <1>9a, <3>2
      <4> QED
        BY <4>1, <4>2 DEF Blocked
    <3>8. ASSUME NEW j \in Standing(x)', Redeletes(log'[j]) \/ (Restores(log'[j]) /\ ~OnTop(x, j)')
          PROVE  Blocked(x)' /\ ~DeletionPending(x)'
      <4>1. j \in Standing(x) /\ log'[j] = log[j]
        <5>1. j # n
          <6>1. log'[n] = entry /\ OnTop(x, n)' /\ ~Redeletes(entry)
            BY <1>6, <3>2, <3>3
          <6> QED
            BY <3>8, <6>1
        <5> QED
          BY <3>1, <3>8, <5>1
      <4>2. ~row[x].there /\ ~DeletionPending(x)
        <5>1. CASE Redeletes(log[j]) \/ ~OnTop(x, j)
          BY <2>0, <3>8, <4>1, <5>1 DEF Blocked
        <5>2. CASE ~Redeletes(log[j]) /\ OnTop(x, j)
          BY <2>0, <3>1, <3>8, <4>1, <5>2
        <5> QED
          BY <5>1, <5>2
      <4> QED
        BY <1>17, <3>7, <4>2
    <3>9. \A j \in DOMAIN log' : OnTop(x, j)' => j = n
      BY <3>2 DEF OnTop
    <3> QED
      BY <1>6, <1>17, <2>0, <3>6, <3>8, <3>9
  <2> QED
    BY <2>1, <2>2
<1>19. ToldAsItIs'
  <2> SUFFICES ASSUME NEW x \in Entities \ Invites, told[x]
               PROVE  /\ \A q, t \in Slots : edit'[q].phase # "idle" /\ edit'[t].phase # "idle"
                            /\ edit'[q].entity = x /\ edit'[t].entity = x => q = t
                      /\ \A t \in Slots : At(t, x, "done")' => edit'[t].after = row'[x]
                      /\ (\A t \in Slots : ~At(t, x, "done")') =>
                            \A j \in DOMAIN log' : Newest(x, j)' => row'[x] = log'[j].after
    BY <1>1 DEF ToldAsItIs
  <2>1. /\ \A q, t \in Slots : edit[q].phase # "idle" /\ edit[t].phase # "idle"
                /\ edit[q].entity = x /\ edit[t].entity = x => q = t
        /\ \A t \in Slots : At(t, x, "done") => edit[t].after = row[x]
        /\ (\A t \in Slots : ~At(t, x, "done")) =>
              \A j \in DOMAIN log : Newest(x, j) => row[x] = log[j].after
    BY DEF AuditInv, ToldAsItIs
  <2>2. \A q, t \in Slots : edit'[q].phase # "idle" /\ edit'[t].phase # "idle"
            /\ edit'[q].entity = x /\ edit'[t].entity = x => q = t
    BY <1>3, <1>7, <2>1
  <2>3. \A t \in Slots : At(t, x, "done")' => edit'[t].after = row'[x]
    BY <1>1, <1>7, <1>13, <2>1
  <2>4. ASSUME \A t \in Slots : ~At(t, x, "done")', NEW j \in DOMAIN log', Newest(x, j)'
        PROVE  row'[x] = log'[j].after
    <3>1. CASE x = e
      <4>1. n <= j
        BY <1>5, <1>6, <1>9a, <2>4, <3>1 DEF Newest
      <4>2. j = n
        BY <1>6, <1>8, <1>9, <4>1
      <4> QED
        BY <1>1, <1>5, <1>6, <1>13, <2>1, <3>1, <4>2
    <3>2. CASE x # e
      <4>1. j \in DOMAIN log /\ log'[j] = log[j]
        BY <1>5, <1>6, <1>8, <2>4, <3>2 DEF Newest
      <4>2. Newest(x, j)
        BY <1>6, <1>9, <2>4, <4>1 DEF Newest
      <4>3. \A t \in Slots : ~At(t, x, "done")
        BY <1>0, <1>13, <2>4, <3>2 DEF At
      <4> QED
        BY <1>1, <2>1, <4>1, <4>2, <4>3
    <3> QED
      BY <3>1, <3>2
  <2> QED
    BY <2>2, <2>3, <2>4
<1>20. StillOpen
  BY <1>1 DEF StillOpen
<1>21. RevertsAreSound'
  BY <1>6, <1>9, <1>20, RevertsGoOn
<1>22. \A k \in DOMAIN log : log[k].entity # e => Chain(k)' = Chain(k)
  <2> SUFFICES ASSUME NEW k \in DOMAIN log, log[k].entity # e
               PROVE  Chain(k)' = Chain(k)
    OBVIOUS
  <2>1. log'[k].entity = log[k].entity /\ log'[n].entity # log[k].entity
    BY <1>5, <1>6
  <2>2. ASSUME NEW j
        PROVE  j \in Chain(k)' <=> j \in Chain(k)
    <3>1. j \in k .. Len(log') <=> j \in k .. Len(log) \/ j = n
      BY <1>2, <1>n, <1>6
    <3>2. j \in k .. Len(log) => log'[j] = log[j]
      BY <1>2, <1>6
    <3>3. j = n => j \notin Chain(k)' /\ j \notin Chain(k)
      BY <1>2, <1>n, <2>1 DEF Chain
    <3> QED
      BY <2>1, <3>1, <3>2, <3>3 DEF Chain
  <2> QED
    BY <2>2 DEF Chain
<1>23. ToldAlone'
  <2> SUFFICES ASSUME NEW x \in Entities \ Invites, told[x], NEW r \in Reverts, Reverted(r, x)'
               PROVE  /\ \A t \in Slots : ~(edit'[t].phase # "idle" /\ edit'[t].entity = x)
                      /\ \A q \in Reverts : Reverted(q, x)' => q = r
                      /\ revert'[r].chain = Chain(revert[r].k)'
    BY <1>1 DEF ToldAlone
  <2>1. \A q \in Reverts : revert[q].open => revert[q].k \in DOMAIN log
    BY DEF AuditInv, RevertsAreSound, ChainSound
  <2>2. \A q \in Reverts : Reverted(q, x)' => Reverted(q, x)
    BY <1>1, <1>6, <2>1 DEF Reverted
  <2>3. /\ \A t \in Slots : ~(edit[t].phase # "idle" /\ edit[t].entity = x)
        /\ \A q \in Reverts : Reverted(q, x) => q = r
        /\ revert[r].chain = Chain(revert[r].k)
    BY <2>2 DEF AuditInv, ToldAlone
  <2>4. \A t \in Slots : ~(edit'[t].phase # "idle" /\ edit'[t].entity = x)
    BY <1>3, <1>7, <2>3
  <2>5. x # e
    BY <1>0, <1>1, <2>3
  <2>6. PICK k : k = revert[r].k
    OBVIOUS
  <2>7. k \in DOMAIN log /\ log[k].entity = x
    BY <2>1, <2>2, <2>6 DEF Reverted
  <2>8. Chain(k)' = Chain(k) /\ revert'[r].k = k
    BY <1>1, <1>22, <2>5, <2>6, <2>7
  <2>9. Chain(revert[r].k)' = Chain(k)'
    BY <2>8 DEF Chain
  <2> QED
    BY <1>1, <2>2, <2>3, <2>4, <2>6, <2>8, <2>9
<1> QED
  BY <1>1, <1>10, <1>11, <1>12, <1>15, <1>16, <1>18, <1>19, <1>21, <1>23
  DEF AuditInv, DbSound, Typed, Linked, Followed, Refers
\* The mark is all that changes of an entry.
LEMMA MarkedFields ==
    ASSUME NEW step \in Entry
    PROVE  /\ Marked(step) \in Entry /\ Marked(step).reverted
           /\ Marked(step).entity = step.entity /\ Marked(step).action = step.action
           /\ Marked(step).before = step.before /\ Marked(step).after = step.after
           /\ Marked(step).isRevert = step.isRevert
           /\ EntrySound(step) => EntrySound(Marked(step))
<1>1. /\ Marked(step) \in Entry /\ Marked(step).reverted
      /\ Marked(step).entity = step.entity /\ Marked(step).action = step.action
      /\ Marked(step).before = step.before /\ Marked(step).after = step.after
      /\ Marked(step).isRevert = step.isRevert
  BY DEF Marked, Entry
<1> QED
  BY <1>1 DEF EntrySound

LEMMA BeginKeepsAudit ==
    ASSUME AuditInv, NEW r \in Reverts, NEW actor \in Users, NEW k \in DOMAIN log,
           BeginRevert(r, actor, k)
    PROVE  AuditInv'
<1> DEFINE begun == [open |-> TRUE, actor |-> actor, k |-> k, chain |-> Chain(k), past |-> {row}]
<1>e. PICK e \in Entities : e = log[k].entity
  BY EntryFields DEF AuditInv, EntriesAreSound
<1>1. /\ ~log[k].reverted /\ \A j \in Chain(k) : Revertible(log[j])
      /\ revert' = [revert EXCEPT ![r] = begun]
      /\ told' = [told EXCEPT ![e] = @ /\ ~InFlight(e)]
      /\ row' = row /\ log' = log /\ edit' = edit /\ edits' = edits /\ overtaken' = overtaken
  BY <1>e DEF BeginRevert
<1>2. /\ log \in Seq(Entry) /\ Len(log) \in Nat /\ Len(log) <= MaxLog /\ MaxLog \in Nat
      /\ DOMAIN log = 1 .. Len(log) /\ row \in [Entities -> Row]
      /\ revert \in [Reverts -> Reverting] /\ told \in [Entities -> BOOLEAN]
  BY BoundsAreNat DEF AuditInv, TypeOK
<1>3. /\ Chain(k) = {j \in Standing(e) : j >= k} /\ Chain(k) \subseteq 1 .. Len(log)
  BY <1>2, <1>e, ChainStands
<1>4. ChainSound(k, Chain(k))
  <2>1. k \in Chain(k)
    BY <1>1, <1>2 DEF Chain
  <2>2. \A j \in Chain(k) : j >= k /\ log[j].entity = log[k].entity
    BY <1>2 DEF Chain
  <2> QED
    BY <1>1, <1>2, <1>3, <2>1, <2>2 DEF ChainSound
<1>5. begun \in Reverting
  BY <1>2, <1>3 DEF Reverting
<1>6. /\ begun.open /\ begun.k = k /\ begun.chain = Chain(k)
      /\ revert' \in [Reverts -> Reverting] /\ revert'[r] = begun
      /\ \A q \in Reverts \ {r} : revert'[q] = revert[q]
  BY <1>1, <1>2, <1>5
<1> HIDE DEF begun
<1>7. TypeOK'
  <2>1. told' \in [Entities -> BOOLEAN]
    BY <1>1, <1>2
  <2> QED
    BY <1>1, <1>6, <2>1 DEF AuditInv, TypeOK
<1>8. RevertsAreSound'
  <2> SUFFICES ASSUME NEW q \in Reverts, revert'[q].open
               PROVE  ChainSound(revert[q].k, revert[q].chain)'
    BY DEF RevertsAreSound
  <2>1. PICK i, chain : i = revert'[q].k /\ chain = revert'[q].chain
    OBVIOUS
  <2>2. ChainSound(i, chain)
    <3>1. CASE q = r
      BY <1>4, <1>6, <2>1, <3>1
    <3>2. CASE q # r
      BY <1>6, <2>1, <3>2 DEF AuditInv, RevertsAreSound
    <3> QED
      BY <3>1, <3>2
  <2>3. ChainSound(i, chain)'
    BY <1>1, <2>2 DEF ChainSound, Revertible
  <2> QED
    BY <2>1, <2>3 DEF ChainSound
<1>9. \A x \in Entities : told'[x] => told[x] /\ (x = e => ~InFlight(e))
  BY <1>1, <1>2
<1>10. ToldAsItIs'
  <2> SUFFICES ASSUME NEW x \in Entities \ Invites, told'[x]
               PROVE  /\ \A q, t \in Slots : edit'[q].phase # "idle" /\ edit'[t].phase # "idle"
                            /\ edit'[q].entity = x /\ edit'[t].entity = x => q = t
                      /\ \A t \in Slots : At(t, x, "done")' => edit'[t].after = row'[x]
                      /\ (\A t \in Slots : ~At(t, x, "done")') =>
                            \A j \in DOMAIN log' : Newest(x, j)' => row'[x] = log'[j].after
    BY DEF ToldAsItIs
  <2>1. told[x] /\ \A t \in Slots : At(t, x, "done")' <=> At(t, x, "done")
    BY <1>1, <1>9 DEF At
  <2>2. \A j : Newest(x, j)' <=> Newest(x, j)
    BY <1>1 DEF Newest
  <2> QED
    BY <1>1, <2>1, <2>2 DEF AuditInv, ToldAsItIs
<1>11. ToldAlone'
  <2> SUFFICES ASSUME NEW x \in Entities \ Invites, told'[x], NEW q \in Reverts, Reverted(q, x)'
               PROVE  /\ \A t \in Slots : ~(edit'[t].phase # "idle" /\ edit'[t].entity = x)
                      /\ \A p \in Reverts : Reverted(p, x)' => p = q
                      /\ revert'[q].chain = Chain(revert[q].k)'
    BY DEF ToldAlone
  <2>1. told[x] /\ (x = e => ~InFlight(e))
    BY <1>9
  <2>2. \A p \in Reverts \ {r} : Reverted(p, x)' <=> Reverted(p, x)
    BY <1>1, <1>6 DEF Reverted
  <2>3. Reverted(r, x)' => x = e
    BY <1>1, <1>6, <1>e DEF Reverted
  <2>4. \A i : Chain(i)' = Chain(i)
    BY <1>1 DEF Chain
  <2>5. PICK i : i = revert'[q].k
    OBVIOUS
  <2>6. Chain(revert[q].k)' = Chain(i)'
    BY <2>5 DEF Chain
  <2>7. CASE x = e
    <3>1. /\ \A t \in Slots : ~(edit[t].phase # "idle" /\ edit[t].entity = x)
          /\ \A p \in Reverts : ~Reverted(p, x)
      BY <2>1, <2>7 DEF InFlight, Reverted
    <3>2. \A p \in Reverts : Reverted(p, x)' => p = r
      BY <2>2, <3>1
    <3> QED
      BY <1>1, <1>6, <2>4, <2>5, <2>6, <3>1, <3>2
  <2>8. CASE x # e
    <3>1. q # r /\ \A p \in Reverts : Reverted(p, x)' => p # r /\ Reverted(p, x)
      BY <2>2, <2>3, <2>8
    <3>2. /\ \A t \in Slots : ~(edit[t].phase # "idle" /\ edit[t].entity = x)
          /\ \A p \in Reverts : Reverted(p, x) => p = q
          /\ revert[q].chain = Chain(revert[q].k)
      BY <2>1, <3>1 DEF AuditInv, ToldAlone
    <3> QED
      BY <1>1, <1>6, <2>4, <2>5, <2>6, <3>1, <3>2
  <2> QED
    BY <2>7, <2>8
<1>12. UnbornHasNoPast' /\ OneDeletion' /\ DeadEnds'
  BY <1>1, QuietStep
<1>13. EditsAreSound' /\ EntriesAreSound'
  BY <1>1 DEF AuditInv, EditsAreSound, EntriesAreSound, EditSound
<1>14. DbSound(row, overtaken)'
  <2>1. DbSound(row, overtaken)
    BY DEF AuditInv
  <2> QED
    BY <1>1, <2>1 DEF DbSound, Typed, Linked, Followed, Refers
<1> QED
  BY <1>7, <1>8, <1>10, <1>11, <1>12, <1>13, <1>14 DEF AuditInv

LEMMA AbortKeepsAudit ==
    ASSUME AuditInv, NEW r \in Reverts, AbortRevert(r)
    PROVE  AuditInv'
<1>1. /\ revert' = [revert EXCEPT ![r] = NoRevert]
      /\ row' = row /\ log' = log /\ edit' = edit /\ edits' = edits /\ told' = told
      /\ overtaken' = overtaken
  BY DEF AbortRevert
<1>2. revert \in [Reverts -> Reverting] /\ Users # {}
  <2>1. revert[r].actor \in Users
    BY DEF AuditInv, TypeOK, Reverting
  <2> QED
    BY <2>1 DEF AuditInv, TypeOK
<1>3. /\ revert' \in [Reverts -> Reverting]
      /\ \A q \in Reverts : revert'[q].open => revert'[q] = revert[q]
  BY <1>1, <1>2, NoRevertFields
<1>4. TypeOK'
  BY <1>1, <1>3 DEF AuditInv, TypeOK
<1>5. StillOpen
  BY <1>3 DEF StillOpen
<1>6. RevertsAreSound'
  BY <1>1, <1>5, RevertsGoOn
<1>7. ToldAlone'
  BY <1>1, <1>5, ToldStaysAlone
<1>8. UnbornHasNoPast' /\ OneDeletion' /\ DeadEnds'
  BY <1>1, QuietStep
<1>9. EditsAreSound' /\ EntriesAreSound' /\ ToldAsItIs'
  BY <1>1 DEF AuditInv, EditsAreSound, EntriesAreSound, EditSound, ToldAsItIs, At, Newest
<1>10. DbSound(row, overtaken)'
  <2>1. DbSound(row, overtaken)
    BY DEF AuditInv
  <2> QED
    BY <1>1, <2>1 DEF DbSound, Typed, Linked, Followed, Refers
<1> QED
  BY <1>4, <1>6, <1>7, <1>8, <1>9, <1>10 DEF AuditInv

LEMMA RevertKeepsAudit ==
    ASSUME AuditInv, NEW r \in Reverts, CommitRevert(r)
    PROVE  AuditInv'
<1>k. PICK k, chain : k = revert[r].k /\ chain = revert[r].chain
  OBVIOUS
<1>0. RevertMade(k, chain)
  BY <1>k, RevertMakes
<1>e. PICK e \in Entities : e = log[k].entity
  BY <1>0 DEF RevertMade
<1>n. PICK last \in Nat : last = Len(log')
  BY <1>0 DEF RevertMade
<1>1. /\ log \in Seq(Entry) /\ ChainSound(k, chain)
      /\ DbSound(row', overtaken')
      /\ overtaken \subseteq overtaken' /\ overtaken' \subseteq Entities
      /\ e \notin overtaken' => Fresh(k, chain) /\ k \in Standing(e)
      /\ log' \in Seq(Entry) /\ last > Len(log) /\ last <= MaxLog
      /\ \A j \in DOMAIN log : log'[j] = IF j \in chain THEN Marked(log[j]) ELSE log[j]
      /\ \A j \in Len(log) + 1 .. last :
            /\ EntrySound(log'[j]) /\ log'[j].entity = e
            /\ log'[j].isRevert /\ ~log'[j].reverted
            /\ j # last /\ e \in Places /\ Fresh(k, chain) => ~Restores(log'[j]) /\ ~Redeletes(log'[j])
      /\ log'[last] = RevertEntry(log[k])
  BY <1>0, <1>e, <1>n DEF RevertMade
<1>2. /\ \A x \in Entities \ {e} :
              /\ row'[x] = row[x] \/ (e \in Orgs /\ x \in Members(row, e))
              /\ (row'[x].there <=> row[x].there) /\ row'[x].org = row[x].org
      /\ e \in Users => row'[e] = log[k].before
      /\ e \in Places => row'[e] # Unborn
      /\ e \in Places /\ Fresh(k, chain) =>
            row'[e] = log[k].before /\ ~Blocked(e) /\ ~DeletionPending(e)
  BY <1>0, <1>e DEF RevertMade
<1>3. /\ edit' = edit /\ edits' = edits
      /\ told' = [x \in Entities |-> told[x] /\ x \notin overtaken' /\ (x # e => row'[x] = row[x])]
      /\ revert' = [Passing(row') EXCEPT ![r] = NoRevert]
      /\ Reverted(r, e)
  BY <1>e, <1>k DEF CommitRevert, Reverted
<1>4. /\ DOMAIN log = 1 .. Len(log) /\ DOMAIN log' = 1 .. last /\ Len(log) \in Nat /\ k \in 1 .. Len(log)
      /\ last \in DOMAIN log' /\ last \notin DOMAIN log /\ last \in Len(log) + 1 .. last
      /\ \A j \in DOMAIN log' : j \in DOMAIN log \/ j \in Len(log) + 1 .. last
      /\ \A j \in Len(log) + 1 .. last : j \in DOMAIN log' /\ j \notin DOMAIN log /\ k < j
  BY <1>1, <1>n, ChainFacts
<1>5. /\ EntrySound(log[k]) /\ k \in chain /\ \A j \in chain : log[j].entity = e
      /\ Fresh(k, chain) => chain = {j \in Standing(e) : j >= k}
  BY <1>1, <1>e, <1>4, ChainStands DEF AuditInv, EntriesAreSound, ChainSound, Fresh
<1>18. last > k /\ k \in DOMAIN log
  BY <1>1, <1>4
<1>6. ASSUME NEW j \in DOMAIN log
      PROVE  /\ log'[j].entity = log[j].entity /\ log'[j].action = log[j].action
             /\ log'[j].before = log[j].before /\ log'[j].after = log[j].after
             /\ log'[j].isRevert = log[j].isRevert /\ (EntrySound(log[j]) => EntrySound(log'[j]))
             /\ j \notin chain => log'[j] = log[j]
             /\ log'[j].reverted <=> log[j].reverted \/ j \in chain
  <2>1. log[j] \in Entry
    BY <1>1
  <2>2. CASE j \in chain
    <3>1. log'[j] = Marked(log[j])
      BY <1>1, <2>2
    <3> QED
      BY <2>1, <2>2, <3>1, MarkedFields
  <2>3. CASE j \notin chain
    BY <1>1, <2>1, <2>3 DEF Entry
  <2> QED
    BY <2>2, <2>3
<1>19. /\ revert' \in [Reverts -> Reverting] /\ ~revert'[r].open
       /\ \A q \in Reverts : q # r =>
             revert'[q].open = revert[q].open /\ revert'[q].k = revert[q].k /\ revert'[q].chain = revert[q].chain
  <2>1. PICK rows : rows = row'
    OBVIOUS
  <2>2. rows \in [Entities -> Row] /\ revert \in [Reverts -> Reverting]
        /\ revert' = [Passing(rows) EXCEPT ![r] = NoRevert]
    BY <1>1, <1>3, <2>1 DEF AuditInv, TypeOK, DbSound, Typed
  <2>3. /\ Passing(rows) \in [Reverts -> Reverting]
        /\ \A q \in Reverts : /\ Passing(rows)[q].open = revert[q].open
                             /\ Passing(rows)[q].k = revert[q].k
                             /\ Passing(rows)[q].chain = revert[q].chain
    BY <2>2, PassingFields
  <2>4. NoRevert \in Reverting /\ ~NoRevert.open
    <3>1. revert[r].actor \in Users
      BY <2>2 DEF Reverting
    <3> QED
      BY <3>1, NoRevertFields
  <2>5. PICK passing : passing = Passing(rows)
    OBVIOUS
  <2> QED
    BY ONLY r \in Reverts, <2>2, <2>3, <2>4, <2>5
<1>20. StillOpen
  BY <1>19 DEF StillOpen
<1>21. RevertsAreSound'
  <2>1. \A j \in DOMAIN log : j \in DOMAIN log'
    BY <1>1, <1>4
  <2> QED
    BY <1>6, <1>20, <2>1, RevertsGoOn
<1>7. TypeOK'
  <2>1. told' \in [Entities -> BOOLEAN]
    <3>1. told \in [Entities -> BOOLEAN]
      BY DEF AuditInv, TypeOK
    <3> QED
      BY <1>3, <3>1
  <2> QED
    BY <1>1, <1>n, <1>3, <1>19, <2>1 DEF AuditInv, TypeOK, DbSound, Typed, RowsOf
<1>8. EntriesAreSound'
  BY <1>1, <1>4, <1>6 DEF AuditInv, EntriesAreSound
<1>9. EditsAreSound' /\ OneDeletion'
  BY <1>1, <1>3 DEF AuditInv, EditsAreSound, EditSound, OneDeletion
<1>10. \A x \in Places : /\ x \in Entities /\ x \notin Members(row, e)
                         /\ x # e => row'[x] = row[x]
  <2>1. \A x \in Places : x \in Entities /\ x \notin Members(row, e)
    BY KeysAreApart DEF Members, Places, Entities
  <2> QED
    BY <1>2, <2>1
<1>12. UnbornHasNoPast'
  <2> SUFFICES ASSUME NEW x \in Places, row'[x] = Unborn
               PROVE  /\ \A j \in DOMAIN log' : log'[j].entity # x
                      /\ \A t \in Slots : ~At(t, x, "done")
    BY <1>3 DEF UnbornHasNoPast, At
  <2>1. x # e
    BY <1>2
  <2>2. row[x] = Unborn
    BY <1>10, <2>1
  <2>3. \A j \in DOMAIN log : log[j].entity # x
    BY <2>2 DEF AuditInv, UnbornHasNoPast
  <2>4. \A t \in Slots : ~At(t, x, "done")
    BY <2>2 DEF AuditInv, UnbornHasNoPast
  <2> QED
    BY <1>1, <1>4, <1>6, <2>1, <2>3, <2>4
<1>13. \A x : x # e => Standing(x)' = Standing(x) /\ \A j \in Standing(x) : log'[j] = log[j]
  <2> SUFFICES ASSUME NEW x, x # e
               PROVE  Standing(x)' = Standing(x) /\ \A j \in Standing(x) : log'[j] = log[j]
    OBVIOUS
  <2>1. \A j \in DOMAIN log : log[j].entity = x => j \notin chain
    BY <1>5 DEF Standing
  <2>2. \A j \in Standing(x) : j \in DOMAIN log /\ log'[j] = log[j] /\ log[j].entity = x /\ ~log[j].reverted
    BY <1>6, <2>1 DEF Standing
  <2>3. Standing(x) \subseteq Standing(x)'
    BY <1>4, <2>2 DEF Standing
  <2>4. Standing(x)' \subseteq Standing(x)
    BY <1>1, <1>4, <1>6, <2>1 DEF Standing
  <2> QED
    BY <2>2, <2>3, <2>4
<1>14. Fresh(k, chain) =>
          \A j \in Standing(e)' : \/ j \in Standing(e) /\ j < k /\ j \in DOMAIN log /\ log'[j] = log[j]
                                 \/ j \in Len(log) + 1 .. last
  <2> SUFFICES ASSUME Fresh(k, chain), NEW j \in Standing(e)', j \in DOMAIN log
               PROVE  j \in Standing(e) /\ j < k /\ log'[j] = log[j]
    BY <1>4 DEF Standing
  <2>1. log'[j].entity = e /\ ~log'[j].reverted
    BY DEF Standing
  <2>2. j \in Standing(e) /\ j \notin chain /\ log'[j] = log[j]
    BY <1>6, <2>1 DEF Standing
  <2> QED
    BY <1>4, <1>5, <2>2
<1>15. /\ last \in Standing(e)' /\ OnTop(e, last)' /\ \A j \in DOMAIN log' : OnTop(e, j)' => j = last
  <2>1. last \in Standing(e)'
    BY <1>1, <1>4 DEF Standing
  <2>2. \A j \in Standing(e)' : j \in DOMAIN log' /\ j <= last
    BY <1>4 DEF Standing
  <2>3. OnTop(e, last)'
    BY <2>1, <2>2 DEF OnTop
  <2>4. ASSUME NEW j \in DOMAIN log', OnTop(e, j)'
        PROVE  j = last
    <3>1. j \in Standing(e)' /\ last <= j
      BY <2>1, <2>4 DEF OnTop
    <3> QED
      BY <1>4, <2>2, <3>1
  <2> QED
    BY <2>1, <2>3, <2>4
<1>16. DeadEnds'
  <2> SUFFICES ASSUME NEW x \in Places, x \notin overtaken'
               PROVE  /\ row'[x].there \/ DeletionPending(x)' =>
                            \A j \in DOMAIN log' : OnTop(x, j)' => ~Restores(log'[j])
                      /\ DeletionPending(x)' => ~row'[x].there
                      /\ \A j \in Standing(x)' : Redeletes(log'[j]) \/ (Restores(log'[j]) /\ ~OnTop(x, j)')
                            => Blocked(x)' /\ ~DeletionPending(x)'
    BY DEF DeadEnds
  <2>1. DeletionPending(x)' <=> DeletionPending(x)
    BY <1>3 DEF DeletionPending, At
  <2>2. CASE x # e
    <3>1. /\ row'[x] = row[x] /\ Standing(x)' = Standing(x)
          /\ \A j \in Standing(x) : log'[j] = log[j] /\ j \in DOMAIN log'
          /\ \A j : OnTop(x, j)' <=> OnTop(x, j)
      BY <1>10, <1>13, <2>2 DEF OnTop, Standing
    <3>2. \A j : OnTop(x, j) => j \in Standing(x) /\ j \in DOMAIN log
      BY DEF OnTop, Standing
    <3>3. Blocked(x) => Blocked(x)'
      BY <3>1, <3>2 DEF Blocked
    <3>4. /\ row[x].there \/ DeletionPending(x) => \A j \in DOMAIN log : OnTop(x, j) => ~Restores(log[j])
          /\ DeletionPending(x) => ~row[x].there
          /\ \A j \in Standing(x) : Redeletes(log[j]) \/ (Restores(log[j]) /\ ~OnTop(x, j))
                => Blocked(x) /\ ~DeletionPending(x)
      BY <1>1 DEF AuditInv, DeadEnds
    <3> QED
      BY <2>1, <3>1, <3>2, <3>3, <3>4
  <2>3. CASE x = e
    <3>1. /\ row'[e] = log[k].before /\ ~Blocked(e) /\ ~DeletionPending(e)
          /\ e \in Places \ overtaken /\ Fresh(k, chain) /\ k \in Standing(e)
      BY <1>1, <1>2, <2>3
    <3>2. Restores(log'[last]) \/ Redeletes(log'[last]) => ~row'[e].there
      <4>1. log[k].entity \in Places /\ (Restores(RevertEntry(log[k])) \/ Redeletes(RevertEntry(log[k])))
                => ~log[k].before.there
        BY <1>5, RevertEntrySound
      <4> QED
        BY <1>1, <1>e, <3>1, <4>1
    <3>3. row'[e].there => \A j \in DOMAIN log' : OnTop(e, j)' => ~Restores(log'[j])
      BY <1>15, <3>2
    <3>4. ASSUME NEW j \in Standing(e)', Redeletes(log'[j]) \/ (Restores(log'[j]) /\ ~OnTop(e, j)')
          PROVE  Blocked(e)'
      <4>1. CASE j \in Standing(e) /\ j < k /\ log'[j] = log[j]
        <5>1. ~OnTop(e, j)
          BY <1>1, <1>4, <3>1, <4>1 DEF OnTop, Standing
        <5>2. Redeletes(log[j]) \/ Restores(log[j])
          BY <3>4, <4>1
        <5>3. Blocked(e)
          BY <3>1, <4>1, <5>1, <5>2 DEF AuditInv, DeadEnds
        <5> QED
          BY <3>1, <5>3
      <4>2. CASE j \in Len(log) + 1 .. last
        <5>1. j = last
          BY <1>1, <3>1, <3>4, <4>2
        <5>2. Redeletes(log'[last])
          BY <1>15, <3>4, <5>1
        <5>3. ~row'[e].there /\ ~Restores(log'[last])
          BY <3>2, <5>2 DEF Restores, Redeletes
        <5> QED
          BY <1>4, <1>15, <5>3 DEF Blocked
      <4> QED
        BY <1>14, <3>1, <3>4, <4>1, <4>2
    <3> QED
      BY <2>1, <2>3, <3>1, <3>3, <3>4
  <2> QED
    BY <2>2, <2>3
<1>17. ToldAsItIs'
  <2> SUFFICES ASSUME NEW x \in Entities \ Invites, told'[x]
               PROVE  /\ \A q, t \in Slots : edit'[q].phase # "idle" /\ edit'[t].phase # "idle"
                            /\ edit'[q].entity = x /\ edit'[t].entity = x => q = t
                      /\ \A t \in Slots : At(t, x, "done")' => edit'[t].after = row'[x]
                      /\ (\A t \in Slots : ~At(t, x, "done")') =>
                            \A j \in DOMAIN log' : Newest(x, j)' => row'[x] = log'[j].after
    BY DEF ToldAsItIs
  <2>0. \A t \in Slots : At(t, x, "done")' <=> At(t, x, "done")
    BY <1>3 DEF At
  <2>1. told[x] /\ x \notin overtaken' /\ (x # e => row'[x] = row[x])
    BY <1>3
  <2>2. /\ \A q, t \in Slots : edit[q].phase # "idle" /\ edit[t].phase # "idle"
                /\ edit[q].entity = x /\ edit[t].entity = x => q = t
        /\ \A t \in Slots : At(t, x, "done") => edit[t].after = row[x]
        /\ (\A t \in Slots : ~At(t, x, "done")) =>
              \A j \in DOMAIN log : Newest(x, j) => row[x] = log[j].after
    BY <2>1 DEF AuditInv, ToldAsItIs
  <2>3. CASE x = e
    <3>1. \A t \in Slots : ~(edit[t].phase # "idle" /\ edit[t].entity = x)
      BY <1>3, <2>1, <2>3 DEF AuditInv, ToldAlone
    <3>2. \A t \in Slots : ~At(t, x, "done")
      BY <3>1 DEF At
    <3>3. e \in Users \cup Places
      BY <2>3 DEF Entities, Places
    <3>4. log'[last].entity = e /\ log'[last].after = row'[e]
      <4>1. row'[e] = log[k].before
        BY <1>1, <1>2, <2>1, <2>3, <3>3
      <4> QED
        BY <1>1, <1>4, <1>5, <4>1, RevertEntrySound
    <3>5. \A j \in DOMAIN log' : Newest(x, j)' => j = last
      BY <1>4, <2>3, <3>4 DEF Newest
    <3> QED
      BY <1>3, <2>0, <2>3, <3>1, <3>2, <3>4, <3>5
  <2>4. CASE x # e
    <3>1. row'[x] = row[x]
      BY <2>1, <2>4
    <3>2. ASSUME NEW j \in DOMAIN log', Newest(x, j)'
          PROVE  j \in DOMAIN log /\ Newest(x, j) /\ log'[j].after = log[j].after
      <4>1. j \in DOMAIN log
        BY <1>1, <1>4, <2>4, <3>2 DEF Newest
      <4>2. \A i \in DOMAIN log : i \in DOMAIN log' /\ log'[i].entity = log[i].entity
        BY <1>4, <1>6
      <4> QED
        BY <1>6, <3>2, <4>1, <4>2 DEF Newest
    <3> QED
      BY <1>3, <2>0, <2>2, <3>1, <3>2
  <2> QED
    BY <2>3, <2>4
<1>22. \A i \in DOMAIN log : log[i].entity # e => Chain(i)' = Chain(i)
  <2> SUFFICES ASSUME NEW i \in DOMAIN log, log[i].entity # e
               PROVE  Chain(i)' = Chain(i)
    OBVIOUS
  <2>1. log'[i].entity = log[i].entity /\ i \in Nat
    BY <1>4, <1>6
  <2>2. ASSUME NEW j
        PROVE  j \in Chain(i)' <=> j \in Chain(i)
    <3>1. j \in i .. Len(log') <=> j \in i .. Len(log) \/ (j \in i .. last /\ j \in Len(log) + 1 .. last)
      BY <1>1, <1>n, <1>4, <2>1
    <3>2. j \in i .. Len(log) => j \in DOMAIN log
      BY <1>4, <2>1
    <3>3. j \in DOMAIN log /\ log[j].entity = log[i].entity => log'[j] = log[j]
      BY <1>5, <1>6
    <3>4. j \in Len(log) + 1 .. last => j \notin Chain(i)' /\ j \notin Chain(i)
      BY <1>1, <1>4, <2>1 DEF Chain
    <3>5. j \in DOMAIN log => log'[j].entity = log[j].entity
      BY <1>6
    <3> QED
      BY <2>1, <3>1, <3>2, <3>3, <3>4, <3>5 DEF Chain
  <2> QED
    BY <2>2 DEF Chain
<1>23. ToldAlone'
  <2> SUFFICES ASSUME NEW x \in Entities \ Invites, told'[x], NEW q \in Reverts, Reverted(q, x)'
               PROVE  /\ \A t \in Slots : ~(edit'[t].phase # "idle" /\ edit'[t].entity = x)
                      /\ \A p \in Reverts : Reverted(p, x)' => p = q
                      /\ revert'[q].chain = Chain(revert[q].k)'
    BY DEF ToldAlone
  <2>0. told[x]
    BY <1>3
  <2>1. \A p \in Reverts : revert[p].open => revert[p].k \in DOMAIN log
    BY DEF AuditInv, RevertsAreSound, ChainSound
  <2>2. \A p \in Reverts : Reverted(p, x)' => p # r /\ Reverted(p, x)
    BY <1>6, <1>19, <2>1 DEF Reverted
  <2>3. /\ \A t \in Slots : ~(edit[t].phase # "idle" /\ edit[t].entity = x)
        /\ \A p \in Reverts : Reverted(p, x) => p = q
        /\ revert[q].chain = Chain(revert[q].k)
    BY <2>0, <2>2 DEF AuditInv, ToldAlone
  <2>4. x # e
    BY <1>3, <2>2, <2>3
  <2>5. PICK i : i = revert[q].k
    OBVIOUS
  <2>6. i \in DOMAIN log /\ log[i].entity = x /\ revert'[q].k = i /\ revert'[q].chain = revert[q].chain
    BY <1>19, <2>1, <2>2, <2>5 DEF Reverted
  <2>7. Chain(i)' = Chain(i)
    BY <1>22, <2>4, <2>6
  <2>8. Chain(revert[q].k)' = Chain(i)'
    BY <2>6 DEF Chain
  <2> QED
    BY <1>3, <2>2, <2>3, <2>5, <2>6, <2>7, <2>8
<1>24. DbSound(row, overtaken)'
  BY <1>1
<1> QED
  BY <1>7, <1>8, <1>9, <1>12, <1>16, <1>17, <1>21, <1>23, <1>24 DEF AuditInv
\* What administrators do, and what happens without them, keeps the invariant.
THEOREM AuditRevertInvariant == Spec => []AuditInv
<1>1. Init => AuditInv
  BY AuditBegins
<1>2. AuditInv /\ [Next]_vars => AuditInv'
  <2> SUFFICES ASSUME AuditInv, [Next]_vars
               PROVE  AuditInv'
    OBVIOUS
  <2>1. ASSUME NEW s \in Slots, Start(s) PROVE AuditInv'
    BY <2>1, StartKeepsAudit
  <2>2. ASSUME NEW s \in Slots, Commit(s) PROVE AuditInv'
    BY <2>2, CommitKeepsAudit
  <2>3. ASSUME NEW s \in Slots, Record(s) PROVE AuditInv'
    BY <2>3, RecordKeepsAudit
  <2>4. ASSUME NEW s \in Slots, Lose(s) PROVE AuditInv'
    BY <2>4, FreedKeepsAudit DEF Lose
  <2>5. ASSUME NEW s \in Slots, Abandon(s) PROVE AuditInv'
    BY <2>5, FreedKeepsAudit DEF Abandon
  <2>6. ASSUME NEW i \in Invites, NEW state \in {"USED", "EXPIRED"}, Outside(i, state) PROVE AuditInv'
    BY <2>6, OutsideKeepsAudit
  <2>7. ASSUME NEW r \in Reverts, NEW actor \in Users, NEW k \in DOMAIN log, BeginRevert(r, actor, k)
        PROVE  AuditInv'
    BY <2>7, BeginKeepsAudit
  <2>9. ASSUME NEW r \in Reverts, CommitRevert(r) PROVE AuditInv'
    BY <2>9, RevertKeepsAudit
  <2>10. ASSUME NEW r \in Reverts, AbortRevert(r) PROVE AuditInv'
    BY <2>10, AbortKeepsAudit
  <2>8. CASE UNCHANGED vars
    BY <2>8 DEF vars, AuditInv, TypeOK, DbSound, Typed, Linked, Followed, Refers, EntriesAreSound,
       EditsAreSound, EditSound, RevertsAreSound, ChainSound, UnbornHasNoPast, OneDeletion, DeadEnds,
       ToldAsItIs, ToldAlone, Reverted, Chain, At, Standing, OnTop, DeletionPending, Blocked, Newest
  <2> QED
    BY <2>1, <2>2, <2>3, <2>4, <2>5, <2>6, <2>7, <2>8, <2>9, <2>10 DEF Next
<1> QED
  BY <1>1, <1>2, PTL DEF Spec

\* The rows, the log and the edits under way are what the code can hold: a row
\* is one its table accepts, and the log stays within its bound.
THEOREM AuditRevertTypeCorrect == Spec => []TypeOK
<1>1. AuditInv => TypeOK
  BY DEF AuditInv
<1> QED
  BY <1>1, AuditRevertInvariant, PTL

\* A user of an organization has the organization's gmina, whatever is edited
\* and reverted, in any order and by transactions that other commits come in
\* between of (auditLog.ts:609-619, 896-915), unless a revert has put the user, or
\* left it, on a row it had read and that was another by then (610-675).
THEOREM AuditRevertMembersFollow == Spec => []MembersFollow
<1>1. AuditInv => MembersFollow
  BY DEF AuditInv, DbSound, Followed, MembersFollow
<1> QED
  BY <1>1, AuditRevertInvariant, PTL

LEMMA NewestEntry ==
    ASSUME NEW S, S # {}, NEW n \in Nat, S \subseteq 1 .. n
    PROVE  Max(S) \in S /\ \A i \in S : i <= Max(S)
<1> DEFINE Back == {n - i : i \in S}
<1>0. \A i \in S : i \in Int /\ 1 <= i /\ i <= n
  OBVIOUS
<1>1. Back \subseteq 0 .. n /\ Back # {}
  <2>1. \A i \in S : n - i \in 0 .. n
    BY <1>0
  <2> QED
    BY <2>1
<1>2. PICK x \in Back : \A y \in Back : x <= y
  <2> HIDE DEF Back
  <2> QED
    BY <1>1, LeastOf
<1>3. PICK m \in S : x = n - m
  BY <1>2
<1>4. \A i \in S : m >= i
  <2>1. \A i \in S : n - m <= n - i
    BY <1>2, <1>3
  <2> QED
    BY <1>0, <2>1
<1>5. Max(S) \in S /\ \A i \in S : Max(S) >= i
  BY <1>4 DEF Max
<1> QED
  BY <1>5

\* The newest entry of a record's history shows the record as it is, reverts
\* included, when every edit was recorded, none overlapped another or a revert,
\* and no revert of the record was overtaken.
THEOREM AuditRevertLogTellsState == Spec => []LogTellsState
<1>1. ASSUME AuditInv
      PROVE  LogTellsState
  <2> SUFFICES ASSUME NEW e \in Entities \ Invites, told[e], ~InFlight(e),
                      {k \in DOMAIN log : log[k].entity = e} # {}
               PROVE  row[e] = log[Max({k \in DOMAIN log : log[k].entity = e})].after
    BY DEF LogTellsState
  <2> DEFINE history == {k \in DOMAIN log : log[k].entity = e}
  <2>1. Len(log) \in Nat /\ history \subseteq 1 .. Len(log) /\ history # {}
    BY <1>1 DEF AuditInv, TypeOK
  <2> HIDE DEF history
  <2>2. Max(history) \in history /\ \A i \in history : i <= Max(history)
    BY <2>1, NewestEntry
  <2>3. Max(history) \in DOMAIN log /\ Newest(e, Max(history))
    BY <2>2 DEF history, Newest
  <2>4. \A s \in Slots : ~At(s, e, "done")
    BY DEF InFlight, At
  <2>5. row[e] = log[Max(history)].after
    BY <1>1, <2>3, <2>4 DEF AuditInv, ToldAsItIs
  <2> QED
    BY <2>5 DEF history
<1> QED
  BY <1>1, AuditRevertInvariant, PTL

LEMMA FirstOfChain ==
    ASSUME NEW S, NEW k \in S, S \subseteq Int, \A j \in S : k <= j
    PROVE  Min(S) = k
<1>1. Min(S) \in S /\ \A j \in S : Min(S) <= j
  BY DEF Min
<1>2. Min(S) <= k /\ k <= Min(S) /\ k \in Int /\ Min(S) \in Int
  BY <1>1
<1> QED
  BY <1>2

\* Nothing but a revert marks an entry as reverted.
LEMMA OnlyRevertsMark ==
    ASSUME AuditInv, [Next]_vars, NEW e, Undoing(e) # {}
    PROVE  \E r \in Reverts : CommitRevert(r)
<1>1. log \in Seq(Entry)
  BY DEF AuditInv, TypeOK
<1>2. ~(log' = log)
  BY DEF Undoing
<1>3. ASSUME NEW s \in Slots, Record(s)
      PROVE  FALSE
  <2>1. \A j \in DOMAIN log : log'[j] = log[j]
    BY <1>1, <1>3 DEF Record
  <2> QED
    BY <2>1 DEF Undoing
<1> QED
  BY <1>2, <1>3 DEF Next, vars, Start, Commit, Lose, Abandon, Outside, BeginRevert, AbortRevert

\* A revert that succeeds leaves the record exactly as it was before the entry
\* that was asked for, however many entries it goes through and whatever they
\* are, reverts of reverts included; an invite is usable afterwards exactly if
\* that entry's effect was to withdraw it, and a used one is refused
\* (auditLog.ts:381-389, 335-349, 965-1003).  The record may not have moved on,
\* in the table or in the log, since the transaction read it.
THEOREM AuditRevertTakesEffect == Spec => RevertsTakeEffect
<1> DEFINE Effective ==
        /\ \A e \in Entities \ (Invites \cup overtaken') :
              Undoing(e) # {} => row'[e] = AskedFor(e).before
        /\ \A i \in Invites \ overtaken' : Undoing(i) # {} =>
              /\ row[i].state # "USED"
              /\ (row'[i].state = "OPEN") = ((AskedFor(i).action = "REVOKE") # AskedFor(i).isRevert)
<1>1. ASSUME AuditInv, [Next]_vars
      PROVE  Effective
  <2> SUFFICES ASSUME NEW x \in Entities, x \notin overtaken', Undoing(x) # {}
               PROVE  /\ x \notin Invites => row'[x] = AskedFor(x).before
                      /\ x \in Invites =>
                            /\ row[x].state # "USED"
                            /\ row'[x].state = "OPEN"
                                  <=> ((AskedFor(x).action = "REVOKE") # AskedFor(x).isRevert)
    BY DEF Entities
  <2>1. PICK r \in Reverts : CommitRevert(r)
    BY <1>1, OnlyRevertsMark
  <2>k. PICK k, chain : k = revert[r].k /\ chain = revert[r].chain
    OBVIOUS
  <2>2. RevertMade(k, chain)
    BY <1>1, <2>1, <2>k, RevertMakes
  <2>3. /\ log \in Seq(Entry) /\ ChainSound(k, chain)
        /\ \A j \in DOMAIN log : log'[j] = IF j \in chain THEN Marked(log[j]) ELSE log[j]
    BY <2>2 DEF RevertMade
  <2>11. k \in 1 .. Len(log) /\ chain \subseteq 1 .. Len(log) /\ Len(log) \in Nat
    BY <2>3, ChainFacts
  <2>12. Undoing(x) \subseteq chain /\ x = log[k].entity
    <3>1. Undoing(x) \subseteq chain
      BY <2>3 DEF Undoing
    <3> QED
      BY <2>3, <3>1 DEF Undoing, ChainSound
  <2>13. Fresh(k, chain) /\ chain = Chain(k)
    BY <2>2, <2>12 DEF RevertMade, Fresh
  <2>4. chain = {j \in Standing(x) : j >= k} /\ k \in chain
    BY <2>3, <2>11, <2>12, <2>13, ChainStands DEF ChainSound
  <2>5. Undoing(x) = chain
    <3>3. ASSUME NEW j \in chain
          PROVE  j \in Undoing(x)
      <4>1. j \in DOMAIN log /\ log[j].entity = x /\ ~log[j].reverted /\ log'[j] = Marked(log[j])
        BY <2>3, <2>4, <3>3 DEF Standing
      <4>2. log[j] \in Entry
        BY <2>3, <4>1
      <4> QED
        BY <4>1, <4>2, MarkedFields DEF Undoing
    <3> QED
      BY <2>12, <3>3
  <2>6. Min(Undoing(x)) = k
    <3>1. k \in chain /\ chain \subseteq Int /\ \A j \in chain : k <= j
      BY <2>4, <2>11
    <3> QED
      BY <2>5, <3>1, FirstOfChain
  <2>7. AskedFor(x) = log[k]
    BY <2>6 DEF AskedFor
  <2>8. x \notin Invites => row'[x] = log[k].before
    BY <2>2, <2>12, <2>13 DEF RevertMade, Entities, Places
  <2>9. x \in Invites => /\ row[x].state # "USED"
                         /\ row'[x].state = "OPEN" <=> EffectiveAction(log[k]) = "REVOKE"
    BY <2>2, <2>12 DEF RevertMade
  <2>10. x \in Invites => (EffectiveAction(log[k]) = "REVOKE" <=> ((log[k].action = "REVOKE") # log[k].isRevert))
    <3>1. EntrySound(log[k]) /\ Revertible(log[k])
      BY <1>1, <2>3, <2>4 DEF AuditInv, EntriesAreSound, ChainSound
    <3> QED
      BY <2>12, <3>1, EffectiveOnInvites
  <2> QED
    BY <2>7, <2>8, <2>9, <2>10
<1>2. AuditInv /\ [Next]_vars => [Effective]_vars
  BY <1>1
<1> QED
  BY <1>2, AuditRevertInvariant, PTL DEF Spec, RevertsTakeEffect
=============================================================================
