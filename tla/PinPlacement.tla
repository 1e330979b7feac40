---------------------------- MODULE PinPlacement ----------------------------
(***************************************************************************)
(* Where the author of an alert puts its pin (AlertForm.tsx): a click on   *)
(* the map looks for an address, a typed address looks for a place, and    *)
(* both take their turn behind one timer and one counter.  The geocoder is *)
(* outside the program: it finds something, nothing, or fails.             *)
(***************************************************************************)
EXTENDS Integers

CONSTANTS
    Spots,          \* pairs of coordinates
    Texts,          \* texts of the address field that are long enough to search for
    Short,          \* a text that is not
    MaxInputs       \* bound: inputs of the user

ASSUME InputsAreCounted == MaxInputs \in Nat

VARIABLES
    address,    \* the address field
    coords,     \* the pin
    latLng,     \* the two coordinate fields
    geo,        \* the status under the field
    timer,      \* the request that waits for the pause to end
    calls,      \* requests to api/geocode under way
    geocodeSeq, \* bounded: the counter
    input       \* history: what the user last put in

pinVars == <<address, coords, latLng, geo, timer, calls, geocodeSeq, input>>

-----------------------------------------------------------------------------
None == [kind |-> "none"]
Search == [kind : {"search"}, value : Texts, seq : 1 .. MaxInputs]
Reverse == [kind : {"reverse"}, value : Spots, seq : 1 .. MaxInputs]
Input == [kind : {"type"}, value : Texts \cup {Short}]
            \cup [kind : {"pick", "edit"}, value : Spots] \cup {None}

PinTypeOK ==
    /\ address \in Texts \cup {Short}
    /\ coords \in Spots \cup {None}
    /\ latLng \in Spots \cup {None}
    /\ geo \in {"idle", "searching", "found", "notfound"}
    /\ timer \in Search \cup Reverse \cup {None}
    /\ calls \subseteq Search \cup Reverse
    /\ geocodeSeq \in 0 .. MaxInputs
    /\ input \in Input

PinInit ==
    /\ address = Short
    /\ coords = None /\ latLng = None
    /\ geo = "idle"
    /\ timer = None
    /\ calls = {}
    /\ geocodeSeq = 0
    /\ input = None

-----------------------------------------------------------------------------
Entered(kind, value) == input' = [kind |-> kind, value |-> value]

\* Mutant: the timer is replaced, the counter is not.
ScheduleUncounted(kind, value) ==
    /\ geocodeSeq < MaxInputs
    /\ geocodeSeq' = IF geocodeSeq = 0 THEN 1 ELSE geocodeSeq
    /\ timer' = [kind |-> kind, value |-> value, seq |-> geocodeSeq']
    /\ geo' = "searching"
    /\ UNCHANGED calls

\* scheduleGeocode
Schedule(kind, value) ==
    /\ geocodeSeq < MaxInputs
    /\ geocodeSeq' = geocodeSeq + 1
    /\ timer' = [kind |-> kind, value |-> value, seq |-> geocodeSeq']
    /\ geo' = "searching"
    /\ UNCHANGED calls

\* handlePick
PickSpot == \E spot \in Spots :
    /\ coords' = spot /\ latLng' = spot
    /\ Schedule("reverse", spot)
    /\ Entered("pick", spot)
    /\ UNCHANGED address

\* handleLocationChange
Type == \E text \in Texts :
    /\ address' = text
    /\ Schedule("search", text)
    /\ Entered("type", text)
    /\ UNCHANGED <<coords, latLng>>

\* ... and what it does with a text that is too short.
TypeShort ==
    /\ geocodeSeq < MaxInputs
    /\ address' = Short
    /\ timer' = None
    /\ geocodeSeq' = geocodeSeq + 1
    /\ geo' = "idle"
    /\ Entered("type", Short)
    /\ UNCHANGED <<coords, latLng, calls>>

\* handleLatChange, handleLngChange: the timer and the counter stay.
EditCoords == \E spot \in Spots :
    /\ coords' = spot /\ latLng' = spot
    /\ Entered("edit", spot)
    /\ UNCHANGED <<address, geo, timer, calls, geocodeSeq>>

FireTimer ==
    /\ timer # None
    /\ calls' = calls \cup {timer}
    /\ timer' = None
    /\ UNCHANGED <<address, coords, latLng, geo, geocodeSeq, input>>

\* What an answer in time does.
Use(call) ==
    \/ geo' = "notfound" /\ UNCHANGED <<address, coords>>
    \/ /\ call.kind = "reverse"
       /\ \E text \in Texts : address' = text
       /\ geo' \in {"found", "notfound"}
       /\ UNCHANGED coords
    \/ /\ call.kind = "search"
       /\ \E spot \in Spots : coords' = spot
       /\ geo' \in {"found", "idle"}
       /\ UNCHANGED address

AnswerCall == \E call \in calls :
    /\ calls' = calls \ {call}
    /\ IF call.seq = geocodeSeq THEN Use(call) ELSE UNCHANGED <<address, coords, geo>>
    /\ UNCHANGED <<latLng, timer, geocodeSeq, input>>

PinNext == PickSpot \/ Type \/ TypeShort \/ EditCoords \/ FireTimer \/ AnswerCall

PinSpec == PinInit /\ [][PinNext]_pinVars

-----------------------------------------------------------------------------
(* Properties. *)

\* A late answer never replaces what the user put in after the question: the
\* pin stays where it was picked, the address reads what was typed, and no
\* search is announced that nobody waits for (AlertForm.tsx:125-130).
LatestInputWins ==
    /\ input.kind = "pick" => coords = input.value
    /\ input.kind = "type" => address = input.value
    /\ geo = "searching" => \E c \in (calls \cup {timer}) \ {None} : c.seq = geocodeSeq
=============================================================================
