---------------------------- MODULE ListVolumes ----------------------------
(***************************************************************************)
(* ListVolumes (src/driver/controller.go) paged by a CO: each call lists   *)
(* the appliance's targets, decodes the starting token into the set of     *)
(* indices already returned, and walks the targets in the appliance's      *)
(* order.  The CO passes each nextToken back until it is empty.  A target  *)
(* is identified by its index (its name is the entry's VolumeId).          *)
(***************************************************************************)
EXTENDS Codec, FiniteSets

CONSTANTS
    TargetIndices,   \* appliance target indices
    MaxEntriesSet,   \* max_entries values a CO may send
    StartTokens,     \* starting tokens of the CO's first call
    MaxFaults        \* bound on failed Login/list calls

ASSUME MaxEntriesSet \subseteq Nat /\ MaxFaults \in Nat

VARIABLES
    tl,          \* the appliance's target list, in listing order
    maxEntries,  \* req.MaxEntries of this walk
    token,       \* req.StartingToken of the next call
    listed,      \* entries returned so far
    status,      \* "paging", "done" or "panicked"
    lastCall,    \* token, outcome, page and nextToken of the latest call
    faults

vars == <<tl, maxEntries, token, listed, status, lastCall, faults>>

Outcomes == {"none", "ok", "internal", "panic"}

TypeOK ==
    /\ tl \in Seq(TargetIndices)
    /\ maxEntries \in MaxEntriesSet
    /\ status \in {"paging", "done", "panicked"}
    /\ lastCall.outcome \in Outcomes
    /\ faults \in 0..MaxFaults

Init ==
    /\ tl \in SetToAllKPermutations(TargetIndices)
    /\ maxEntries \in MaxEntriesSet
    /\ token \in StartTokens
    /\ listed = <<>>
    /\ status = "paging"
    /\ lastCall = [token |-> EmptyToken, outcome |-> "none",
                   page |-> <<>>, next |-> EmptyToken]
    /\ faults = 0

\* Mutant: the page is full only once it holds more than maxEntries.
RECURSIVE WalkPastMax(_, _, _, _)
WalkPastMax(i, seen, entries, max) ==
    CASE i > Len(tl) ->
            [panic |-> FALSE, entries |-> entries, next |-> EmptyToken]
      [] seen.nil ->
            [panic |-> TRUE, entries |-> entries, next |-> EmptyToken]
      [] tl[i] \in seen.set ->
            WalkPastMax(i + 1, seen, entries, max)
      [] Len(entries) > max ->
            [panic |-> FALSE, entries |-> entries,
             next |-> seenIndexesToBase64String(SetToSortSeq(seen.set, <))]
      [] OTHER ->
            WalkPastMax(i + 1, SetPtr(seen.set \cup {tl[i]}),
                        Append(entries, tl[i]), max)

\* The loop over resp.Targets, from position i with the seen set and the
\* entries so far; Has on a nil *sets.Int panics.
RECURSIVE Walk(_, _, _, _)
Walk(i, seen, entries, max) ==
    CASE i > Len(tl) ->
            [panic |-> FALSE, entries |-> entries, next |-> EmptyToken]
      [] seen.nil ->
            [panic |-> TRUE, entries |-> entries, next |-> EmptyToken]
      [] tl[i] \in seen.set ->
            Walk(i + 1, seen, entries, max)
      [] Len(entries) >= max ->
            [panic |-> FALSE, entries |-> entries,
             next |-> seenIndexesToBase64String(SetToSortSeq(seen.set, <))]
      [] OTHER ->
            Walk(i + 1, SetPtr(seen.set \cup {tl[i]}), Append(entries, tl[i]), max)

\* Mutant: a token that fails to decode leaves seenIds as returned (nil).
ListVolumesCallNoFallback(tok, max) ==
    LET dec   == base64SeenIndexesToMap(tok)
        seen0 == IF tok = EmptyToken THEN NilSet ELSE dec.seen
    IN  Walk(1, seen0, <<>>, IF max = 0 THEN Len(tl) ELSE max)

\* One ListVolumes call after Login and the target list succeeded.
ListVolumesCall(tok, max) ==
    LET dec   == base64SeenIndexesToMap(tok)
        seen0 == CASE tok = EmptyToken -> NilSet
                   [] dec.err          -> SetPtr({})
                   [] OTHER            -> dec.seen
    IN  Walk(1, seen0, <<>>, IF max = 0 THEN Len(tl) ELSE max)

\* A call that returns a page, or panics in the plugin.
ListPage ==
    /\ status = "paging"
    /\ LET r == ListVolumesCall(token, maxEntries)
       IN  /\ lastCall' = [token |-> token,
                           outcome |-> IF r.panic THEN "panic" ELSE "ok",
                           page |-> r.entries, next |-> r.next]
           /\ status' = CASE r.panic            -> "panicked"
                          [] r.next = EmptyToken -> "done"
                          [] OTHER              -> "paging"
           /\ listed' = listed \o r.entries
           /\ token' = r.next
    /\ UNCHANGED <<tl, maxEntries, faults>>

\* Login or the target list fails: Internal, and the CO retries the token.
ListFails ==
    /\ status = "paging"
    /\ faults < MaxFaults
    /\ faults' = faults + 1
    /\ lastCall' = [token |-> token, outcome |-> "internal",
                    page |-> <<>>, next |-> token]
    /\ UNCHANGED <<tl, maxEntries, token, listed, status>>

\* The walk is over: the CO has every page, or the plugin is gone.
Finished ==
    /\ status \in {"done", "panicked"}
    /\ UNCHANGED vars

Next == ListPage \/ ListFails \/ Finished

Spec == Init /\ [][Next]_vars

-----------------------------------------------------------------------------
(***************************************************************************)
(* A starting token that does not decode never fails the call: ListVolumes *)
(* falls back to an empty seen set and returns a page (spec sections 4.3,  *)
(* 4.4: garbage means "start from empty").                                 *)
(***************************************************************************)
GarbageTokenTolerated ==
    (lastCall.token # EmptyToken /\ base64SeenIndexesToMap(lastCall.token).err)
        => lastCall.outcome \in {"ok", "internal"}

(***************************************************************************)
(* A nextToken records the pages returned so far: the text inside it      *)
(* splits at its commas into fields that strconv.Atoi parses back to       *)
(* exactly the indices listed, in ascending order (spec section 4.4).      *)
(***************************************************************************)
TokenTextParsesToListed ==
    (status = "paging" /\ listed # <<>>) =>
        LET fields == ParsedFields(token.text)
        IN  /\ token.valid
            /\ \A i \in DOMAIN fields : fields[i].ok
            /\ [i \in DOMAIN fields |-> fields[i].val] = SetToSortSeq(ToSet(listed), <)

(***************************************************************************)
(* ListVolumes never panics: every call answers with a page or an error    *)
(* status (spec section 8: three targets listed one per page).  seenIds is *)
(* nil after an empty token and after any token that decodes.             *)
(***************************************************************************)
ListVolumesNoPanic == status # "panicked"

\* The indices a starting token names by the cursor's contract: none for the
\* empty token and for garbage, else the numbers in its text.
TokenNames(tok) ==
    LET fields == ParsedFields(tok.text)
    IN  IF tok = EmptyToken \/ base64SeenIndexesToMap(tok).err THEN {}
        ELSE {fields[i].val : i \in DOMAIN fields}

(***************************************************************************)
(* Every page a call returns honours max_entries: it holds the first       *)
(* min(max_entries, unseen) targets not named by its starting token, in    *)
(* the appliance's order (max_entries 0 meaning all), and it carries a     *)
(* nextToken exactly when some target is still unlisted.  This is the      *)
(* "len(entries) >= maxEntries" boundary and the maxEntries == 0 default   *)
(* of the loop in ListVolumes.                                             *)
(***************************************************************************)
PagesHonourMaxEntries ==
    lastCall.outcome = "ok" =>
        LET unseen == SelectSeq(tl, LAMBDA x : x \notin TokenNames(lastCall.token))
            limit  == IF maxEntries = 0 THEN Len(tl) ELSE maxEntries
            n      == IF limit < Len(unseen) THEN limit ELSE Len(unseen)
        IN  /\ lastCall.page = SubSeq(unseen, 1, n)
            /\ (lastCall.next = EmptyToken) <=> (n = Len(unseen))
=============================================================================
